-------------------------- MODULE ProjectionProofs --------------------------
(* What holds of projections, snapshots and garbage collection for any       *)
(* number of writers, clients and commits, and any number of failures,       *)
(* interruptions and rebuilds.                                               *)
EXTENDS Projection, WellFoundedInduction, SequenceTheorems, FiniteSetTheorems, TLAPS

-----------------------------------------------------------------------------
(* Least and greatest elements.                                              *)

(* A set of naturals that is not empty has a least element.                  *)
LEMMA LeastNatural ==
  ASSUME NEW S \in SUBSET Nat, S /= {}
  PROVE  \E m \in S : \A n \in S : m <= n
<1> DEFINE R == OpToRel(<, Nat)
<1>1. IsWellFoundedOn(R, Nat)
  BY NatLessThanWellFounded
<1>2. \A x, y \in Nat : x < y => <<x, y>> \in R
  BY DEF OpToRel
<1> HIDE DEF R
<1>3. \E x \in S : \A y \in S : <<y, x>> \notin R
  BY <1>1, WFMin
<1>4. PICK x \in S : \A y \in S : <<y, x>> \notin R
  BY <1>3
<1>5. \A y \in S : ~ (y < x)
  BY <1>2, <1>4
<1>6. \A y \in S : x <= y
  BY <1>5
<1>7. QED
  BY <1>6

(* Min returns it.                                                           *)
LEMMA MinProperties ==
  ASSUME NEW S \in SUBSET Nat, S /= {}
  PROVE  Min(S) \in S /\ \A n \in S : Min(S) <= n
  BY LeastNatural DEF Min

(* A bounded set of naturals has a greatest element: Max returns it.         *)
LEMMA MaxProperties ==
  ASSUME NEW b \in Nat, NEW S, \A n \in S : n \in Nat /\ n <= b, S /= {}
  PROVE  Max(S) \in S /\ \A n \in S : n <= Max(S)
<1> DEFINE T == {j \in Nat : \A n \in S : n <= j}
<1>1. b \in T /\ T \in SUBSET Nat
  OBVIOUS
<1>2. PICK m \in T : \A j \in T : m <= j
  <2> HIDE DEF T
  <2>1. QED
    BY <1>1, LeastNatural
<1>3. m \in S
  <2>1. SUFFICES ASSUME m \notin S PROVE FALSE
    OBVIOUS
  <2>2. \A n \in S : n \in Nat /\ n <= m /\ n /= m
    BY <1>2, <2>1
  <2>3. m \in Nat /\ m /= 0
    BY <1>2, <2>2
  <2>4. m - 1 \in T
    BY <2>2, <2>3
  <2>5. m <= m - 1
    BY <1>2, <2>4
  <2>6. QED
    BY <2>3, <2>5
<1>4. \A n \in S : m >= n
  BY <1>2
<1>5. QED
  BY <1>3, <1>4 DEF Max

(* The latest of a set of numbers is one of them, or 0 if there is none.     *)
LEMMA LatestProperties ==
  ASSUME NEW b \in Nat, NEW S, \A n \in S : n \in 1..b
  PROVE  /\ Latest(S) \in 0..b
         /\ S /= {} => Latest(S) \in S
         /\ \A n \in S : n <= Latest(S)
<1>1. CASE S = {}
  BY <1>1 DEF Latest
<1>2. CASE S /= {}
  <2>1. Max(S) \in S /\ \A n \in S : n <= Max(S)
    BY <1>2, MaxProperties
  <2>2. QED
    BY <1>2, <2>1 DEF Latest
<1>3. QED
  BY <1>1, <1>2

(* The snapshot that collect_garbage keeps as the oldest one is one of those *)
(* it listed.                                                                *)
LEMMA OldestIsListed ==
  ASSUME NEW b \in Nat, NEW S, \A m \in S : m \in Nat /\ m <= b, S /= {}
  PROVE  OldestKept(S) \in S
<1>1. KeepSnapshots \in Nat \ {0}
  BY ProjectionAssumption
<1> DEFINE Up(n) == {m \in S : m >= n}
<1>2. IsFiniteSet(S) /\ Cardinality(S) \in Nat
  <2>1. S \subseteq 0..b
    OBVIOUS
  <2>2. 0 \in Int /\ b \in Int
    OBVIOUS
  <2>3. IsFiniteSet(0..b)
    BY <2>2, FS_Interval
  <2>4. IsFiniteSet(S)
    BY <2>1, <2>3, FS_Subset
  <2>5. QED
    BY <2>4, FS_CardinalityType
<1>3. ASSUME NEW n
      PROVE  IsFiniteSet(Up(n)) /\ Cardinality(Up(n)) \in Nat
  <2>1. Up(n) \in SUBSET S
    OBVIOUS
  <2>2. IsFiniteSet(Up(n))
    BY <1>2, <2>1, FS_Subset
  <2>3. QED
    BY <2>2, FS_CardinalityType
<1>4. CASE Cardinality(S) <= KeepSnapshots
  <2>1. S \in SUBSET Nat
    OBVIOUS
  <2>2. Min(S) \in S
    BY <2>1, MinProperties
  <2>3. QED
    BY <1>4, <2>2 DEF OldestKept
<1>5. CASE ~(Cardinality(S) <= KeepSnapshots)
  (* the greatest n with at least KeepSnapshots elements from n on *)
  <2> DEFINE Above(n) == Cardinality(Up(n)) >= KeepSnapshots
  <2> DEFINE N == {n \in 0..b : Above(n)}
  <2>1. Up(0) = S
    OBVIOUS
  <2>2. Above(0)
    BY <1>1, <1>2, <1>5, <2>1
  <2>u. \A n \in Nat : n > b => Up(n) = {}
    OBVIOUS
  <2>v. \A n \in Nat : n > b => ~Above(n)
    BY <1>1, <2>u, FS_EmptySet
  <2>w. \A n \in Nat : Up(n) = IF n \in S THEN Up(n + 1) \cup {n} ELSE Up(n + 1)
    OBVIOUS
  <2>x. \A n \in Nat : n \notin Up(n + 1)
    OBVIOUS
  <2>y. \A n : Above(n) <=> Cardinality(Up(n)) >= KeepSnapshots
    OBVIOUS
  <2>z. \A n : n \in N <=> n \in 0..b /\ Above(n)
    OBVIOUS
  <2> HIDE DEF N, Above, Up
  <2>3. N /= {} /\ \A n \in N : n \in Nat /\ n <= b
    BY <2>2, <2>z
  <2>4. PICK k \in N : \A n \in N : n <= k
    BY <2>3, MaxProperties
  <2>5. k \in 0..b /\ Above(k) /\ ~Above(k + 1)
    BY <2>4, <2>v, <2>z
  <2>6. k \in S
    <3>1. Up(k) /= Up(k + 1)
      BY <2>5, <2>y
    <3>2. QED
      BY <2>5, <2>w, <3>1
  <2>7. Cardinality(Up(k)) = Cardinality(Up(k + 1)) + 1
    BY <1>3, <2>5, <2>6, <2>w, <2>x, FS_AddElement, ZenonT(30)
  <2>8. Cardinality(Up(k)) = KeepSnapshots
    BY <1>1, <1>3, <2>5, <2>7, <2>y
  <2>9. Cardinality({m \in S : m >= k}) = KeepSnapshots
    BY <2>8 DEF Up
  <2>10. QED
    BY <1>5, <2>6, <2>9 DEF OldestKept
<1>6. QED
  BY <1>4, <1>5

-----------------------------------------------------------------------------
(* The invariant, first the part of it that speaks of the bucket and the     *)
(* jobs only. Numbers never run ahead of the acknowledgements; as long as    *)
(* none was used twice, every commit is in the log or below a snapshot, and  *)
(* a collection deletes only below a snapshot that it does not delete.       *)
BucketTypes ==
  /\ log \in [DOMAIN log -> Number]
  /\ snapshots \in [DOMAIN snapshots -> File]
  /\ acks \in Seq(Number)
  /\ tail \in [Writer -> Number \cup {NoTail}]
  /\ builder \in File \cup {NoFile}
  /\ gc \in [pc : {"idle", "listed", "snapshots", "log"}, oldest : 0..MaxCommits,
             victims : SUBSET Number]

Bounds ==
  /\ Len(acks) <= MaxCommits
  /\ \A n \in DOMAIN log : n \in 1..Len(acks)
  /\ \A w \in Writer : tail[w] /= NoTail => tail[w] <= Len(acks)
  /\ \A n \in DOMAIN snapshots : n \in 1..Len(acks) /\ snapshots[n].last = n
  /\ builder /= NoFile => builder.last <= Len(acks)

Originals ==
  ~Renumbered =>
    /\ \A n \in DOMAIN log : log[n] = n
    /\ \A n \in DOMAIN snapshots : IsFold(snapshots[n])
    /\ builder /= NoFile => IsFold(builder)

Covered ==
  ~Renumbered =>
    \A n \in 1..Len(acks) : n \in DOMAIN log \/ \E s \in DOMAIN snapshots : n <= s

Collected ==
  gc.pc /= "idle" =>
    /\ \E s \in DOMAIN snapshots : gc.oldest <= s
    /\ gc.pc \in {"listed", "snapshots"} => \A n \in gc.victims : n < gc.oldest
    /\ gc.pc = "log" => \A n \in gc.victims : n <= gc.oldest

Unpruned ==
  ~PruneLog =>
    /\ gc.pc /= "log"
    /\ \A n \in 1..Len(acks) : n \in DOMAIN log /\ acks[n] = n

BucketInv == BucketTypes /\ Bounds /\ Originals /\ Covered /\ Collected /\ Unpruned

(* The part that speaks of the clients. What an update reads of its client   *)
(* stays true until it ends; its .new file extends the projection it is to   *)
(* replace and, as long as no number was used twice, has exactly the commits *)
(* before its cursor.                                                        *)
ClientTypes ==
  /\ db \in [Client -> File \cup {NoFile}]
  /\ new \in [Client -> File \cup {NoFile}]
  /\ job \in [Client -> JobRecord]
  /\ \A c \in Client : job[c].pc = "replay" => new[c] /= NoFile
  /\ resumed \subseteq Client
  /\ upsets \in 0..MaxUpsets

Blank(file) == file /= NoFile /\ file.last = 0 => file.rows = <<>>

Extends(file, longer) ==
  /\ Len(file.rows) <= Len(longer.rows)
  /\ \A k \in 1..Len(file.rows) : longer.rows[k] = file.rows[k]

Sound(c) ==
  /\ Blank(db[c]) /\ Blank(new[c])
  /\ job[c].pc /= "idle" => job[c].current = CurrentSequence(c)
  /\ job[c].pc \in {"list", "fetch"} => job[c].current = 0
  /\ job[c].pc = "replay" /\ db[c] /= NoFile => Extends(db[c], new[c])

Pure(c) ==
  /\ db[c] /= NoFile => IsFold(db[c])
  /\ job[c].pc = "replay" => IsFold(new[c]) /\ new[c].last = job[c].cursor

ClientInv ==
  /\ ClientTypes
  /\ \A c \in Client : Sound(c)
  /\ ~Renumbered => \A c \in Client \ resumed : Pure(c)

Inv == BucketInv /\ ClientInv

(* Every commit below the number an append takes is stored.                  *)
LEMMA FreeAfterProperties ==
  ASSUME BucketTypes, Bounds, NEW t \in 0..Len(acks)
  PROVE  /\ FreeAfter(t) \in t + 1..Len(acks) + 1
         /\ FreeAfter(t) \notin DOMAIN log
         /\ \A n \in t + 1..FreeAfter(t) - 1 : n \in DOMAIN log
<1> DEFINE S == {n \in t + 1..t + MaxCommits + 1 : n \notin DOMAIN log}
<1>1. /\ MaxCommits \in Nat /\ Len(acks) \in Nat /\ Len(acks) <= MaxCommits
      /\ \A n \in DOMAIN log : n <= Len(acks)
  BY ProjectionAssumption, LenProperties DEF BucketTypes, Bounds
<1>2. Len(acks) + 1 \in S
  BY <1>1
<1>3. S \in SUBSET Nat
  BY <1>1
<1>4. \A n : n \in S <=> n \in t + 1..t + MaxCommits + 1 /\ n \notin DOMAIN log
  OBVIOUS
<1>5. FreeAfter(t) = Min(S)
  BY DEF FreeAfter
<1> HIDE DEF S
<1>6. FreeAfter(t) \in S /\ \A n \in S : FreeAfter(t) <= n
  BY <1>2, <1>3, <1>5, MinProperties
<1>7. QED
  BY <1>1, <1>2, <1>4, <1>6

(* A fold with one more commit is a fold.                                    *)
LEMMA AppendFold ==
  ASSUME NEW file \in File, NEW x \in Nat, file.last + 1 = x, IsFold(file)
  PROVE  IsFold([rows |-> Append(file.rows, x), last |-> x])
<1>1. file.last \in Nat /\ file.rows = [k \in 1..file.last |-> k]
  BY ProjectionAssumption DEF File, IsFold
<1>2. Append(file.rows, x) = [k \in 1..x |-> k]
  <2>1. file.rows \in Seq(Number)
    BY DEF File
  <2>2. Len(file.rows) = file.last
    BY <1>1, <2>1, LenProperties
  <2>3. Append(file.rows, x) =
          [k \in 1..Len(file.rows) + 1 |->
             IF k = Len(file.rows) + 1 THEN x ELSE file.rows[k]]
    BY <2>1 
  <2>4. QED
    BY <1>1, <2>2, <2>3
<1>3. QED
  BY <1>2 DEF IsFold

(* One more commit keeps a file a file.                                      *)
LEMMA AppliedIsFile ==
  ASSUME BucketTypes, Bounds, NEW file \in File, NEW n \in DOMAIN log
  PROVE  Applied(file, n) \in File /\ Applied(file, n).last = n
<1>1. log[n] \in Number /\ n \in Number
  BY ProjectionAssumption, LenProperties DEF BucketTypes, Bounds, Number
<1>2. Append(file.rows, log[n]) \in Seq(Number)
  BY <1>1, AppendProperties DEF File
<1>3. n \in 0..MaxCommits
  BY <1>1, ProjectionAssumption DEF Number
<1>4. QED
  BY <1>2, <1>3 DEF Applied, File

(* Acknowledgements are only added: numbers that are unique now always were. *)
LEMMA AppendAcks ==
  ASSUME BucketTypes, NEW n \in Number, acks' = Append(acks, n)
  PROVE  /\ Len(acks') = Len(acks) + 1
         /\ \A k \in 1..Len(acks) : acks'[k] = acks[k]
         /\ acks'[Len(acks) + 1] = n
         /\ ~Renumbered' => ~Renumbered /\ n = Len(acks) + 1
<1>1. acks \in Seq(Number)
  BY DEF BucketTypes
<1>2. /\ Len(acks') = Len(acks) + 1 /\ acks' \in Seq(Number)
      /\ \A k \in 1..Len(acks) : acks'[k] = acks[k]
      /\ acks'[Len(acks) + 1] = n
  BY <1>1, AppendProperties
<1>3. Len(acks) \in Nat /\ DOMAIN acks = 1..Len(acks) /\ DOMAIN acks' = 1..Len(acks) + 1
  BY <1>1, <1>2, LenProperties
<1>4. QED
  BY <1>2, <1>3 DEF Renumbered

(* The invariant of the bucket holds of an empty one.                        *)
LEMMA BucketInit == Init => BucketInv
<1> SUFFICES ASSUME Init PROVE BucketInv
  OBVIOUS
<1>1. /\ log = <<>> /\ snapshots = <<>> /\ acks = <<>> /\ builder = NoFile
      /\ tail = [w \in Writer |-> NoTail]
      /\ gc = [pc |-> "idle", oldest |-> 0, victims |-> {}]
  BY DEF Init, NoGC
<1>2. <<>> \in Seq(Number) /\ Len(<<>>) = 0 /\ DOMAIN <<>> = {}
  BY EmptySeq
<1>3. MaxCommits \in Nat
  BY ProjectionAssumption
<1>4. BucketTypes
  BY <1>1, <1>2, <1>3 DEF BucketTypes
<1>5. Bounds /\ Originals /\ Covered /\ Collected /\ Unpruned
  BY <1>1, <1>2, <1>3 DEF Bounds, Originals, Covered, Collected, Unpruned
<1>6. QED
  BY <1>4, <1>5 DEF BucketInv

(* The steps of the clients leave the bucket and the jobs alone.             *)
LEMMA BucketUnchanged ==
  ASSUME BucketInv, UNCHANGED <<bucket, builder, gc>>
  PROVE  BucketInv'
<1>1. UNCHANGED <<log, snapshots, acks, tail, builder, gc>>
  BY DEF bucket
<1>2. BucketTypes' /\ Bounds'
  BY <1>1 DEF BucketInv, BucketTypes, Bounds
<1>3. Originals' /\ Covered'
  BY <1>1 DEF BucketInv, Originals, Covered, Renumbered
<1>4. Collected' /\ Unpruned'
  BY <1>1 DEF BucketInv, Collected, Unpruned
<1>5. QED
  BY <1>2, <1>3, <1>4 DEF BucketInv

(* An append takes a number that is free, at most one more than there are    *)
(* acknowledgements; below it everything is stored or was.                   *)
LEMMA BucketAppend ==
  ASSUME BucketInv, NEW w \in Writer, AppendCommit(w)
  PROVE  BucketInv'
<1> USE DEF BucketInv
<1> DEFINE n == FreeAfter(KnownTail(w))
           k == Len(acks) + 1
<1>1. /\ log' = [m \in DOMAIN log \cup {n} |-> IF m = n THEN k ELSE log[m]]
      /\ acks' = Append(acks, n) /\ Len(acks) < MaxCommits
      /\ tail' = [tail EXCEPT ![w] = n]
      /\ UNCHANGED <<snapshots, builder, gc>>
  BY DEF AppendCommit, Put
<1>2. MaxCommits \in Nat /\ Len(acks) \in Nat /\ acks \in Seq(Number)
  BY ProjectionAssumption, LenProperties DEF BucketTypes
<1>3. KnownTail(w) \in 0..Len(acks)
  <2>1. CASE tail[w] = NoTail
    <3>1. \A m \in DOMAIN log : m \in 1..Len(acks)
      BY DEF Bounds
    <3>2. Latest(DOMAIN log) \in 0..Len(acks)
      BY <1>2, <3>1, LatestProperties
    <3>3. QED
      BY <2>1, <3>2 DEF KnownTail
  <2>2. CASE tail[w] /= NoTail
    <3>1. tail[w] \in Number /\ tail[w] <= Len(acks)
      BY <2>2 DEF BucketTypes, Bounds
    <3>2. QED
      BY <1>2, <2>2, <3>1 DEF KnownTail, Number
  <2>3. QED
    BY <2>1, <2>2
<1>4. n \in 1..k /\ n \notin DOMAIN log
  BY <1>2, <1>3, FreeAfterProperties
<1> HIDE DEF n
<1>5. n \in Number /\ k \in Number
  BY <1>1, <1>2, <1>4 DEF Number
<1>6. /\ Len(acks') = k
      /\ \A m \in 1..Len(acks) : acks'[m] = acks[m]
      /\ acks'[k] = n
      /\ ~Renumbered' => ~Renumbered /\ n = k
  BY <1>1, <1>5, AppendAcks
<1>7. BucketTypes'
  <2>1. acks' \in Seq(Number)
    BY <1>1, <1>2, <1>5, AppendProperties
  <2>2. log' \in [DOMAIN log' -> Number]
    BY <1>1, <1>5 DEF BucketTypes
  <2>3. tail' \in [Writer -> Number \cup {NoTail}]
    BY <1>1, <1>5 DEF BucketTypes
  <2>4. QED
    BY <1>1, <2>1, <2>2, <2>3 DEF BucketTypes
<1>8. Bounds'
  <2>1. \A m \in DOMAIN log' : m \in 1..k
    BY <1>1, <1>2, <1>4 DEF Bounds
  <2>2. \A v \in Writer : tail'[v] /= NoTail => tail'[v] <= k
    <3> SUFFICES ASSUME NEW v \in Writer, tail'[v] /= NoTail PROVE tail'[v] <= k
      OBVIOUS
    <3>1. CASE v = w
      BY <1>1, <1>2, <1>4, <3>1 DEF BucketTypes
    <3>2. CASE v /= w
      <4>1. tail'[v] = tail[v]
        BY <1>1, <3>2 DEF BucketTypes
      <4>2. tail[v] \in Number /\ tail[v] <= Len(acks)
        BY <4>1 DEF BucketTypes, Bounds
      <4>3. QED
        BY <1>2, <4>1, <4>2 DEF Number
    <3>3. QED
      BY <3>1, <3>2
  <2>3. \A m \in DOMAIN snapshots' : m \in 1..k /\ snapshots'[m].last = m
    BY <1>1, <1>2 DEF Bounds
  <2>4. builder' /= NoFile => builder'.last <= k
    BY <1>1, <1>2, ProjectionAssumption DEF Bounds, BucketTypes, File
  <2>5. QED
    BY <1>1, <1>2, <1>6, <2>1, <2>2, <2>3, <2>4 DEF Bounds
<1>9. Originals'
  BY <1>1, <1>6 DEF Originals
<1>10. Covered'
  <2> SUFFICES ASSUME ~Renumbered', NEW m \in 1..k
               PROVE  m \in DOMAIN log' \/ \E s \in DOMAIN snapshots' : m <= s
    BY <1>6 DEF Covered
  <2>1. CASE m = k
    BY <1>1, <1>6, <2>1
  <2>2. CASE m /= k
    <3>1. m \in 1..Len(acks)
      BY <1>2, <2>2
    <3>2. m \in DOMAIN log \/ \E s \in DOMAIN snapshots : m <= s
      BY <1>6, <3>1 DEF Covered
    <3>3. QED
      BY <1>1, <3>2
  <2>3. QED
    BY <2>1, <2>2
<1>11. Collected'
  BY <1>1 DEF Collected
<1>12. Unpruned'
  <2> SUFFICES ASSUME ~PruneLog
               PROVE  /\ gc.pc /= "log"
                      /\ \A m \in 1..k : m \in DOMAIN log' /\ acks'[m] = m
    BY <1>1, <1>6 DEF Unpruned
  <2>1. gc.pc /= "log" /\ \A m \in 1..Len(acks) : m \in DOMAIN log /\ acks[m] = m
    BY DEF Unpruned
  <2>2. n = k
    BY <1>2, <1>4, <2>1
  <2>3. QED
    BY <1>1, <1>2, <1>6, <2>1, <2>2
<1>13. QED
  BY <1>7, <1>8, <1>9, <1>10, <1>11, <1>12

(* A restart forgets a tail.                                                 *)
LEMMA BucketRestart ==
  ASSUME BucketInv, NEW w \in Writer, RestartWriter(w)
  PROVE  BucketInv'
<1>1. /\ tail' = [tail EXCEPT ![w] = NoTail]
      /\ UNCHANGED <<log, snapshots, acks, builder, gc>>
  BY DEF RestartWriter
<1>2. BucketTypes' /\ Bounds'
  BY <1>1 DEF BucketInv, BucketTypes, Bounds
<1>3. Originals' /\ Covered'
  BY <1>1 DEF BucketInv, Originals, Covered, Renumbered
<1>4. Collected' /\ Unpruned'
  BY <1>1 DEF BucketInv, Collected, Unpruned
<1>5. QED
  BY <1>2, <1>3, <1>4 DEF BucketInv

(* Any step that changes the builder only, and leaves it with a file that is *)
(* no longer than the log was, and original if all is.                       *)
LEMMA BucketBuilder ==
  ASSUME BucketInv, UNCHANGED <<bucket, gc>>, builder' \in File \cup {NoFile},
         builder' /= NoFile => builder'.last <= Len(acks),
         ~Renumbered => (builder' /= NoFile => IsFold(builder'))
  PROVE  BucketInv'
<1>1. UNCHANGED <<log, snapshots, acks, tail, gc>>
  BY DEF bucket
<1>2. BucketTypes' /\ Bounds'
  BY <1>1 DEF BucketInv, BucketTypes, Bounds
<1>3. Originals' /\ Covered'
  BY <1>1 DEF BucketInv, Originals, Covered, Renumbered
<1>4. Collected' /\ Unpruned'
  BY <1>1 DEF BucketInv, Collected, Unpruned
<1>5. QED
  BY <1>2, <1>3, <1>4 DEF BucketInv

(* An empty database is the result of applying no commit.                    *)
LEMMA EmptyIsFold ==
  Empty \in File /\ IsFold(Empty) /\ Empty /= NoFile /\ Empty.last = 0 /\ Empty.rows = <<>>
<1>1. <<>> \in Seq(Number) /\ 0 \in 0..MaxCommits
  BY EmptySeq, ProjectionAssumption
<1>2. Empty \in File
  BY <1>1 DEF Empty, File
<1>3. [k \in 1..0 |-> k] = <<>>
  OBVIOUS
<1>4. QED
  BY <1>2, <1>3, ProjectionAssumption DEF Empty, IsFold

(* The builder applies what it finds in the log, in order.                   *)
LEMMA BucketBuild ==
  ASSUME BucketInv, BuildStart \/ BuildCommit \/ BuildFails
  PROVE  BucketInv'
<1> USE DEF BucketInv
<1>1. Len(acks) \in Nat
  BY LenProperties DEF BucketTypes
<1>2. CASE BuildStart
  <2>1. builder' = Empty /\ UNCHANGED <<bucket, gc>>
    BY <1>2 DEF BuildStart
  <2>2. QED
    BY <1>1, <2>1, EmptyIsFold, BucketBuilder
<1>3. CASE BuildCommit
  <2> DEFINE n == builder.last + 1
  <2>1. /\ builder /= NoFile /\ n \in DOMAIN log /\ builder' = Applied(builder, n)
        /\ UNCHANGED <<bucket, gc>>
    BY <1>3 DEF BuildCommit
  <2>2. builder \in File
    BY <2>1 DEF BucketTypes
  <2>3. builder' \in File /\ builder'.last = n
    BY <2>1, <2>2, AppliedIsFile
  <2>4. n \in 1..Len(acks)
    BY <2>1 DEF Bounds
  <2>5. ~Renumbered => IsFold(builder')
    <3> SUFFICES ASSUME ~Renumbered PROVE IsFold(builder')
      OBVIOUS
    <3>1. IsFold(builder) /\ log[n] = n
      BY <2>1 DEF Originals
    <3>2. builder' = [rows |-> Append(builder.rows, n), last |-> n]
      BY <2>1, <3>1 DEF Applied
    <3>3. n \in Nat
      BY <1>1, <2>4
    <3> HIDE DEF n
    <3>4. builder.last + 1 = n
      BY DEF n
    <3>5. QED
      BY <2>2, <3>1, <3>2, <3>3, <3>4, AppendFold
  <2> HIDE DEF n
  <2>6. QED
    BY <1>1, <2>1, <2>3, <2>4, <2>5, BucketBuilder
<1>4. CASE BuildFails
  <2>1. builder' = NoFile /\ UNCHANGED <<bucket, gc>>
    BY <1>4 DEF BuildFails
  <2>2. QED
    BY <2>1, BucketBuilder
<1>5. QED
  BY <1>2, <1>3, <1>4

(* A snapshot that is stored covers what the ones before it covered, and     *)
(* what the builder replayed.                                                *)
LEMMA BucketPut ==
  ASSUME BucketInv, BuildPut
  PROVE  BucketInv'
<1> USE DEF BucketInv
<1> DEFINE n == builder.last
<1>1. /\ builder /= NoFile /\ builder.last /= 0 /\ builder' = NoFile
      /\ snapshots' = IF n \in DOMAIN snapshots THEN snapshots
                      ELSE Put(snapshots, n, builder)
      /\ UNCHANGED <<log, acks, tail, gc>>
  BY DEF BuildPut
<1>2. builder \in File /\ n \in 0..MaxCommits /\ n <= Len(acks) /\ Len(acks) \in Nat
  BY <1>1, LenProperties DEF BucketTypes, Bounds, File
<1>3. n \in 1..Len(acks)
  BY <1>1, <1>2, ProjectionAssumption
<1>4. /\ \A m \in DOMAIN snapshots : m \in DOMAIN snapshots' /\ snapshots'[m] = snapshots[m]
      /\ \A m \in DOMAIN snapshots' :
           m \in DOMAIN snapshots \/ (m = n /\ snapshots'[m] = builder)
      /\ snapshots' \in [DOMAIN snapshots' -> File]
  <2>1. CASE n \in DOMAIN snapshots
    BY <1>1, <2>1 DEF BucketTypes
  <2>2. CASE n \notin DOMAIN snapshots
    BY <1>1, <1>2, <2>2 DEF BucketTypes, Put
  <2>3. QED
    BY <2>1, <2>2
<1>5. BucketTypes' /\ Bounds'
  BY <1>1, <1>3, <1>4 DEF BucketTypes, Bounds
<1>6. Originals'
  BY <1>1, <1>4 DEF Originals, Renumbered
<1>7. Covered'
  BY <1>1, <1>4 DEF Covered, Renumbered
<1>8. Collected' /\ Unpruned'
  BY <1>1, <1>4 DEF Collected, Unpruned
<1>9. QED
  BY <1>5, <1>6, <1>7, <1>8

(* What a collection lists for deletion is below a snapshot that it keeps.   *)
LEMMA BucketList ==
  ASSUME BucketInv, ListSnapshots \/ ListVictims \/ ListCommits \/ GCEnds
  PROVE  BucketInv'
<1> USE DEF BucketInv
<1>1. UNCHANGED <<log, snapshots, acks, tail, builder>>
  BY DEF ListSnapshots, ListVictims, ListCommits, GCEnds, bucket
<1>2. Bounds' /\ Originals' /\ Covered'
  BY <1>1 DEF Bounds, Originals, Covered, Renumbered
<1>3. CASE ListSnapshots
  <2> DEFINE oldest == OldestKept(DOMAIN snapshots)
  <2>1. /\ \E pc \in {"listed", "snapshots"} : gc' = [pc |-> pc, oldest |-> oldest, victims |-> {}]
        /\ snapshots /= <<>>
    BY <1>3 DEF ListSnapshots
  <2>2. /\ \A m \in DOMAIN snapshots : m \in Nat /\ m <= Len(acks) /\ m \in Number
        /\ Len(acks) \in Nat
    BY LenProperties, ProjectionAssumption DEF BucketTypes, Bounds, Number
  <2>3. DOMAIN snapshots /= {}
    <3>1. SUFFICES ASSUME DOMAIN snapshots = {} PROVE FALSE
      OBVIOUS
    <3>2. snapshots \in [1..0 -> File]
      BY <3>1 DEF BucketTypes
    <3>3. snapshots \in Seq(File) /\ DOMAIN snapshots = 1..0
      BY <3>1, <3>2, SeqDef
    <3>4. QED
      BY <2>1, <3>3, EmptySeq, LenProperties
  <2>4. oldest \in DOMAIN snapshots
    BY <2>2, <2>3, OldestIsListed
  <2>5. oldest \in 0..MaxCommits /\ oldest <= oldest
    BY <2>2, <2>4, ProjectionAssumption DEF Number
  <2> HIDE DEF oldest
  <2>6. BucketTypes' /\ Collected'
    BY <1>1, <2>1, <2>4, <2>5 DEF BucketTypes, Collected
  <2>7. Unpruned'
    BY <1>1, <2>1 DEF Unpruned
  <2>8. QED
    BY <1>2, <2>6, <2>7
<1>4. CASE ListVictims
  <2> DEFINE victims == {n \in DOMAIN snapshots : n < gc.oldest}
  <2>1. gc.pc = "listed" /\ gc' = [gc EXCEPT !.pc = "snapshots", !.victims = victims]
    BY <1>4 DEF ListVictims
  <2>2. victims \in SUBSET Number /\ \A n \in victims : n < gc.oldest
    BY LenProperties, ProjectionAssumption DEF BucketTypes, Bounds, Number
  <2> HIDE DEF victims
  <2>3. BucketTypes' /\ Collected' /\ Unpruned'
    BY <1>1, <2>1, <2>2 DEF BucketTypes, Collected, Unpruned
  <2>4. QED
    BY <1>2, <2>3
<1>5. CASE ListCommits
  <2> DEFINE victims == {n \in DOMAIN log : n <= gc.oldest}
  <2>1. /\ gc.pc = "snapshots" /\ PruneLog
        /\ gc' = [gc EXCEPT !.pc = "log", !.victims = victims]
    BY <1>5 DEF ListCommits, LastCovered
  <2>2. victims \in SUBSET Number /\ \A n \in victims : n <= gc.oldest
    BY LenProperties, ProjectionAssumption DEF BucketTypes, Bounds, Number
  <2> HIDE DEF victims
  <2>3. BucketTypes' /\ Collected' /\ Unpruned'
    BY <1>1, <2>1, <2>2 DEF BucketTypes, Collected, Unpruned
  <2>4. QED
    BY <1>2, <2>3
<1>6. CASE GCEnds
  <2>1. gc' = [pc |-> "idle", oldest |-> 0, victims |-> {}]
    BY <1>6 DEF GCEnds, NoGC
  <2>2. BucketTypes' /\ Collected' /\ Unpruned'
    BY <1>1, <2>1, ProjectionAssumption DEF BucketTypes, Collected, Unpruned
  <2>3. QED
    BY <1>2, <2>2
<1>7. QED
  BY <1>3, <1>4, <1>5, <1>6

(* A deletion leaves the snapshot that covers what it deletes.               *)
LEMMA BucketDelete ==
  ASSUME BucketInv, NEW n \in Number, DeleteSnapshot(n) \/ DeleteCommit(n)
  PROVE  BucketInv'
<1> USE DEF BucketInv
<1>1. /\ UNCHANGED <<acks, tail, builder>> /\ n \in gc.victims /\ gc.pc /= "idle"
      /\ gc' = [gc EXCEPT !.victims = @ \ {n}]
  BY DEF DeleteSnapshot, DeleteCommit
<1>2. PICK s \in DOMAIN snapshots : gc.oldest <= s
  BY <1>1 DEF Collected
<1>3. n \in Nat /\ gc.oldest \in Nat /\ s \in Nat /\ Len(acks) \in Nat
  BY <1>2, LenProperties, ProjectionAssumption DEF BucketTypes, Bounds, Number
<1>4. CASE DeleteSnapshot(n)
  <2>1. /\ UNCHANGED log /\ gc.pc = "snapshots"
        /\ snapshots' = [m \in DOMAIN snapshots \ {n} |-> snapshots[m]]
    BY <1>4 DEF DeleteSnapshot, Restrict
  <2>2. n < gc.oldest
    BY <1>1, <2>1 DEF Collected
  <2>3. s \in DOMAIN snapshots' /\ n <= s
    BY <1>2, <1>3, <2>1, <2>2
  <2>4. BucketTypes' /\ Bounds'
    BY <1>1, <2>1 DEF BucketTypes, Bounds
  <2>5. Originals'
    BY <1>1, <2>1 DEF Originals, Renumbered
  <2>6. Covered'
    <3> SUFFICES ASSUME ~Renumbered, NEW m \in 1..Len(acks), m \notin DOMAIN log
                 PROVE  \E t \in DOMAIN snapshots' : m <= t
      BY <1>1, <2>1 DEF Covered, Renumbered
    <3>1. PICK t \in DOMAIN snapshots : m <= t
      BY DEF Covered
    <3>2. CASE t = n
      BY <1>3, <2>3, <3>1, <3>2
    <3>3. CASE t /= n
      BY <2>1, <3>1, <3>3
    <3>4. QED
      BY <3>2, <3>3
  <2>7. Collected' /\ Unpruned'
    BY <1>1, <1>2, <2>1, <2>3 DEF BucketTypes, Collected, Unpruned
  <2>8. QED
    BY <2>4, <2>5, <2>6, <2>7
<1>5. CASE DeleteCommit(n)
  <2>1. /\ UNCHANGED snapshots /\ gc.pc = "log"
        /\ log' = [m \in DOMAIN log \ {n} |-> log[m]]
    BY <1>5 DEF DeleteCommit, Restrict
  <2>2. n <= gc.oldest
    BY <1>1, <2>1 DEF Collected
  <2>3. n <= s
    BY <1>2, <1>3, <2>2
  <2>4. BucketTypes' /\ Bounds'
    BY <1>1, <2>1 DEF BucketTypes, Bounds
  <2>5. Originals'
    BY <1>1, <2>1 DEF Originals, Renumbered
  <2>6. Covered'
    BY <1>1, <1>2, <2>1, <2>3 DEF Covered, Renumbered
  <2>7. Collected' /\ Unpruned'
    BY <1>1, <1>2, <2>1 DEF BucketTypes, Collected, Unpruned
  <2>8. QED
    BY <2>4, <2>5, <2>6, <2>7
<1>6. QED
  BY <1>4, <1>5

(* Every step preserves the invariant of the bucket.                         *)
LEMMA BucketStep ==
  ASSUME BucketInv, [Next]_vars
  PROVE  BucketInv'
<1>1. ASSUME NEW w \in Writer, AppendCommit(w) \/ RestartWriter(w) PROVE BucketInv'
  BY <1>1, BucketAppend, BucketRestart
<1>2. ASSUME NEW c \in Client,
             \/ UpdateStep(c) \/ Initialize(c) \/ RebuildFromScratch(c)
             \/ Fail(c) \/ Interrupt(c)
      PROVE  BucketInv'
  <2>1. UNCHANGED <<bucket, builder, gc>>
    BY <1>2 DEF UpdateStep, BeginUpdate, FindLatestSnapshot, PollNothing, PollNew,
                FetchSnapshot, MissSnapshot, ReplayCommit, Swap, Vanished,
                Initialize, RebuildFromScratch, Fail, Interrupt
  <2>2. QED
    BY <2>1, BucketUnchanged
<1>3. CASE BuildStart \/ BuildCommit \/ BuildPut \/ BuildFails
  BY <1>3, BucketBuild, BucketPut
<1>4. CASE ListSnapshots \/ ListVictims \/ ListCommits \/ GCEnds
  BY <1>4, BucketList
<1>5. ASSUME NEW n \in Number, DeleteSnapshot(n) \/ DeleteCommit(n) PROVE BucketInv'
  BY <1>5, BucketDelete
<1>6. CASE UNCHANGED vars
  BY <1>6, BucketUnchanged DEF vars
<1>7. QED
  BY <1>1, <1>2, <1>3, <1>4, <1>5, <1>6 DEF Next

-----------------------------------------------------------------------------
(* Clients.                                                                  *)

(* The invariant of the clients holds before they do anything.               *)
LEMMA ClientInit == Init => ClientInv
<1> SUFFICES ASSUME Init PROVE ClientInv
  OBVIOUS
<1>1. /\ db = [c \in Client |-> NoFile] /\ new = [c \in Client |-> NoFile]
      /\ job = [c \in Client |-> [pc |-> "idle", current |-> 0, base |-> 0,
                                  cursor |-> 0, rebuilding |-> FALSE]]
      /\ resumed = {} /\ upsets = 0
  BY DEF Init, NoJob
<1>2. ClientTypes
  BY <1>1, ProjectionAssumption DEF ClientTypes, JobRecord
<1>3. \A c \in Client : Sound(c) /\ Pure(c)
  BY <1>1 DEF Sound, Pure, Blank
<1>4. QED
  BY <1>2, <1>3 DEF ClientInv

(* Numbers that are unique after a step were unique before it.               *)
LEMMA RenumberedStays ==
  ASSUME BucketInv, [Next]_vars
  PROVE  ~Renumbered' => ~Renumbered
<1>1. CASE UNCHANGED acks
  BY <1>1 DEF Renumbered
<1>2. ASSUME NEW w \in Writer, AppendCommit(w) PROVE ~Renumbered' => ~Renumbered
  <2>1. acks' = Append(acks, FreeAfter(KnownTail(w))) /\ BucketTypes /\ BucketTypes'
    BY <1>2, BucketStep DEF AppendCommit, BucketInv
  <2>2. acks \in Seq(Number) /\ acks' \in Seq(Number)
    BY <2>1 DEF BucketTypes
  <2>3. /\ DOMAIN acks = 1..Len(acks) /\ DOMAIN acks' = 1..Len(acks) + 1
        /\ \A k \in 1..Len(acks) : acks'[k] = acks[k]
    BY <2>1, <2>2, LenProperties
  <2>4. QED
    BY <2>2, <2>3, LenProperties DEF Renumbered
<1>3. UNCHANGED acks \/ \E w \in Writer : AppendCommit(w)
  BY DEF Next, vars, bucket, RestartWriter, UpdateStep, BeginUpdate,
         FindLatestSnapshot, PollNothing, PollNew, FetchSnapshot, MissSnapshot,
         ReplayCommit, Swap, Vanished, Initialize, RebuildFromScratch, Fail,
         Interrupt, BuildStart, BuildCommit, BuildPut, BuildFails, ListSnapshots,
         ListVictims, ListCommits, GCEnds, DeleteSnapshot, DeleteCommit
<1>4. QED
  BY <1>1, <1>2, <1>3

(* The steps of writers and jobs leave the clients alone.                    *)
LEMMA ClientUnchanged ==
  ASSUME BucketInv, [Next]_vars, ClientInv, UNCHANGED client
  PROVE  ClientInv'
<1>1. UNCHANGED <<db, new, job, resumed, upsets>>
  BY DEF client
<1>2. ClientTypes'
  BY <1>1 DEF ClientInv, ClientTypes
<1>3. \A c \in Client : Sound(c)'
  BY <1>1 DEF ClientInv, Sound, Blank, CurrentSequence
<1>4. ~Renumbered' => \A c \in Client \ resumed' : Pure(c)'
  BY <1>1, RenumberedStays DEF ClientInv, Pure
<1>5. QED
  BY <1>2, <1>3, <1>4 DEF ClientInv

(* What a step of one client has to show: what it does to that client.       *)
LEMMA ClientStep ==
  ASSUME ClientInv, NEW c \in Client, UNCHANGED bucket, ClientTypes',
         \A d \in Client \ {c} : db'[d] = db[d] /\ new'[d] = new[d] /\ job'[d] = job[d],
         resumed \subseteq resumed',
         Sound(c)',
         ~Renumbered /\ c \notin resumed' => Pure(c)'
  PROVE  ClientInv'
<1>1. ASSUME NEW d \in Client, d /= c
      PROVE  Sound(d)' /\ (Pure(d) => Pure(d)')
  BY <1>1 DEF ClientInv, Sound, Pure, Blank, CurrentSequence
<1>2. ~Renumbered' => ~Renumbered
  BY DEF Renumbered, bucket
<1>3. QED
  BY <1>1, <1>2 DEF ClientInv

(* What is known of one client before a step of it.                          *)
LEMMA ClientFacts ==
  ASSUME ClientInv, NEW c \in Client
  PROVE  /\ db[c] \in File \cup {NoFile} /\ new[c] \in File \cup {NoFile}
         /\ job[c] \in JobRecord /\ Sound(c)
         /\ ~Renumbered /\ c \notin resumed => Pure(c)
         /\ job[c].pc = "replay" => new[c] /= NoFile
         /\ CurrentSequence(c) \in 0..MaxCommits
         /\ NoJob \in JobRecord /\ NoJob.pc = "idle"
         /\ Blank(NoFile) /\ Blank(Empty) /\ Empty \in File
         /\ MaxCommits \in Nat /\ MaxUpsets \in Nat
  BY ProjectionAssumption, EmptyIsFold
     DEF ClientInv, ClientTypes, JobRecord, CurrentSequence, File, NoJob, Blank

(* The steps of one client, one lemma each.                                  *)
LEMMA ClientInitialize ==
  ASSUME ClientInv, NEW c \in Client, Initialize(c)
  PROVE  ClientInv'
<1>1. /\ db' = [db EXCEPT ![c] = Empty]
      /\ UNCHANGED <<bucket, new, job, resumed, upsets>> /\ db[c] = NoFile
  BY DEF Initialize
<1>2. /\ ClientTypes'
      /\ db'[c] = Empty
      /\ \A d \in Client \ {c} : db'[d] = db[d] /\ new'[d] = new[d] /\ job'[d] = job[d]
  BY <1>1, ClientFacts DEF ClientInv, ClientTypes
<1>3. Sound(c) /\ Blank(Empty) /\ Empty.rows = <<>> /\ Empty.last = 0 /\ Empty /= NoFile
  BY ClientFacts, ProjectionAssumption DEF ClientInv, Empty
<1>4. CurrentSequence(c) = 0 /\ CurrentSequence(c)' = 0
  BY <1>1, <1>2, <1>3 DEF CurrentSequence
<1>5. Sound(c)'
  <2>1. job[c].pc = "replay" => Extends(Empty, new[c])
    <3>1. ASSUME job[c].pc = "replay" PROVE Len(new[c].rows) \in Nat
      BY <3>1, LenProperties DEF ClientInv, ClientTypes, File
    <3>2. QED
      BY <1>3, <3>1, LenProperties DEF Extends
  <2>2. QED
    BY <1>1, <1>2, <1>3, <1>4, <2>1 DEF Sound
<1>6. Pure(c) => Pure(c)'
  BY <1>1, <1>2, EmptyIsFold DEF Pure
<1>7. QED
  BY <1>1, <1>2, <1>5, <1>6, ClientStep DEF ClientInv

(* An update reads its client once.                                          *)
LEMMA ClientBegin ==
  ASSUME ClientInv, NEW c \in Client, BeginUpdate(c)
  PROVE  ClientInv'
<1> DEFINE current == CurrentSequence(c)
           j == [NoJob EXCEPT !.pc = IF current = 0 THEN "list" ELSE "poll",
                              !.current = current]
<1>1. /\ job' = [job EXCEPT ![c] = j]
      /\ UNCHANGED <<bucket, db, new, resumed, upsets>>
  BY DEF BeginUpdate, NeedsBase
<1>2. current \in 0..MaxCommits /\ 0 \in 0..MaxCommits
  BY ClientFacts
<1> HIDE DEF current
<1>3. /\ j.pc \in {"list", "poll"} /\ j.current = current
      /\ j.pc = "list" => current = 0
      /\ j \in JobRecord
  BY <1>2 DEF NoJob, JobRecord
<1> HIDE DEF j
<1>4. /\ ClientTypes' /\ job'[c] = j
      /\ \A d \in Client \ {c} : db'[d] = db[d] /\ new'[d] = new[d] /\ job'[d] = job[d]
  BY <1>1, <1>3 DEF ClientInv, ClientTypes
<1>5. Sound(c)'
  BY <1>1, <1>3, <1>4, ClientFacts DEF Sound, CurrentSequence, current
<1>6. ~Renumbered /\ c \notin resumed' => Pure(c)'
  BY <1>1, <1>3, <1>4, ClientFacts DEF Pure
<1>7. QED
  BY <1>1, <1>4, <1>5, <1>6, ClientStep

(* A rebuild starts from nothing.                                            *)
LEMMA ClientRebuild ==
  ASSUME ClientInv, NEW c \in Client, RebuildFromScratch(c)
  PROVE  ClientInv'
<1> DEFINE j == [NoJob EXCEPT !.pc = "list", !.rebuilding = TRUE]
<1>1. /\ job' = [job EXCEPT ![c] = j] /\ db' = [db EXCEPT ![c] = NoFile]
      /\ UNCHANGED <<bucket, new, resumed>>
      /\ upsets' = upsets + 1 /\ upsets < MaxUpsets
  BY DEF RebuildFromScratch
<1>2. j.pc = "list" /\ j.current = 0 /\ j \in JobRecord
  BY ClientFacts DEF NoJob, JobRecord
<1> HIDE DEF j
<1>3. /\ ClientTypes' /\ job'[c] = j /\ db'[c] = NoFile
      /\ \A d \in Client \ {c} : db'[d] = db[d] /\ new'[d] = new[d] /\ job'[d] = job[d]
  BY <1>1, <1>2, ClientFacts DEF ClientInv, ClientTypes
<1>4. Sound(c)' /\ Pure(c)'
  BY <1>1, <1>2, <1>3, ClientFacts DEF Sound, Pure, CurrentSequence
<1>5. QED
  BY <1>1, <1>3, <1>4, ClientStep

(* The base of an update is a snapshot, or 0.                                *)
LEMMA ClientFind ==
  ASSUME BucketInv, ClientInv, NEW c \in Client, FindLatestSnapshot(c)
  PROVE  ClientInv'
<1> DEFINE base == Latest(DOMAIN snapshots)
           j == [job[c] EXCEPT !.base = base, !.pc = IF base = 0 THEN "poll" ELSE "fetch"]
<1>1. /\ job' = [job EXCEPT ![c].base = base, ![c].pc = IF base = 0 THEN "poll" ELSE "fetch"]
      /\ UNCHANGED <<bucket, db, new, resumed, upsets>> /\ job[c].pc = "list"
  BY DEF FindLatestSnapshot
<1>2. job' = [job EXCEPT ![c] = j]
  BY <1>1
<1>3. base \in 0..MaxCommits
  <2>1. Len(acks) \in Nat /\ Len(acks) <= MaxCommits
    BY LenProperties DEF BucketInv, BucketTypes, Bounds
  <2>2. \A n \in DOMAIN snapshots : n \in 1..Len(acks)
    BY DEF BucketInv, Bounds
  <2>3. base \in 0..Len(acks)
    BY <2>1, <2>2, LatestProperties
  <2>4. QED
    BY <2>1, <2>3, ClientFacts
<1> HIDE DEF base
<1>4. j \in JobRecord /\ j.pc \in {"poll", "fetch"} /\ j.current = job[c].current
  BY <1>3, ClientFacts DEF JobRecord
<1> HIDE DEF j
<1>5. /\ ClientTypes' /\ job'[c] = j
      /\ \A d \in Client \ {c} : db'[d] = db[d] /\ new'[d] = new[d] /\ job'[d] = job[d]
  BY <1>1, <1>2, <1>4 DEF ClientInv, ClientTypes
<1>6. Sound(c)'
  BY <1>1, <1>4, <1>5, ClientFacts DEF Sound, CurrentSequence
<1>7. ~Renumbered /\ c \notin resumed' => Pure(c)'
  BY <1>1, <1>4, <1>5, ClientFacts DEF Pure
<1>8. QED
  BY <1>1, <1>5, <1>6, <1>7, ClientStep

(* The end of a job, with the files it leaves.                               *)
LEMMA ClientEnds ==
  ASSUME ClientInv, NEW c \in Client, UNCHANGED <<bucket, resumed>>,
         NEW f \in File \cup {NoFile}, db' = [db EXCEPT ![c] = f],
         NEW g \in File \cup {NoFile}, new' = [new EXCEPT ![c] = g],
         job' = [job EXCEPT ![c] = NoJob], upsets' \in 0..MaxUpsets,
         Blank(f), Blank(g),
         ~Renumbered /\ c \notin resumed => (f /= NoFile => IsFold(f))
  PROVE  ClientInv'
<1>1. NoJob \in JobRecord /\ NoJob.pc = "idle" /\ resumed' \subseteq Client
  BY ClientFacts DEF ClientInv, ClientTypes
<1>2. /\ ClientTypes'
      /\ db'[c] = f /\ new'[c] = g /\ job'[c] = NoJob
      /\ \A d \in Client \ {c} : db'[d] = db[d] /\ new'[d] = new[d] /\ job'[d] = job[d]
  BY <1>1 DEF ClientInv, ClientTypes
<1>3. Sound(c)'
  BY <1>1, <1>2 DEF Sound
<1>4. ~Renumbered /\ c \notin resumed' => Pure(c)'
  BY <1>1, <1>2 DEF Pure
<1>5. QED
  BY <1>2, <1>3, <1>4, ClientStep

(* Every end of a job leaves each file as it was, or removes it, or puts the *)
(* .new file in the place of the projection, or an empty one.                *)
LEMMA ClientStops ==
  ASSUME ClientInv, NEW c \in Client,
         \/ PollNothing(c) \/ MissSnapshot(c) \/ Swap(c) \/ Vanished(c)
         \/ Fail(c) \/ Interrupt(c)
  PROVE  ClientInv'
<1>1. PICK f \in {db[c], new[c], Empty}, g \in {new[c], NoFile} :
        /\ db' = [db EXCEPT ![c] = f] /\ new' = [new EXCEPT ![c] = g]
        /\ f = new[c] => f = db[c] \/ f = Empty \/ job[c].pc = "replay"
  <2>1. db \in [Client -> File \cup {NoFile}] /\ new \in [Client -> File \cup {NoFile}]
    BY DEF ClientInv, ClientTypes
  <2>2. CASE PollNothing(c)
    BY <2>1, <2>2 DEF PollNothing, NotUpdated
  <2>3. CASE MissSnapshot(c)
    BY <2>1, <2>3 DEF MissSnapshot
  <2>4. CASE Swap(c)
    BY <2>1, <2>4 DEF Swap, AtTail
  <2>5. CASE Vanished(c)
    BY <2>1, <2>5 DEF Vanished, NotUpdated
  <2>6. CASE Fail(c)
    BY <2>1, <2>6 DEF Fail
  <2>7. CASE Interrupt(c)
    BY <2>1, <2>7 DEF Interrupt
  <2>8. QED
    BY <2>2, <2>3, <2>4, <2>5, <2>6, <2>7
<1>2. /\ job' = [job EXCEPT ![c] = NoJob] /\ UNCHANGED <<bucket, resumed>>
      /\ upsets' = upsets \/ (upsets < MaxUpsets /\ upsets' = upsets + 1)
  BY DEF PollNothing, MissSnapshot, Swap, Vanished, NotUpdated, Fail, Interrupt
<1>3. upsets' \in 0..MaxUpsets
  BY <1>2, ProjectionAssumption DEF ClientInv, ClientTypes
<1>4. /\ f \in File \cup {NoFile} /\ g \in File \cup {NoFile} /\ Blank(f) /\ Blank(g)
  BY <1>1, ClientFacts DEF Sound
<1>5. ~Renumbered /\ c \notin resumed => (f /= NoFile => IsFold(f))
  BY <1>1, ClientFacts, EmptyIsFold DEF Pure
<1>6. QED
  BY <1>1, <1>2, <1>3, <1>4, <1>5, ClientEnds

(* A file extends itself.                                                    *)
LEMMA ExtendsItself ==
  ASSUME NEW file \in File
  PROVE  Extends(file, file)
  BY LenProperties DEF Extends, File

(* Anything extends an empty file.                                           *)
LEMMA ExtendsEmpty ==
  ASSUME NEW file, file.rows = <<>>, NEW longer \in File
  PROVE  Extends(file, longer)
  BY LenProperties, EmptySeq DEF Extends, File

(* What extends a file still does with one more commit.                      *)
LEMMA ExtendsApplied ==
  ASSUME BucketTypes, Bounds, NEW file \in File, NEW longer \in File, NEW n \in DOMAIN log,
         Extends(file, longer)
  PROVE  Extends(file, Applied(longer, n))
<1>1. longer.rows \in Seq(Number) /\ log[n] \in Number
  BY DEF BucketTypes, File
<1>2. /\ Len(Append(longer.rows, log[n])) = Len(longer.rows) + 1
      /\ \A k \in 1..Len(longer.rows) : Append(longer.rows, log[n])[k] = longer.rows[k]
      /\ Len(longer.rows) \in Nat /\ Len(file.rows) \in Nat
  BY <1>1, AppendProperties, LenProperties DEF File
<1>3. QED
  BY <1>2 DEF Extends, Applied

(* The .new file of an update without a snapshot starts as the projection.   *)
LEMMA ClientPollNew ==
  ASSUME ClientInv, NEW c \in Client, PollNew(c)
  PROVE  ClientInv'
<1> DEFINE f == PreparedDb(c)
           j == [job[c] EXCEPT !.pc = "replay", !.cursor = job[c].current]
<1>1. /\ new' = [new EXCEPT ![c] = f]
      /\ job' = [job EXCEPT ![c].pc = "replay", ![c].cursor = job[c].current]
      /\ resumed' = IF db[c] = NoFile /\ new[c] \notin {NoFile, Empty}
                      THEN resumed \cup {c} ELSE resumed
      /\ UNCHANGED <<bucket, db, upsets>> /\ job[c].pc = "poll"
  BY DEF PollNew
<1>2. job' = [job EXCEPT ![c] = j]
  BY <1>1
<1>3. j \in JobRecord /\ j.pc = "replay" /\ j.current = job[c].current /\ j.cursor = j.current
  BY ClientFacts DEF JobRecord
<1>4. /\ f \in File /\ Blank(f)
      /\ db[c] /= NoFile => f = db[c]
      /\ db[c] = NoFile /\ c \notin resumed' => f = Empty
  BY <1>1, ClientFacts DEF PreparedDb, Sound
<1>5. f /= NoFile
  BY <1>4, ProjectionAssumption
<1> HIDE DEF f, j
<1>6. /\ ClientTypes' /\ job'[c] = j /\ new'[c] = f
      /\ \A d \in Client \ {c} : db'[d] = db[d] /\ new'[d] = new[d] /\ job'[d] = job[d]
  BY <1>1, <1>2, <1>3, <1>4, <1>5 DEF ClientInv, ClientTypes
<1>7. Sound(c)'
  <2>1. db[c] /= NoFile => Extends(db[c], f)
    BY <1>4, ExtendsItself
  <2>2. QED
    BY <1>1, <1>3, <1>4, <1>6, <2>1, ClientFacts DEF Sound, CurrentSequence
<1>8. ~Renumbered /\ c \notin resumed' => Pure(c)'
  <2> SUFFICES ASSUME ~Renumbered, c \notin resumed' PROVE Pure(c)'
    OBVIOUS
  <2>1. Pure(c) /\ Sound(c)
    BY <1>1, ClientFacts
  <2>2. IsFold(f) /\ f.last = j.cursor
    BY <1>1, <1>3, <1>4, <2>1, EmptyIsFold DEF Pure, Sound, CurrentSequence
  <2>3. QED
    BY <1>1, <1>3, <1>6, <2>1, <2>2 DEF Pure
<1>9. QED
  BY <1>1, <1>6, <1>7, <1>8, ClientStep

(* A bootstrap starts from what a snapshot holds.                            *)
LEMMA ClientFetch ==
  ASSUME BucketInv, ClientInv, NEW c \in Client, FetchSnapshot(c)
  PROVE  ClientInv'
<1> DEFINE base == job[c].base
           f == snapshots[base]
           j == [job[c] EXCEPT !.pc = "replay", !.cursor = base]
<1>1. /\ base \in DOMAIN snapshots /\ new' = [new EXCEPT ![c] = f]
      /\ job' = [job EXCEPT ![c].pc = "replay", ![c].cursor = base]
      /\ UNCHANGED <<bucket, db, resumed, upsets>> /\ job[c].pc = "fetch"
  BY DEF FetchSnapshot, AfterSnapshot
<1>2. job' = [job EXCEPT ![c] = j]
  BY <1>1
<1>3. j \in JobRecord /\ j.pc = "replay" /\ j.current = job[c].current /\ j.cursor = base
  BY ClientFacts DEF JobRecord
<1>4. /\ f \in File /\ f.last = base /\ base /= 0
      /\ ~Renumbered => IsFold(f)
  BY <1>1, LenProperties DEF BucketInv, BucketTypes, Bounds, Originals
<1>5. f /= NoFile /\ Blank(f)
  BY <1>4, ProjectionAssumption DEF Blank
<1> HIDE DEF f, j, base
<1>6. /\ ClientTypes' /\ job'[c] = j /\ new'[c] = f
      /\ \A d \in Client \ {c} : db'[d] = db[d] /\ new'[d] = new[d] /\ job'[d] = job[d]
  BY <1>1, <1>2, <1>3, <1>4, <1>5 DEF ClientInv, ClientTypes
<1>7. Sound(c)'
  <2>1. Sound(c) /\ job[c].current = 0
    BY <1>1, ClientFacts DEF Sound
  <2>2. db[c] /= NoFile => db[c].rows = <<>>
    BY <1>1, <2>1 DEF Sound, CurrentSequence, Blank
  <2>3. db[c] /= NoFile => Extends(db[c], f)
    BY <1>4, <2>2, ExtendsEmpty
  <2>4. QED
    BY <1>1, <1>3, <1>5, <1>6, <2>1, <2>3 DEF Sound, CurrentSequence
<1>8. ~Renumbered /\ c \notin resumed => Pure(c)'
  BY <1>1, <1>3, <1>4, <1>6, ClientFacts DEF Pure
<1>9. QED
  BY <1>1, <1>6, <1>7, <1>8, ClientStep

(* A replay adds one commit to the .new file, the next one.                  *)
LEMMA ClientReplay ==
  ASSUME BucketInv, ClientInv, NEW c \in Client, ReplayCommit(c)
  PROVE  ClientInv'
<1> DEFINE n == job[c].cursor + 1
           f == Applied(new[c], n)
           j == [job[c] EXCEPT !.cursor = n]
<1>1. /\ n \in DOMAIN log /\ new' = [new EXCEPT ![c] = f]
      /\ job' = [job EXCEPT ![c] = j]
      /\ UNCHANGED <<bucket, db, resumed, upsets>> /\ job[c].pc = "replay"
  BY DEF ReplayCommit, ClientInv, ClientTypes
<1>2. BucketTypes /\ Bounds /\ Originals
  BY DEF BucketInv
<1>3. new[c] \in File
  BY <1>1, ClientFacts
<1>4. n \in 1..Len(acks) /\ Len(acks) \in Nat /\ n \in 0..MaxCommits
  BY <1>1, <1>2, LenProperties, ProjectionAssumption DEF Bounds, BucketTypes
<1>5. /\ j \in JobRecord /\ j.pc = "replay" /\ j.current = job[c].current
      /\ j.cursor = n
  BY <1>1, <1>4, ClientFacts DEF JobRecord
<1>6. job[c].cursor + 1 = n
  OBVIOUS
<1> HIDE DEF n
<1>7. f \in File /\ f.last = n
  BY <1>1, <1>2, <1>3, AppliedIsFile
<1>8. f /= NoFile /\ Blank(f)
  BY <1>4, <1>7, ProjectionAssumption DEF Blank
<1>9. db[c] /= NoFile => Extends(db[c], f)
  BY <1>1, <1>2, <1>3, ClientFacts, ExtendsApplied DEF Sound
<1>10. ~Renumbered /\ c \notin resumed => IsFold(f)
  <2> SUFFICES ASSUME ~Renumbered, c \notin resumed PROVE IsFold(f)
    OBVIOUS
  <2>1. IsFold(new[c]) /\ new[c].last + 1 = n
    BY <1>1, <1>6, ClientFacts DEF Pure
  <2>2. f = [rows |-> Append(new[c].rows, n), last |-> n]
    BY <1>1, <1>2 DEF Originals, Applied
  <2>3. QED
    BY <1>3, <1>4, <2>1, <2>2, AppendFold
<1> HIDE DEF f, j
<1>11. /\ ClientTypes' /\ job'[c] = j /\ new'[c] = f
       /\ \A d \in Client \ {c} : db'[d] = db[d] /\ new'[d] = new[d] /\ job'[d] = job[d]
  BY <1>1, <1>5, <1>7, <1>8 DEF ClientInv, ClientTypes
<1>12. Sound(c)'
  BY <1>1, <1>5, <1>8, <1>9, <1>11, ClientFacts DEF Sound, CurrentSequence
<1>13. ~Renumbered /\ c \notin resumed => Pure(c)'
  BY <1>1, <1>5, <1>7, <1>10, <1>11, ClientFacts DEF Pure
<1>14. QED
  BY <1>1, <1>11, <1>12, <1>13, ClientStep

(* Every step preserves the invariant of the clients.                        *)
LEMMA ClientsStep ==
  ASSUME BucketInv, ClientInv, [Next]_vars
  PROVE  ClientInv'
<1>1. ASSUME NEW c \in Client, UpdateStep(c) PROVE ClientInv'
  BY <1>1, ClientBegin, ClientFind, ClientStops, ClientPollNew, ClientFetch, ClientReplay
     DEF UpdateStep
<1>2. ASSUME NEW c \in Client,
             Initialize(c) \/ RebuildFromScratch(c) \/ Fail(c) \/ Interrupt(c)
      PROVE  ClientInv'
  BY <1>2, ClientInitialize, ClientRebuild, ClientStops
<1>3. CASE UNCHANGED client
  BY <1>3, ClientUnchanged
<1>4. \/ UNCHANGED client
      \/ \E c \in Client :
           UpdateStep(c) \/ Initialize(c) \/ RebuildFromScratch(c) \/ Fail(c) \/ Interrupt(c)
  BY DEF Next, vars, AppendCommit, RestartWriter, BuildStart, BuildCommit, BuildPut,
         BuildFails, ListSnapshots, ListVictims, ListCommits, GCEnds, DeleteSnapshot, DeleteCommit
<1>5. QED
  BY <1>1, <1>2, <1>3, <1>4

(* The invariant holds in every reachable state.                             *)
LEMMA Invariance == Spec => []Inv
<1>1. Init => Inv
  BY BucketInit, ClientInit DEF Inv
<1>2. Inv /\ [Next]_vars => Inv'
  BY BucketStep, ClientsStep DEF Inv
<1>3. QED
  BY <1>1, <1>2, PTL DEF Spec

-----------------------------------------------------------------------------
(* What follows from the invariant.                                          *)

(* Every variable has its type, and a replay has a file to write to.         *)
THEOREM TypeCorrect == Spec => []TypeOK
<1>1. Inv => TypeOK
  <2> SUFFICES ASSUME Inv PROVE TypeOK
    OBVIOUS
  <2>1. BucketTypes /\ Bounds /\ ClientTypes
    BY DEF Inv, BucketInv, ClientInv
  <2>2. Len(acks) \in Nat /\ Len(acks) <= MaxCommits /\ MaxCommits \in Nat
    BY <2>1, LenProperties, ProjectionAssumption DEF BucketTypes, Bounds
  <2>3. DOMAIN log \subseteq Number /\ DOMAIN snapshots \subseteq Number
    BY <2>1, <2>2 DEF Bounds, Number
  <2>4. IsFiniteSet(DOMAIN log)
    <3>1. IsFiniteSet(1..MaxCommits)
      BY <2>2, FS_Interval
    <3>2. QED
      BY <2>3, <3>1, FS_Subset DEF Number
  <2>5. Range(log) \subseteq Number /\ Range(snapshots) \subseteq File
    BY <2>1 DEF BucketTypes, Range
  <2>6. QED
    BY <2>1, <2>3, <2>4, <2>5 DEF BucketTypes, ClientTypes, JobRecord, TypeOK
<1>2. QED
  BY <1>1, Invariance, PTL

(* Every snapshot and every projection that was not built on the .new file   *)
(* of an interrupted update holds the commits 1 to its last, each once and   *)
(* in order, whatever was copied, bootstrapped, pruned or interrupted, until *)
(* a number is used twice (replay.py, projector.py, jobs/snapshot.py).       *)
THEOREM FilesAreFolds == Spec => []EveryFileIsAFold
<1>1. Inv => EveryFileIsAFold
  BY DEF Inv, BucketInv, Bounds, Originals, ClientInv, Pure, EveryFileIsAFold
<1>2. QED
  BY <1>1, Invariance, PTL

(* What a bootstrap finds if every commit is stored or covered.              *)
LEMMA BootstrapIsComplete ==
  ASSUME BucketInv, ~Renumbered
  PROVE  NothingLost
<1> DEFINE base == Latest(DOMAIN snapshots)
           rows == IF base = 0 THEN <<>> ELSE snapshots[base].rows
           count == FreeAfter(base) - 1 - base
           rest == [i \in 1..count |-> log[base + i]]
<1>1. /\ BucketTypes /\ Bounds /\ Originals /\ Covered
      /\ Len(acks) \in Nat /\ DOMAIN acks = 1..Len(acks)
  BY LenProperties DEF BucketInv, BucketTypes
<1>2. /\ base \in 0..Len(acks) /\ \A s \in DOMAIN snapshots : s <= base
      /\ base /= 0 => base \in DOMAIN snapshots
  <2>1. \A s \in DOMAIN snapshots : s \in 1..Len(acks)
    BY <1>1 DEF Bounds
  <2>2. QED
    BY <1>1, <2>1, LatestProperties DEF Latest
<1> HIDE DEF base
<1>3. Bootstrap = rows \o rest
  BY DEF Bootstrap, base
<1>4. \A n \in base + 1..Len(acks) : n \in DOMAIN log /\ log[n] = n
  BY <1>1, <1>2 DEF Covered, Originals, Bounds
<1>5. FreeAfter(base) = Len(acks) + 1
  <2>1. FreeAfter(base) \in base + 1..Len(acks) + 1 /\ FreeAfter(base) \notin DOMAIN log
    BY <1>1, <1>2, FreeAfterProperties
  <2>2. QED
    BY <1>1, <1>2, <1>4, <2>1
<1>6. rows = [k \in 1..base |-> k]
  <2>1. CASE base = 0
    BY <2>1
  <2>2. CASE base /= 0
    BY <1>1, <1>2, <2>2 DEF Bounds, Originals, IsFold
  <2>3. QED
    BY <2>1, <2>2
<1>7. rest = [i \in 1..Len(acks) - base |-> base + i]
  BY <1>1, <1>2, <1>4, <1>5
<1> HIDE DEF rows, rest
<1>8. rows \in Seq(Nat) /\ rest \in Seq(Nat) /\ Len(rows) = base /\ Len(rest) = Len(acks) - base
  BY <1>1, <1>2, <1>6, <1>7
<1>9. rows \o rest = [k \in 1..Len(acks) |-> k]
  BY <1>1, <1>2, <1>6, <1>7, <1>8
<1>10. QED
  BY <1>1, <1>3, <1>9 DEF NothingLost

(* Until a number is used twice, the bucket alone gives a new client every   *)
(* acknowledged commit, once and in order, at every step of builds and       *)
(* collections, however they overlap (jobs/gc.py, jobs/snapshot.py).         *)
THEOREM BucketIsRecoverable == Spec => []Recoverable
<1>1. Inv => Recoverable
  BY BootstrapIsComplete DEF Inv, Recoverable
<1>2. QED
  BY <1>1, Invariance, PTL

(* With prune_log off no number is ever used twice, restarts or not, so that *)
(* nothing is ever lost.                                                     *)
THEOREM UnprunedLosesNothing == ASSUME ~PruneLog PROVE Spec => []NothingLost
<1>1. Inv => NothingLost
  <2> SUFFICES ASSUME Inv PROVE NothingLost
    OBVIOUS
  <2>1. BucketInv /\ \A n \in 1..Len(acks) : acks[n] = n
    BY DEF Inv, BucketInv, Unpruned
  <2>2. DOMAIN acks = 1..Len(acks)
    BY <2>1, LenProperties DEF BucketInv, BucketTypes
  <2>3. ~Renumbered
    BY <2>1, <2>2 DEF Renumbered
  <2>4. QED
    BY <2>1, <2>3, BootstrapIsComplete
<1>2. QED
  BY <1>1, Invariance, PTL

(* A projection is only ever replaced by an extension of it, also when the   *)
(* log is pruned under the update (projector.py 113-157).                    *)
THEOREM ProjectionsOnlyGrow == Spec => OnlyForward
<1> DEFINE Grows ==
             \A c \in Client :
               db[c] /= NoFile /\ db'[c] /= NoFile =>
                 /\ Len(db[c].rows) <= Len(db'[c].rows)
                 /\ SubSeq(db'[c].rows, 1, Len(db[c].rows)) = db[c].rows
<1>1. ASSUME NEW file \in File, NEW longer \in File, Extends(file, longer)
      PROVE  /\ Len(file.rows) <= Len(longer.rows)
             /\ SubSeq(longer.rows, 1, Len(file.rows)) = file.rows
  <2>1. file.rows \in Seq(Number) /\ longer.rows \in Seq(Number)
    BY DEF File
  <2>2. Len(file.rows) \in Nat /\ Len(longer.rows) \in Nat
    BY <2>1, LenProperties
  <2>3. QED
    BY <1>1, <2>1, <2>2 DEF Extends
<1>2. ASSUME Inv, Inv', [Next]_vars, NEW c \in Client, db[c] /= NoFile, db'[c] /= NoFile
      PROVE  Extends(db[c], db'[c])
  <2>1. /\ ClientInv /\ ClientInv' /\ ClientTypes
        /\ db[c] \in File /\ db'[c] \in File
    BY <1>2 DEF Inv, ClientInv, ClientTypes
  <2>2. \/ db'[c] = db[c]
        \/ Swap(c)
    <3>1. ASSUME NEW d \in Client, UpdateStep(d) PROVE db'[c] = db[c] \/ Swap(c)
      <4>1. db'[c] = db[c] \/ Swap(d)
        <5>1. UNCHANGED db \/ PollNothing(d) \/ PollNew(d) \/ Swap(d) \/ Vanished(d)
          BY <3>1 DEF UpdateStep, BeginUpdate, FindLatestSnapshot, FetchSnapshot, MissSnapshot,
                      ReplayCommit
        <5>2. NotUpdated(d) => db'[c] = db[c]
          BY <1>2, <2>1 DEF NotUpdated, ClientTypes
        <5>3. PollNothing(d) \/ PollNew(d) \/ Vanished(d) => db'[c] = db[c]
          BY <5>2 DEF PollNothing, PollNew, Vanished
        <5>4. QED
          BY <5>1, <5>3
      <4>2. d # c /\ Swap(d) => db'[c] = db[c]
        BY <2>1 DEF Swap, ClientTypes
      <4>3. QED
        BY <4>1, <4>2
    <3>2. ASSUME NEW d \in Client, Initialize(d) \/ RebuildFromScratch(d) \/ Fail(d) \/ Interrupt(d)
          PROVE  db'[c] = db[c]
      BY <1>2, <2>1, <3>2 DEF Initialize, RebuildFromScratch, Fail, Interrupt, ClientTypes
    <3>3. ASSUME NEW w \in Writer, AppendCommit(w) \/ RestartWriter(w) PROVE UNCHANGED db
      BY <3>3 DEF AppendCommit, RestartWriter, client
    <3>4. CASE BuildStart \/ BuildCommit \/ BuildPut \/ BuildFails
      BY <3>4 DEF BuildStart, BuildCommit, BuildPut, BuildFails, client
    <3>5. CASE ListSnapshots \/ ListVictims \/ ListCommits \/ GCEnds
      BY <3>5 DEF ListSnapshots, ListVictims, ListCommits, GCEnds, client
    <3>6. ASSUME NEW n \in Number, DeleteSnapshot(n) \/ DeleteCommit(n) PROVE UNCHANGED db
      BY <3>6 DEF DeleteSnapshot, DeleteCommit, client
    <3>7. CASE UNCHANGED vars
      BY <3>7 DEF vars, client
    <3>8. QED
      BY <1>2, <3>1, <3>2, <3>3, <3>4, <3>5, <3>6, <3>7 DEF Next
  <2>3. CASE db'[c] = db[c]
    BY <2>1, <2>3, ExtendsItself
  <2>4. CASE Swap(c)
    BY <1>2, <2>1, <2>4 DEF Swap, AtTail, ClientInv, ClientTypes, Sound
  <2>5. QED
    BY <2>2, <2>3, <2>4
<1>3. Inv /\ Inv' /\ [Next]_vars => [Grows]_vars
  <2> SUFFICES ASSUME Inv, Inv', [Next]_vars, NEW c \in Client,
                      db[c] /= NoFile, db'[c] /= NoFile
               PROVE  /\ Len(db[c].rows) <= Len(db'[c].rows)
                      /\ SubSeq(db'[c].rows, 1, Len(db[c].rows)) = db[c].rows
    OBVIOUS
  <2>1. db[c] \in File /\ db'[c] \in File
    BY DEF Inv, ClientInv, ClientTypes
  <2>2. QED
    BY <1>1, <1>2, <2>1
<1>4. Spec => [][Grows]_vars
  BY <1>3, Invariance, PTL DEF Spec
<1>5. QED
  BY <1>4 DEF OnlyForward
=============================================================================
