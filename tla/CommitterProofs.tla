--------------------------- MODULE CommitterProofs ---------------------------
(* What holds of the commit protocol for any number of Committers, events,   *)
(* calls and attempts, and under every fault of Committer at once.           *)
EXTENDS Committer, SequenceTheorems, FiniteSetTheorems, TLAPS

(* The smaller of two lengths. *)
LEMMA MinOfTwo ==
  ASSUME NEW m \in Nat, NEW n \in Nat
  PROVE  /\ Min({m, n}) \in {m, n}
         /\ Min({m, n}) <= m /\ Min({m, n}) <= n
  BY DEF Min

(* Taking a batch off the queue leaves two sequences of events.              *)
LEMMA BatchTypes ==
  ASSUME NEW q \in Seq(Event)
  PROVE  BatchOf(q) \in Seq(Event) /\ Rest(q) \in Seq(Event)
<1>1. Len(q) \in Nat /\ MaxEvents \in Nat
  BY LenProperties, ConfigAssumption
<1>2. Min({Len(q), MaxEvents}) \in Nat /\ Min({Len(q), MaxEvents}) <= Len(q)
  BY <1>1, MinOfTwo
<1>3. \A i \in 1..Len(q) : q[i] \in Event
  BY ElementOfSeq
<1> DEFINE size == Min({Len(q), MaxEvents})
<1> HIDE DEF size
<1>4. size \in Nat /\ size <= Len(q)
  BY <1>2 DEF size
<1>5. /\ size \in Int /\ size + 1 \in Int /\ 1 \in Int /\ Len(q) \in Int
      /\ \A i \in 1..size : q[i] \in Event
      /\ \A i \in size + 1 .. Len(q) : q[i] \in Event
  BY <1>1, <1>3, <1>4
<1>6. SubSeq(q, 1, size) \in Seq(Event)
  BY <1>5, SubSeqProperties
<1>7. SubSeq(q, size + 1, Len(q)) \in Seq(Event)
  BY <1>5, SubSeqProperties
<1>8. QED
  BY <1>6, <1>7 DEF BatchOf, Rest, size

(* Whatever the hook keeps of a batch is a sequence of its events.           *)
LEMMA SelectionTypes ==
  ASSUME NEW events \in Seq(Event), NEW kept \in Selections(events)
  PROVE  kept \in Seq(Event) /\ Range(kept) \subseteq Range(events)
<1>1. PICK n \in 0..Len(events) :
        \E f \in {g \in [1..n -> DOMAIN events] :
                    \A i, j \in 1..n : i < j => g[i] < g[j]} :
          kept = [i \in 1..n |-> events[f[i]]]
  BY DEF Selections
<1>2. PICK f \in [1..n -> DOMAIN events] : kept = [i \in 1..n |-> events[f[i]]]
  BY <1>1
<1>3. n \in Nat
  BY LenProperties
<1>4. \A i \in 1..n : events[f[i]] \in Event /\ f[i] \in DOMAIN events
  BY <1>2, LenProperties, ElementOfSeq
<1>5. kept \in [1..n -> Event] /\ DOMAIN kept = 1..n
  BY <1>2, <1>4
<1>6. kept \in Seq(Event)
  BY <1>3, <1>5, SeqDef
<1>7. QED
  BY <1>2, <1>4, <1>5, <1>6 DEF Range

(* A put that takes effect stores a batch at a positive number. *)
LEMMA StoreTypes ==
  ASSUME TypeOK, NEW c \in Writer, number[c] >= 1, Store(number[c], work[c])
  PROVE  /\ DOMAIN log' \subseteq Nat \ {0} /\ IsFiniteSet(DOMAIN log')
         /\ \A n \in DOMAIN log' : log'[n] \in Seq(Event \cup {OldEvent})
<1>1. number[c] \in Nat \ {0}
  BY DEF TypeOK
<1>2. work[c] \in Seq(Event \cup {OldEvent})
  <2>1. work[c] \in Seq(Event)
    BY DEF TypeOK
  <2>2. QED
    BY <2>1, SeqMonotonic, Event \subseteq Event \cup {OldEvent}
<1>3. DOMAIN log' = DOMAIN log \cup {number[c]}
  BY DEF Store
<1>4. IsFiniteSet(DOMAIN log')
  <2>1. IsFiniteSet(DOMAIN log)
    BY DEF TypeOK
  <2>2. IsFiniteSet(DOMAIN log \cup {number[c]})
    BY <2>1, FS_AddElement
  <2>3. QED
    BY <1>3, <2>2
<1>5. QED
  BY <1>1, <1>2, <1>3, <1>4 DEF TypeOK, Store

(* The futures of a settled batch are in some state. *)
LEMMA SettleTypes ==
  ASSUME TypeOK, NEW E, NEW events, NEW outcome \in Status
  PROVE  Settle(E, events, outcome) \in [Event -> Status]
BY DEF TypeOK, Settle, Status

(* What the end of an attempt does to the variables of the flusher. *)
LEMMA EndBatchTypes ==
  ASSUME TypeOK, NEW c \in Writer, NEW outcomes \in [Event -> Status],
         EndBatch(c, outcomes)
  PROVE  /\ pc' \in [Writer -> Phase] /\ work' \in [Writer -> Seq(Event)]
         /\ attempt' \in [Writer -> 0..MaxAttempts] /\ number' \in [Writer -> Nat]
         /\ reply' \in [Writer -> Reply] /\ cursor' \in [Writer -> Nat]
         /\ status' \in [Event -> Status]
<1>1. <<>> \in Seq(Event) /\ 0 \in 0..MaxAttempts
  BY EmptySeq, ConfigAssumption
<1>2. QED
  BY <1>1 DEF TypeOK, EndBatch, ClearAttempt, Phase, Reply

LEMMA RetryTypes ==
  ASSUME TypeOK, NEW c \in Writer, NEW outcomes \in [Event -> Status],
         NEW kept \in Seq(Event), RetryOrGiveUp(c, kept, outcomes)
  PROVE  /\ pc' \in [Writer -> Phase] /\ work' \in [Writer -> Seq(Event)]
         /\ attempt' \in [Writer -> 0..MaxAttempts] /\ number' \in [Writer -> Nat]
         /\ reply' \in [Writer -> Reply] /\ cursor' \in [Writer -> Nat]
         /\ status' \in [Event -> Status]
<1>1. CASE LastAttempt(c)
  <2>1. GiveUp(kept, outcomes) \in [Event -> Status]
    BY DEF GiveUp, Status
  <2>2. EndBatch(c, GiveUp(kept, outcomes))
    BY <1>1 DEF RetryOrGiveUp
  <2>3. QED
    BY <2>1, <2>2, EndBatchTypes
<1>2. CASE ~LastAttempt(c)
  <2>1. attempt[c] + 1 \in 0..MaxAttempts
    BY <1>2, ConfigAssumption DEF LastAttempt, TypeOK
  <2>2. /\ attempt' = [attempt EXCEPT ![c] = @ + 1]
        /\ work' = [work EXCEPT ![c] = kept]
        /\ pc' = [pc EXCEPT ![c] = "number"]
        /\ status' = outcomes
        /\ ClearAttempt(c)
    BY <1>2 DEF RetryOrGiveUp
  <2>3. QED
    BY <2>1, <2>2 DEF ClearAttempt, TypeOK, Phase, Reply
<1>3. QED
  BY <1>1, <1>2

(* The same for the variables a put and its reply touch. *)
LEMMA AnswerTypes ==
  ASSUME TypeOK, NEW c \in Writer, NEW r \in Reply, Answer(c, r),
         DOMAIN log' \subseteq Nat \ {0}, IsFiniteSet(DOMAIN log'),
         \A n \in DOMAIN log' : log'[n] \in Seq(Event \cup {OldEvent})
  PROVE  TypeOK'
BY DEF TypeOK, Answer, futures, Phase, Reply

(* The calls on a Committer keep every variable in its range. *)
LEMMA CallTypes ==
  ASSUME TypeOK, KnownPrefix, NEW c \in Writer,
         \/ \E a \in Call : AppendMany(c, a) \/ RefuseAppend(c, a) \/ CancelAppend(a)
         \/ Close(c) \/ CancelClose(c) \/ Crash(c) \/ Straggle(c)
  PROVE  TypeOK'
<1>1. ASSUME NEW a \in Call, AppendMany(c, a) PROVE TypeOK'
  <2>1. EventsOf[a] \in Seq(Event)
    BY EventAssumption
  <2>2. pending[c] \o EventsOf[a] \in Seq(Event) /\ arrivals[c] \o EventsOf[a] \in Seq(Event)
    BY <2>1, ConcatProperties DEF TypeOK
  <2>3. QED
    BY <1>1, <2>2 DEF AppendMany, TypeOK, Phase, Status
<1>2. ASSUME NEW a \in Call, RefuseAppend(c, a) PROVE TypeOK'
  BY <1>2 DEF RefuseAppend, TypeOK, Status, flusher
<1>3. ASSUME NEW a \in Call, CancelAppend(a) PROVE TypeOK'
  BY <1>3 DEF CancelAppend, TypeOK, Status, flusher
<1>4. CASE Close(c)
  BY <1>4 DEF Close, TypeOK, Phase, futures
<1>5. CASE CancelClose(c)
  BY <1>5 DEF CancelClose, TypeOK, Phase, futures
<1>6. CASE Crash(c)
  BY <1>6 DEF Crash, TypeOK, Phase, Status
<1>7. CASE Straggle(c)
  <2>1. CASE Store(number[c], work[c])
    <3>1. number[c] >= 1
      BY <1>7 DEF KnownPrefix, KnownTo, Straggle
    <3>2. QED
      BY <1>7, <2>1, <3>1, StoreTypes DEF Straggle, TypeOK, Phase, futures
  <2>2. CASE UNCHANGED log
    BY <1>7, <2>2 DEF Straggle, TypeOK, Phase, futures
  <2>3. QED
    BY <1>7, <2>1, <2>2 DEF Straggle
<1>8. QED
  BY <1>1, <1>2, <1>3, <1>4, <1>5, <1>6, <1>7

(* A dense log is an interval that begins at 1. *)
LEMMA DenseRange ==
  ASSUME TypeOK, DenseLog
  PROVE  \E m \in Nat : DOMAIN log = 1..m
<1>1. Cardinality(DOMAIN log) \in Nat
  BY FS_CardinalityType DEF TypeOK
<1>2. QED
  BY <1>1 DEF DenseLog

(* The tail a listing finds: the last commit, and never less than the hint.  *)
LEMMA ListedTailIs ==
  ASSUME TypeOK, DenseLog, UpTo(History), NEW c \in Writer
  PROVE  ListedTail(TailHint[c]) \in Nat /\ UpTo(ListedTail(TailHint[c]))
<1> DEFINE hint == TailHint[c]
           listed == {n \in DOMAIN log : n > hint}
<1>1. hint \in Nat /\ hint <= History /\ History \in Nat
  BY ConfigAssumption
<1>2. CASE listed = {}
  BY <1>1, <1>2 DEF ListedTail, UpTo
<1>3. CASE listed # {}
  <2>1. PICK n \in DOMAIN log : n > hint
    BY <1>3
  <2>2. \E m \in Nat : DOMAIN log = 1..m
    BY DenseRange
  <2>3. PICK m \in Nat : DOMAIN log = 1..m
    BY <2>2
  <2>4. m \in listed /\ \A k \in listed : k <= m
    BY <1>1, <2>1, <2>3
  <2>5. \A k \in listed : k \in Int
    BY <2>3
  <2>6. Max(listed) = m
    BY <2>3, <2>4, <2>5 DEF Max
  <2>7. QED
    BY <1>3, <2>3, <2>6 DEF ListedTail, UpTo
<1>4. QED
  BY <1>2, <1>3

(* The flusher keeps every variable in its range. *)
LEMMA FlusherTypes ==
  ASSUME TypeOK, DenseLog, UpTo(History), KnownPrefix, NEW c \in Writer, FlusherStep(c)
  PROVE  TypeOK'
<1>1. CASE TakeBatch(c)
  <2>1. BatchOf(pending[c]) \in Seq(Event) /\ Rest(pending[c]) \in Seq(Event)
    BY BatchTypes DEF TypeOK
  <2>2. 1 \in 0..MaxAttempts
    BY ConfigAssumption
  <2>3. QED
    BY <1>1, <2>1, <2>2 DEF TakeBatch, TypeOK, Phase, futures
<1>2. CASE Stop(c)
  BY <1>2 DEF Stop, TypeOK, Phase, futures
<1>3. CASE NextNumber(c)
  <2>1. ListedTail(TailHint[c]) \in Nat
    BY ListedTailIs
  <2>2. QED
    BY <1>3, <2>1 DEF NextNumber, TypeOK, Phase, futures
<1>4. CASE PutReturns(c)
  <2>1. PICK r \in Reply : Answer(c, r)
    BY <1>4 DEF PutReturns, PutWins, PutLoses, PutConflicts, PutFails, PutRetried, Reply
  <2>2. pc[c] = "put" /\ number[c] >= 1
    BY <2>1 DEF Answer, KnownPrefix, KnownTo
  <2>3. UNCHANGED log \/ Store(number[c], work[c])
    BY <1>4 DEF PutReturns, PutWins, PutLoses, PutConflicts, PutFails, PutRetried
  <2>4. /\ DOMAIN log' \subseteq Nat \ {0} /\ IsFiniteSet(DOMAIN log')
        /\ \A n \in DOMAIN log' : log'[n] \in Seq(Event \cup {OldEvent})
    BY <2>2, <2>3, StoreTypes DEF TypeOK
  <2>5. QED
    BY <2>1, <2>4, AnswerTypes
<1>5. CASE HandleWon(c)
  <2> DEFINE outcomes == Settle(Reached(Range(work[c]), work[c]), work[c], "ok")
  <2>1. outcomes \in [Event -> Status]
    BY SettleTypes DEF Status
  <2>2. EndBatch(c, outcomes) /\ status' = outcomes
    BY <1>5 DEF HandleWon, EndBatch
  <2>3. seq' \in [Event -> SequenceNumber]
    <3>1. \A e \in Event : status'[e] = "ok" /\ status[e] # "ok" =>
            SequenceOf(number[c], work[c], e) \in SequenceNumber
      <4> SUFFICES ASSUME NEW e \in Event, status'[e] = "ok", status[e] # "ok"
                   PROVE  SequenceOf(number[c], work[c], e) \in SequenceNumber
        OBVIOUS
      <4>1. e \in Range(work[c])
        BY <2>2 DEF Settle
      <4>2. DOMAIN work[c] = 1..Len(work[c]) /\ Len(work[c]) \in Nat
        BY LenProperties DEF TypeOK
      <4>3. \E i \in DOMAIN work[c] : work[c][i] = e
        BY <4>1 DEF Range
      <4>4. (CHOOSE i \in DOMAIN work[c] : work[c][i] = e) \in 1..Len(work[c])
        BY <4>2, <4>3
      <4>5. QED
        BY <4>2, <4>4 DEF SequenceOf, SequenceNumber, TypeOK
    <3>2. QED
      BY <1>5, <3>1 DEF HandleWon, TypeOK
  <2>4. tail' \in [Writer -> Nat \cup {NoTail}]
    BY <1>5 DEF HandleWon, TypeOK
  <2>5. QED
    BY <1>5, <2>1, <2>2, <2>3, <2>4, EndBatchTypes DEF HandleWon, TypeOK
<1>6. CASE HandleError(c)
  <2> DEFINE outcomes == Settle(Reached(Range(work[c]), work[c]), work[c], "error")
  <2>1. outcomes \in [Event -> Status]
    BY SettleTypes DEF Status
  <2>2. EndBatch(c, outcomes)
    BY <1>6 DEF HandleError
  <2>3. QED
    BY <1>6, <2>1, <2>2, EndBatchTypes DEF HandleError, TypeOK
<1>7. CASE HandleLost(c)
  BY <1>7 DEF HandleLost, TypeOK, Phase, futures
<1>8. CASE ReadCommit(c)
  BY <1>8 DEF ReadCommit, TypeOK, futures
<1>9. CASE BackOff(c)
  <2>1. RetryOrGiveUp(c, work[c], status) /\ work[c] \in Seq(Event)
        /\ status \in [Event -> Status]
    BY <1>9 DEF BackOff, TypeOK
  <2>2. QED
    BY <1>9, <2>1, RetryTypes DEF BackOff, TypeOK
<1>10. CASE Advance(c)
  <2>1. cursor[c] \in Nat /\ number[c] \in Nat /\ number[c] >= 1 /\ number[c] <= cursor[c]
    BY <1>10 DEF Advance, KnownPrefix, KnownTo, TypeOK
  <2>2. tail' \in [Writer -> Nat \cup {NoTail}]
    BY <1>10, <2>1 DEF Advance, ReachedTail, TypeOK
  <2>3. CASE c \in Revalidating
    BY <1>10, <2>2, <2>3 DEF Advance, TypeOK, Phase
  <2>4. CASE c \notin Revalidating
    <3>1. RetryOrGiveUp(c, work[c], status) /\ work[c] \in Seq(Event)
          /\ status \in [Event -> Status]
      BY <1>10, <2>4 DEF Advance, TypeOK
    <3>2. QED
      BY <1>10, <2>2, <3>1, RetryTypes DEF Advance, TypeOK
  <2>5. QED
    BY <2>3, <2>4
<1>11. CASE Revalidate(c)
  <2> DEFINE outcomes(kept) ==
               [e \in Event |->
                  IF e \in Range(work[c]) \ Range(kept) /\ status[e] = "pending"
                    THEN "rejected" ELSE status[e]]
  <2>1. PICK kept \in Selections(work[c]) :
          IF kept = <<>> THEN EndBatch(c, outcomes(kept))
          ELSE RetryOrGiveUp(c, Kept(work[c], kept), outcomes(kept))
    BY <1>11 DEF Revalidate, RevalidateTo
  <2>2. kept \in Seq(Event) /\ Kept(work[c], kept) = kept
    BY SelectionTypes DEF TypeOK, Kept
  <2>3. outcomes(kept) \in [Event -> Status]
    BY DEF TypeOK, Status
  <2> HIDE DEF outcomes
  <2>4. CASE kept = <<>>
    BY <1>11, <2>1, <2>3, <2>4, EndBatchTypes DEF Revalidate, RevalidateTo, TypeOK
  <2>5. CASE kept # <<>>
    BY <1>11, <2>1, <2>2, <2>3, <2>5, RetryTypes DEF Revalidate, RevalidateTo, TypeOK
  <2>6. QED
    BY <2>4, <2>5
<1>12. CASE RevalidateCancelled(c)
  <2>1. PICK rejected \in SUBSET Range(work[c]) :
          EndBatch(c, Settle(Reached(rejected, work[c]), work[c], "rejected"))
    BY <1>12 DEF RevalidateCancelled, RejectCancelled
  <2>2. Settle(Reached(rejected, work[c]), work[c], "rejected") \in [Event -> Status]
    BY SettleTypes DEF Status
  <2>3. QED
    BY <1>12, <2>1, <2>2, EndBatchTypes DEF RevalidateCancelled, RejectCancelled, TypeOK
<1>13. CASE UnexpectedError(c)
  <2>1. EndBatch(c, Settle({}, work[c], "failed"))
    BY <1>13 DEF UnexpectedError
  <2>2. Settle({}, work[c], "failed") \in [Event -> Status]
    BY SettleTypes DEF Status
  <2>3. QED
    BY <1>13, <2>1, <2>2, EndBatchTypes DEF UnexpectedError, TypeOK
<1>14. QED
  BY <1>1, <1>2, <1>3, <1>4, <1>5, <1>6, <1>7, <1>8, <1>9, <1>10, <1>11, <1>12, <1>13
     DEF FlusherStep, ProtocolStep

-----------------------------------------------------------------------------
(* The only steps that touch the log store a batch at a free number.         *)
LEMMA LogSteps ==
  ASSUME [Next]_vars
  PROVE  \/ UNCHANGED log
         \/ \E c \in Writer : /\ pc[c] \in {"put", "inflight"}
                              /\ Absent(number[c]) /\ Store(number[c], work[c])
<1>1. ASSUME NEW c \in Writer, FlusherStep(c), ~UNCHANGED log
      PROVE  pc[c] = "put" /\ Absent(number[c]) /\ Store(number[c], work[c])
  <2>1. PutReturns(c)
    BY <1>1 DEF FlusherStep, ProtocolStep, TakeBatch, Stop, NextNumber, HandleWon, HandleError,
                HandleLost, ReadCommit, BackOff, Advance, Revalidate,
                RevalidateCancelled, RevalidateTo, RejectCancelled, UnexpectedError
  <2>2. QED
    BY <1>1, <2>1 DEF PutReturns, PutWins, PutLoses, PutConflicts, PutFails,
                      PutRetried, Answer
<1>2. ASSUME NEW c \in Writer, Straggle(c)
      PROVE  \/ UNCHANGED log
             \/ pc[c] = "inflight" /\ Absent(number[c]) /\ Store(number[c], work[c])
  BY <1>2 DEF Straggle
<1>3. ASSUME NEW c \in Writer, Close(c) \/ CancelClose(c) \/ Crash(c)
      PROVE  UNCHANGED log
  BY <1>3 DEF Close, CancelClose, Crash
<1>4. ASSUME NEW c \in Writer, NEW a \in Call, AppendMany(c, a) \/ RefuseAppend(c, a)
      PROVE  UNCHANGED log
  BY <1>4 DEF AppendMany, RefuseAppend
<1>5. ASSUME NEW a \in Call, CancelAppend(a) PROVE UNCHANGED log
  BY <1>5 DEF CancelAppend
<1>6. Terminated \/ UNCHANGED vars => UNCHANGED log
  BY DEF Terminated, vars
<1>7. QED
  BY <1>1, <1>2, <1>3, <1>4, <1>5, <1>6 DEF Next

(* The free number is the one after the last commit.                         *)
LEMMA LogGrows ==
  ASSUME TypeOK, DenseLog, KnownPrefix, [Next]_vars
  PROVE  /\ DenseLog'
         /\ DOMAIN log \subseteq DOMAIN log'
         /\ \A n \in DOMAIN log : log'[n] = log[n]
         /\ \A n \in DOMAIN log' \ DOMAIN log : \A m \in DOMAIN log : m < n
<1>1. CASE UNCHANGED log
  BY <1>1 DEF DenseLog
<1>2. CASE ~UNCHANGED log
  <2>1. PICK c \in Writer : /\ pc[c] \in {"put", "inflight"}
                            /\ Absent(number[c]) /\ Store(number[c], work[c])
    BY <1>2, LogSteps
  <2>2. number[c] \in Nat /\ number[c] >= 1 /\ 1..(number[c] - 1) \subseteq DOMAIN log
    BY <2>1 DEF TypeOK, KnownPrefix, KnownTo, UpTo
  <2>3. \E m \in Nat : DOMAIN log = 1..m
    BY DenseRange
  <2>4. PICK m \in Nat : DOMAIN log = 1..m
    BY <2>3
  <2>5. number[c] \notin 1..m
    BY <2>1, <2>4 DEF Absent
  <2>6. number[c] = m + 1
    <3>1. CASE number[c] - 1 >= 1
      <4>1. number[c] - 1 \in 1..m
        BY <2>2, <2>4, <3>1
      <4>2. QED
        BY <2>2, <2>5, <4>1
    <3>2. CASE number[c] = 1
      BY <2>5, <3>2
    <3>3. QED
      BY <2>2, <3>1, <3>2
  <2>7. DOMAIN log' = 1..(m + 1) /\ \A n \in DOMAIN log : log'[n] = log[n]
    <3>1. DOMAIN log' = DOMAIN log \cup {number[c]}
      BY <2>1 DEF Store
    <3>2. \A n \in DOMAIN log : log'[n] = log[n]
      BY <2>1 DEF Store, Absent
    <3>3. QED
      BY <2>4, <2>6, <3>1, <3>2
  <2>8. Cardinality(1..(m + 1)) = m + 1
    BY FS_Interval
  <2>9. DenseLog'
    BY <2>7, <2>8 DEF DenseLog
  <2>10. QED
    BY <2>4, <2>7, <2>9
<1>3. QED
  BY <1>1, <1>2

(* So what is known to be in the log stays there.                            *)
LEMMA UpToStays ==
  ASSUME TypeOK, DenseLog, KnownPrefix, [Next]_vars, NEW n, UpTo(n)
  PROVE  1..n \subseteq DOMAIN log'
BY LogGrows DEF UpTo

-----------------------------------------------------------------------------
(* What a Committer knows of the log when it is not between choosing a       *)
(* number and reading on from it: its tail, if it has one.                   *)
LEMMA KnownIdle ==
  ASSUME TypeOK, KnownPrefix, DOMAIN log \subseteq DOMAIN log', NEW c \in Writer,
         pc' \in [Writer -> Phase],
         pc'[c] \notin {"put", "inflight", "reply", "advance"},
         tail'[c] # NoTail => 1..tail'[c] \subseteq DOMAIN log',
         \A d \in Writer \ {c} : /\ pc'[d] = pc[d] /\ number'[d] = number[d]
                                 /\ cursor'[d] = cursor[d] /\ tail'[d] = tail[d]
  PROVE  KnownPrefix'
BY DEF KnownPrefix, KnownTo, UpTo

(* The end of an attempt leaves the Committer idle. *)
LEMMA RetryIsIdle ==
  ASSUME TypeOK, NEW c \in Writer, NEW kept, NEW outcomes,
         EndBatch(c, outcomes) \/ RetryOrGiveUp(c, kept, outcomes)
  PROVE  /\ pc'[c] \in {"waiting", "number"} /\ reply'[c] = "none"
         /\ \A d \in Writer \ {c} :
              /\ pc'[d] = pc[d] /\ number'[d] = number[d] /\ cursor'[d] = cursor[d]
              /\ reply'[d] = reply[d] /\ work'[d] = work[d]
BY DEF RetryOrGiveUp, EndBatch, ClearAttempt, TypeOK

LEMMA KnownStep ==
  ASSUME TypeOK, TypeOK', DenseLog, UpTo(History), KnownPrefix, WonIsStored,
         DOMAIN log \subseteq DOMAIN log', NEW c \in Writer, FlusherStep(c)
  PROVE  KnownPrefix'
<1>1. CASE TakeBatch(c)
  <2>1. pc'[c] = "number"
    BY <1>1 DEF TakeBatch, TypeOK
  <2>2. QED
    BY <1>1, <2>1, KnownIdle DEF TakeBatch, TypeOK, KnownPrefix, KnownTo, UpTo
<1>2. CASE Stop(c)
  <2>1. pc'[c] = "stopped"
    BY <1>2 DEF Stop, TypeOK
  <2>2. QED
    BY <1>2, <2>1, KnownIdle DEF Stop, TypeOK, KnownPrefix, KnownTo, UpTo
<1>3. CASE NextNumber(c)
  <2> DEFINE known == IF tail[c] = NoTail THEN ListedTail(TailHint[c]) ELSE tail[c]
  <2>1. known \in Nat /\ UpTo(known)
    BY ListedTailIs DEF KnownPrefix, KnownTo, TypeOK
  <2>2. /\ tail' = [tail EXCEPT ![c] = known]
        /\ number' = [number EXCEPT ![c] = known + 1]
        /\ pc' = [pc EXCEPT ![c] = "put"] /\ UNCHANGED cursor
    BY <1>3 DEF NextNumber
  <2> HIDE DEF known
  <2>3. KnownTo(c)'
    <3>1. tail'[c] = known /\ number'[c] = known + 1 /\ pc'[c] = "put"
      BY <2>2 DEF TypeOK
    <3>2. 1..known \subseteq DOMAIN log'
      BY <2>1 DEF UpTo
    <3>3. number'[c] >= 1 /\ number'[c] - 1 = known
      BY <2>1, <3>1
    <3>4. QED
      BY <3>1, <3>2, <3>3 DEF KnownTo, UpTo
  <2>4. \A d \in Writer \ {c} : KnownTo(d)'
    BY <2>2 DEF KnownPrefix, KnownTo, UpTo, TypeOK
  <2>5. QED
    BY <2>3, <2>4 DEF KnownPrefix
<1>4. CASE PutReturns(c)
  <2>1. /\ pc[c] = "put" /\ pc' = [pc EXCEPT ![c] = "reply"]
        /\ UNCHANGED <<number, cursor, tail>>
    BY <1>4 DEF PutReturns, PutWins, PutLoses, PutConflicts, PutFails, PutRetried, Answer
  <2>2. QED
    BY <2>1 DEF KnownPrefix, KnownTo, UpTo, TypeOK
<1>5. CASE HandleWon(c)
  <2>1. number[c] \in DOMAIN log /\ number[c] >= 1 /\ UpTo(number[c] - 1) /\ tail'[c] = number[c]
    BY <1>5 DEF HandleWon, KnownPrefix, KnownTo, WonIsStored, TypeOK
  <2>2. 1..tail'[c] \subseteq DOMAIN log'
    BY <2>1 DEF UpTo, TypeOK
  <2>3. /\ \E outcomes : EndBatch(c, outcomes)
        /\ \A d \in Writer \ {c} : tail'[d] = tail[d]
    BY <1>5 DEF HandleWon, TypeOK
  <2>4. /\ pc' \in [Writer -> Phase] /\ pc'[c] \in {"waiting", "number"}
        /\ \A d \in Writer \ {c} : /\ pc'[d] = pc[d] /\ number'[d] = number[d]
                                   /\ cursor'[d] = cursor[d]
    BY <2>3, RetryIsIdle DEF TypeOK
  <2>5. QED
    BY <2>2, <2>3, <2>4, KnownIdle
<1>6. CASE HandleError(c)
  BY <1>6, RetryIsIdle, KnownIdle DEF HandleError, TypeOK, KnownPrefix, KnownTo, UpTo
<1>7. CASE HandleLost(c)
  BY <1>7 DEF HandleLost, KnownPrefix, KnownTo, UpTo, TypeOK
<1>8. CASE ReadCommit(c)
  <2>1. /\ pc[c] = "advance" /\ UNCHANGED <<pc, number, tail>>
        /\ cursor' = [cursor EXCEPT ![c] = cursor[c] + 1]
        /\ cursor[c] \in Nat /\ number[c] <= cursor[c] /\ number[c] >= 1 /\ number[c] \in Nat
        /\ 1..(cursor[c] - 1) \subseteq DOMAIN log /\ cursor[c] \in DOMAIN log
    BY <1>8 DEF ReadCommit, KnownPrefix, KnownTo, UpTo, TypeOK
  <2>2. 1..cursor[c] \subseteq DOMAIN log
    BY <2>1
  <2>3. KnownTo(c)'
    <3>1. cursor'[c] = cursor[c] + 1 /\ KnownTo(c)
      BY <2>1 DEF KnownPrefix, TypeOK
    <3>2. cursor'[c] - 1 = cursor[c] /\ number[c] <= cursor'[c]
      BY <2>1, <3>1
    <3>3. QED
      BY <2>1, <2>2, <3>1, <3>2 DEF KnownTo, UpTo
  <2>4. \A d \in Writer \ {c} : KnownTo(d)'
    BY <2>1 DEF KnownPrefix, KnownTo, UpTo, TypeOK
  <2>5. QED
    BY <2>3, <2>4 DEF KnownPrefix
<1>9. CASE BackOff(c)
  BY <1>9, RetryIsIdle, KnownIdle, ZenonT(30) DEF BackOff, TypeOK, KnownPrefix, KnownTo, UpTo
<1>10. CASE Advance(c)
  <2>1. /\ tail' = [tail EXCEPT ![c] = cursor[c] - 1]
        /\ UpTo(cursor[c] - 1) /\ tail'[c] = cursor[c] - 1
    BY <1>10 DEF Advance, ReachedTail, KnownPrefix, KnownTo, TypeOK
  <2>2. /\ pc'[c] \in {"waiting", "number", "revalidate"}
        /\ \A d \in Writer \ {c} : /\ pc'[d] = pc[d] /\ number'[d] = number[d]
                                   /\ cursor'[d] = cursor[d]
    <3>1. CASE c \in Revalidating
      BY <1>10, <3>1 DEF Advance, TypeOK
    <3>2. CASE c \notin Revalidating
      BY <1>10, <3>2, RetryIsIdle DEF Advance
    <3>3. QED
      BY <3>1, <3>2
  <2>3. QED
    BY <2>1, <2>2, KnownIdle DEF TypeOK, UpTo
<1>11. CASE Revalidate(c)
  <2>1. UNCHANGED tail /\ \E kept, outcomes :
          EndBatch(c, outcomes) \/ RetryOrGiveUp(c, kept, outcomes)
    BY <1>11 DEF Revalidate, RevalidateTo
  <2>2. QED
    BY <2>1, RetryIsIdle, KnownIdle DEF TypeOK, KnownPrefix, KnownTo, UpTo
<1>12. CASE RevalidateCancelled(c)
  BY <1>12, RetryIsIdle, KnownIdle, ZenonT(30) DEF RevalidateCancelled, RejectCancelled, TypeOK, KnownPrefix, KnownTo, UpTo
<1>13. CASE UnexpectedError(c)
  BY <1>13, RetryIsIdle, KnownIdle DEF UnexpectedError, TypeOK, KnownPrefix, KnownTo, UpTo
<1>14. QED
  BY <1>1, <1>2, <1>3, <1>4, <1>5, <1>6, <1>7, <1>8, <1>9, <1>10, <1>11, <1>12, <1>13
     DEF FlusherStep, ProtocolStep

(* Calls, cancellations and crashes move a Committer's phase only to where   *)
(* less is known, and never to a reply.                                      *)
LEMMA CallSteps ==
  ASSUME TypeOK, KnownPrefix, WonIsStored, DOMAIN log \subseteq DOMAIN log',
         \A n \in DOMAIN log : log'[n] = log[n], NEW c \in Writer,
         \/ \E a \in Call : AppendMany(c, a) \/ RefuseAppend(c, a)
         \/ Close(c) \/ CancelClose(c) \/ Crash(c) \/ Straggle(c)
  PROVE  KnownPrefix' /\ WonIsStored'
<1>1. /\ UNCHANGED <<work, attempt, number, reply, cursor, tail>>
      /\ \A d \in Writer \ {c} : pc'[d] = pc[d]
      /\ \/ pc'[c] = pc[c]
         \/ pc'[c] \notin {"put", "inflight", "reply", "advance"}
         \/ pc[c] = "put" /\ pc'[c] = "inflight"
  <2>1. ASSUME NEW a \in Call, AppendMany(c, a) PROVE <1>1!:
    BY <2>1 DEF AppendMany, TypeOK
  <2>2. ASSUME NEW a \in Call, RefuseAppend(c, a) PROVE <1>1!:
    BY <2>2 DEF RefuseAppend, flusher
  <2>3. CASE Close(c)
    BY <2>3 DEF Close, TypeOK
  <2>4. CASE CancelClose(c) \/ Crash(c)
    BY <2>4 DEF CancelClose, Crash, TypeOK
  <2>5. CASE Straggle(c)
    BY <2>5 DEF Straggle, TypeOK
  <2>6. QED
    BY <2>1, <2>2, <2>3, <2>4, <2>5
<1>2. KnownPrefix'
  BY <1>1 DEF KnownPrefix, KnownTo, UpTo
<1>3. WonIsStored'
  BY <1>1 DEF WonIsStored
<1>4. QED
  BY <1>2, <1>3

(* A flusher touches nothing of another Committer's, and only a put that     *)
(* stored its batch tells it that it won.                                    *)
LEMMA WonStep ==
  ASSUME TypeOK, WonIsStored, DOMAIN log \subseteq DOMAIN log',
         \A n \in DOMAIN log : log'[n] = log[n], NEW c \in Writer, FlusherStep(c)
  PROVE  WonIsStored'
<1>1. CASE PutReturns(c)
  <2>1. /\ UNCHANGED <<work, number>> /\ pc' = [pc EXCEPT ![c] = "reply"]
        /\ \A d \in Writer \ {c} : reply'[d] = reply[d]
        /\ reply'[c] = "won" => Store(number[c], work[c])
    BY <1>1 DEF PutReturns, PutWins, PutLoses, PutConflicts, PutFails, PutRetried,
                Answer, TypeOK
  <2>2. reply'[c] = "won" => number[c] \in DOMAIN log' /\ log'[number[c]] = work[c]
    BY <2>1 DEF Store
  <2>3. QED
    BY <2>1, <2>2 DEF WonIsStored, TypeOK
<1>2. CASE ~PutReturns(c)
  <2>1. /\ pc'[c] # "reply"
        /\ \A d \in Writer \ {c} : /\ pc'[d] = pc[d] /\ number'[d] = number[d]
                                   /\ reply'[d] = reply[d] /\ work'[d] = work[d]
    <3>1. CASE TakeBatch(c) \/ Stop(c) \/ NextNumber(c) \/ HandleLost(c) \/ ReadCommit(c)
      BY <3>1 DEF TakeBatch, Stop, NextNumber, HandleLost, ReadCommit, TypeOK
    <3>2. CASE \E kept, outcomes : EndBatch(c, outcomes) \/ RetryOrGiveUp(c, kept, outcomes)
      BY <3>2, RetryIsIdle
    <3>3. CASE HandleWon(c) \/ HandleError(c) \/ BackOff(c) \/ Revalidate(c)
                 \/ RevalidateCancelled(c) \/ UnexpectedError(c)
      BY <3>2, <3>3 DEF HandleWon, HandleError, BackOff, Revalidate,
                        RevalidateCancelled, RevalidateTo, RejectCancelled, UnexpectedError
    <3>4. CASE Advance(c)
      BY <3>2, <3>4 DEF Advance, TypeOK
    <3>5. QED
      BY <1>2, <3>1, <3>3, <3>4 DEF FlusherStep, ProtocolStep
  <2>2. QED
    BY <2>1 DEF WonIsStored
<1>3. QED
  BY <1>1, <1>2

-----------------------------------------------------------------------------
(* An acknowledgement, once true, stays true while the log only grows and    *)
(* futures are resolved once.                                                *)
LEMMA AckedStays ==
  ASSUME AckedDurably, DOMAIN log \subseteq DOMAIN log',
         \A n \in DOMAIN log : log'[n] = log[n],
         UNCHANGED seq, \A e \in Event : status'[e] = "ok" => status[e] = "ok"
  PROVE  AckedDurably'
BY DEF AckedDurably

(* The end of an attempt acknowledges nothing. *)
LEMMA RetryAcksNothing ==
  ASSUME NEW c \in Writer, NEW kept, NEW outcomes \in [Event -> Status],
         \A e \in Event : outcomes[e] = "ok" => status[e] = "ok",
         EndBatch(c, outcomes) \/ RetryOrGiveUp(c, kept, outcomes)
  PROVE  \A e \in Event : status'[e] = "ok" => status[e] = "ok"
BY DEF RetryOrGiveUp, EndBatch, GiveUp

LEMMA AckStep ==
  ASSUME TypeOK, WonIsStored, AckedDurably, DOMAIN log \subseteq DOMAIN log',
         \A n \in DOMAIN log : log'[n] = log[n], NEW c \in Writer, FlusherStep(c)
  PROVE  AckedDurably'
<1>1. ASSUME NEW E, NEW outcome \in Status \ {"ok"}
      PROVE  /\ Settle(E, work[c], outcome) \in [Event -> Status]
             /\ \A e \in Event : Settle(E, work[c], outcome)[e] = "ok" => status[e] = "ok"
  BY <1>1, SettleTypes DEF Settle
<1>2. CASE TakeBatch(c) \/ Stop(c) \/ NextNumber(c) \/ PutReturns(c) \/ HandleLost(c)
             \/ ReadCommit(c)
  <2>1. UNCHANGED <<status, seq>>
    BY <1>2 DEF TakeBatch, Stop, NextNumber, PutReturns, PutWins, PutLoses,
                PutConflicts, PutFails, PutRetried, Answer, HandleLost, ReadCommit, futures
  <2>2. QED
    BY <2>1, AckedStays
<1>3. CASE HandleWon(c)
  <2> DEFINE outcomes == Settle(Reached(Range(work[c]), work[c]), work[c], "ok")
  <2>1. /\ number[c] \in DOMAIN log /\ log[number[c]] = work[c]
    BY <1>3 DEF HandleWon, WonIsStored
  <2>2. /\ status' = outcomes
        /\ seq' = [e \in Event |->
                     IF status'[e] = "ok" /\ status[e] # "ok"
                       THEN SequenceOf(number[c], work[c], e) ELSE seq[e]]
    BY <1>3 DEF HandleWon, EndBatch
  <2> SUFFICES ASSUME NEW e \in Event, status'[e] = "ok"
               PROVE  /\ seq'[e].commit \in DOMAIN log'
                      /\ seq'[e].index + 1 \in DOMAIN log'[seq'[e].commit]
                      /\ log'[seq'[e].commit][seq'[e].index + 1] = e
    BY DEF AckedDurably
  <2>3. CASE status[e] = "ok"
    <3>1. seq'[e] = seq[e]
      BY <2>2, <2>3
    <3>2. QED
      BY <2>3, <3>1 DEF AckedDurably
  <2>4. CASE status[e] # "ok"
    <3>1. seq'[e] = SequenceOf(number[c], work[c], e)
      BY <2>2, <2>4
    <3>2. \E i \in DOMAIN work[c] : work[c][i] = e
      BY <2>2, <2>4 DEF Settle, Range
    <3>3. PICK i : i = (CHOOSE j \in DOMAIN work[c] : work[c][j] = e)
      OBVIOUS
    <3>4. i \in DOMAIN work[c] /\ work[c][i] = e
      BY <3>2, <3>3
    <3>5. i \in Nat
      BY <3>4, LenProperties DEF TypeOK
    <3>6. seq'[e].commit = number[c] /\ seq'[e].index + 1 = i
      <4>1. seq'[e] = [commit |-> number[c], index |-> i - 1]
        BY <3>1, <3>3 DEF SequenceOf
      <4>2. QED
        BY <3>5, <4>1
    <3>7. log'[number[c]] = work[c] /\ number[c] \in DOMAIN log'
      BY <2>1
    <3>8. QED
      BY <3>4, <3>6, <3>7
  <2>5. QED
    BY <2>3, <2>4
<1>4. CASE HandleError(c)
  BY <1>1, <1>4, RetryAcksNothing, AckedStays DEF HandleError, Status
<1>5. CASE BackOff(c)
  BY <1>5, RetryAcksNothing, AckedStays DEF BackOff, TypeOK
<1>6. CASE Advance(c)
  BY <1>6, RetryAcksNothing, AckedStays DEF Advance, TypeOK
<1>7. CASE Revalidate(c)
  <2>1. PICK kept, outcomes :
          /\ EndBatch(c, outcomes) \/ RetryOrGiveUp(c, kept, outcomes)
          /\ \E E : outcomes = [e \in Event |-> IF e \in E /\ status[e] = "pending"
                                                  THEN "rejected" ELSE status[e]]
    BY <1>7 DEF Revalidate, RevalidateTo
  <2>2. outcomes \in [Event -> Status] /\ \A e \in Event : outcomes[e] = "ok" => status[e] = "ok"
    BY <2>1 DEF TypeOK, Status
  <2>3. UNCHANGED seq
    BY <1>7 DEF Revalidate, RevalidateTo
  <2>4. QED
    BY <2>1, <2>2, <2>3, RetryAcksNothing, AckedStays
<1>8. CASE RevalidateCancelled(c)
  BY <1>1, <1>8, RetryAcksNothing, AckedStays DEF RevalidateCancelled, RejectCancelled, Status
<1>9. CASE UnexpectedError(c)
  BY <1>1, <1>9, RetryAcksNothing, AckedStays DEF UnexpectedError, Status
<1>10. QED
  BY <1>2, <1>3, <1>4, <1>5, <1>6, <1>7, <1>8, <1>9 DEF FlusherStep, ProtocolStep

LEMMA AckedCalls ==
  ASSUME TypeOK, AckedDurably, DOMAIN log \subseteq DOMAIN log',
         \A n \in DOMAIN log : log'[n] = log[n],
         \/ \E c \in Writer :
              \/ \E a \in Call : AppendMany(c, a) \/ RefuseAppend(c, a)
              \/ Close(c) \/ CancelClose(c) \/ Crash(c) \/ Straggle(c)
         \/ \E a \in Call : CancelAppend(a)
  PROVE  AckedDurably'
<1>1. UNCHANGED seq /\ \A e \in Event : status'[e] = "ok" => status[e] = "ok"
  BY DEF AppendMany, RefuseAppend, CancelAppend, Close, CancelClose, Crash, Straggle, futures
<1>2. QED
  BY <1>1, AckedStays

-----------------------------------------------------------------------------
LEMMA InitIInv == Init => IInv
<1> SUFFICES ASSUME Init PROVE IInv
  OBVIOUS
<1>1. /\ History \in Nat /\ log = [n \in 1..History |-> <<OldEvent>>]
      /\ DOMAIN log = 1..History
  BY ConfigAssumption DEF Init
<1>2. IsFiniteSet(1..History) /\ Cardinality(1..History) = History
  BY <1>1, FS_Interval
<1>3. <<OldEvent>> \in Seq(Event \cup {OldEvent}) /\ <<>> \in Seq(Event)
  BY EmptySeq
<1>4. TypeOK
  BY <1>1, <1>2, <1>3, ConfigAssumption
     DEF Init, TypeOK, Phase, Reply, Status, SequenceNumber, NoSeq
<1>5. DenseLog /\ UpTo(History)
  BY <1>1, <1>2 DEF DenseLog, UpTo
<1>6. KnownPrefix /\ WonIsStored /\ AckedDurably
  BY DEF Init, KnownPrefix, KnownTo, WonIsStored, AckedDurably
<1>7. QED
  BY <1>4, <1>5, <1>6 DEF IInv

LEMMA StepIInv == IInv /\ [Next]_vars => IInv'
<1> SUFFICES ASSUME IInv, [Next]_vars PROVE IInv'
  OBVIOUS
<1> USE DEF IInv
<1>1. /\ DenseLog' /\ DOMAIN log \subseteq DOMAIN log'
      /\ \A n \in DOMAIN log : log'[n] = log[n]
  BY LogGrows
<1>2. UpTo(History)'
  BY <1>1 DEF UpTo
<1>3. ASSUME NEW c \in Writer, FlusherStep(c) PROVE IInv'
  <2>1. TypeOK'
    BY <1>3, FlusherTypes
  <2>2. QED
    BY <1>1, <1>2, <1>3, <2>1, KnownStep, WonStep, AckStep
<1>4. ASSUME NEW c \in Writer,
             \/ \E a \in Call : AppendMany(c, a) \/ RefuseAppend(c, a)
             \/ Close(c) \/ CancelClose(c) \/ Crash(c) \/ Straggle(c)
      PROVE  IInv'
  <2>1. TypeOK'
    BY <1>4, CallTypes
  <2>2. AckedDurably'
    BY <1>1, <1>4, AckedCalls
  <2>3. KnownPrefix' /\ WonIsStored'
    BY <1>1, <1>4, CallSteps
  <2>4. QED
    BY <1>1, <1>2, <2>1, <2>2, <2>3
<1>5. ASSUME NEW a \in Call, CancelAppend(a) PROVE IInv'
  <2>1. TypeOK'
    BY <1>5 DEF CancelAppend, TypeOK, Status, flusher
  <2>2. AckedDurably'
    BY <1>1, <1>5, AckedCalls
  <2>3. KnownPrefix' /\ WonIsStored'
    BY <1>5 DEF CancelAppend, flusher, KnownPrefix, KnownTo, WonIsStored, UpTo
  <2>4. QED
    BY <1>1, <1>2, <2>1, <2>2, <2>3
<1>6. CASE UNCHANGED vars
  BY <1>6 DEF vars, flusher, futures, TypeOK, DenseLog, UpTo, KnownPrefix, KnownTo,
              WonIsStored, AckedDurably
<1>7. QED
  BY <1>3, <1>4, <1>5, <1>6 DEF Next, Terminated

(* IInv holds in every reachable state. *)
THEOREM Inductive == Spec => []IInv
  BY InitIInv, StepIInv, PTL DEF Spec

(* Every variable of a Committer (committer.py 105-131) stays in its range.  *)
THEOREM TypeCorrect == Spec => []TypeOK
<1>1. IInv => TypeOK
  BY DEF IInv
<1>2. QED
  BY <1>1, Inductive, PTL

(* No fault and no interleaving of any number of Committers leaves a gap in  *)
(* the log (docs/concepts/logs.md 3-4): put_commit is only ever called with  *)
(* the number after a known prefix.                                          *)
THEOREM Dense == Spec => []DenseLog
<1>1. IInv => DenseLog
  BY DEF IInv
<1>2. QED
  BY <1>1, Inductive, PTL

(* What a Committer takes for existing does exist (_next_number and          *)
(* _advance_tail, committer.py 297-321).                                     *)
THEOREM PrefixKnown == Spec => []KnownPrefix
<1>1. IInv => KnownPrefix
  BY DEF IInv
<1>2. QED
  BY <1>1, Inductive, PTL

(* An append that returned has its event in the log at the sequence number   *)
(* it returned, for ever (_commit_batch, committer.py 264-274).              *)
THEOREM Acked == Spec => []AckedDurably
<1>1. IInv => AckedDurably
  BY DEF IInv
<1>2. QED
  BY <1>1, Inductive, PTL

(* Commits are immutable and added in the order of their numbers: the log is *)
(* ordered in time (put_commit, storage/base.py 85-96).                      *)
THEOREM GrowsAtEnd == Spec => LogGrowsAtEnd
<1>1. IInv /\ [Next]_vars =>
        [/\ \A n \in DOMAIN log : n \in DOMAIN log' /\ log'[n] = log[n]
         /\ \A n \in DOMAIN log' \ DOMAIN log : \A m \in DOMAIN log : m < n]_vars
  BY LogGrows DEF IInv
<1>2. QED
  BY <1>1, Inductive, PTL DEF Spec, LogGrowsAtEnd

=============================================================================
