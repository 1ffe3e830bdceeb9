------------------------ MODULE CommitterPromiseProofs ------------------------
(***************************************************************************)
(* What callers are promised, for any number of Committers, events, calls  *)
(* and attempts: close() leaves nobody waiting, whatever happens; no event *)
(* is committed twice, and the events of one Committer in their order,     *)
(* unless the SDK resends a put; an append that failed has committed       *)
(* nothing, and the protocol implements CommitLog, unless besides a task   *)
(* awaiting an append is cancelled whose event shares a batch with others. *)
(***************************************************************************)
EXTENDS CommitterProofs

-----------------------------------------------------------------------------
(* Where the events are.  arrivals[c] is in order: the events that were      *)
(* taken off the queue, of which the batch has some, then the queue.         *)
Taken(c) == Len(arrivals[c]) - Len(pending[c])

Once ==
  \A c, d \in Writer : \A k \in DOMAIN arrivals[c], l \in DOMAIN arrivals[d] :
    arrivals[c][k] = arrivals[d][l] => c = d /\ k = l

Submitted == \A c \in Writer : \A k \in DOMAIN arrivals[c] : status[arrivals[c][k]] # "new"

Queued(c) ==
  /\ Len(pending[c]) <= Len(arrivals[c])
  /\ \A i \in DOMAIN pending[c] : pending[c][i] = arrivals[c][Taken(c) + i]

Ordered(f, n) == \A i, j \in 1..n : i < j => f[i] < f[j]

(* kept is some of the first n of events, in their order. *)
Picks(kept, events, n) ==
  \E f \in [1..Len(kept) -> 1..n] :
    /\ Ordered(f, Len(kept))
    /\ \A i \in 1..Len(kept) : kept[i] = events[f[i]]

Batched(c) == Picks(work[c], arrivals[c], Taken(c))

Sized(c) == Len(work[c]) <= MaxEvents

Busy == {"number", "put", "reply", "advance", "revalidate"}

Staged(c) ==
  /\ pc[c] \in Busy \cup {"inflight"} => work[c] # <<>>
  /\ pc[c] \in {"unstarted", "waiting", "stopped"} => work[c] = <<>>
  /\ pc[c] = "unstarted" => arrivals[c] = <<>>
  /\ pc[c] = "stopped" => pending[c] = <<>>

(* Whoever waits for an event waits for one that its Committer holds.        *)
Owed(c) == \A k \in DOMAIN arrivals[c] : status[arrivals[c][k]] = "pending" => arrivals[c][k] \in HeldBy(c)

Places ==
  /\ Once /\ Submitted
  /\ \A c \in Writer : Queued(c) /\ Batched(c) /\ Sized(c) /\ Staged(c) /\ Owed(c)

-----------------------------------------------------------------------------
(* What is in the log: batches of what was taken off the queues, ...         *)
Recorded ==
  \A n \in DOMAIN log :
    /\ log[n] # <<>>
    /\ \A i \in DOMAIN log[n] :
         \/ log[n][i] = OldEvent
         \/ \E c \in Writer : \E k \in 1..Taken(c) : log[n][i] = arrivals[c][k]

(* ... in order, as long as no put that was stored is reported as lost.      *)
NoResend == "putRetried" \notin Faults

(* The batch has not been stored. *)
Unsent(c) ==
  \/ pc[c] \in {"number", "put", "inflight", "advance", "revalidate"}
  \/ pc[c] = "reply" /\ reply[c] = "lost"

(* An unsent batch comes after all of its Committer's that the log has.      *)
Later(c) ==
  Unsent(c) =>
    \A n \in DOMAIN log : \A i \in DOMAIN log[n], j \in 1..Len(work[c]),
       k, l \in DOMAIN arrivals[c] :
      log[n][i] = arrivals[c][k] /\ work[c][j] = arrivals[c][l] => k < l

Records == CommittedOnce /\ FifoPerWriter /\ \A c \in Writer : Later(c)

-----------------------------------------------------------------------------
(* What the futures say, as long as besides no append is cancelled whose     *)
(* event can share its batch with others.                                    *)
NoCancel == "cancelAppend" \notin Faults

Honest == NoCancel \/ MaxEvents = 1

Open == {"pending", "lost", "cancelled"}
Undecided(e) == status[e] \in Open

Truths ==
  /\ NoCancel => \A e \in Event : status[e] # "cancelled"
  /\ \A c \in Writer :
       /\ \A i \in DOMAIN pending[c] : Undecided(pending[c][i])
       /\ Unsent(c) => \A i \in DOMAIN work[c] : Undecided(work[c][i])
  /\ FailedNotCommitted

-----------------------------------------------------------------------------
(* The steps, by what they do to the queues, the batches, the log and the    *)
(* futures.                                                                  *)
Alike(c) ==
  \A d \in Writer \ {c} :
    /\ pending'[d] = pending[d] /\ arrivals'[d] = arrivals[d] /\ work'[d] = work[d]
    /\ pc'[d] = pc[d] /\ reply'[d] = reply[d]

(* A batch is taken off the queue.                                           *)
Takes(c) ==
  /\ pc[c] = "waiting" /\ pending[c] # <<>> /\ pc'[c] = "number"
  /\ work'[c] = BatchOf(pending[c]) /\ pending'[c] = Rest(pending[c])
  /\ arrivals'[c] = arrivals[c]
  /\ UNCHANGED <<log, status, seq>> /\ Alike(c)

(* Nothing moves but the flusher, forward or to its end.                     *)
Loses(c) ==
  \A e \in Event : \/ status'[e] = status[e]
                   \/ status[e] = "pending" /\ status'[e] = "lost" /\ e \in HeldBy(c)

Proceeds(c) ==
  /\ UNCHANGED <<log, pending, arrivals, work, seq>> /\ Alike(c) /\ Loses(c)
  /\ pc'[c] \in Busy \cup {"inflight"} => pc[c] \in Busy \cup {"inflight"}
  /\ pc'[c] \in {"unstarted", "waiting"} => pc'[c] = pc[c]
  /\ pc'[c] = "stopped" => pc[c] = "unstarted" \/ pending[c] = <<>>
  /\ pc'[c] = "stopped" => pc[c] \in {"unstarted", "waiting", "stopped"}
  /\ Unsent(c)' => Unsent(c)

(* The batch is stored.                                                      *)
Stores(c) ==
  /\ pc[c] \in {"put", "inflight"}
  /\ Absent(number[c]) /\ Store(number[c], work[c])
  /\ UNCHANGED <<pending, arrivals, work, status, seq>> /\ Alike(c)
  /\ pc'[c] = "crashed" \/ pc'[c] = "reply"
  /\ NoResend => ~Unsent(c)'

(* The batch is over, and so is the waiting for its events.                  *)
Decided(c, e) ==
  /\ status[e] = "pending" /\ e \in Range(work[c])
  /\ status'[e] \in {"ok", "rejected", "failed", "error"}
  /\ status'[e] = "ok" => pc[c] = "reply" /\ reply[c] = "won"
  /\ (\A x \in Range(work[c]) : status[x] # "cancelled")
       /\ status'[e] \in {"failed", "rejected"} => Unsent(c)

Answered(c) ==
  \A e \in Event :
    seq'[e] = IF status'[e] = "ok" /\ status[e] # "ok" THEN SequenceOf(number[c], work[c], e)
              ELSE seq[e]

(* They all get the same answer, unless one that was cancelled is among them. *)
Agreed(O) == \A e \in Event : status'[e] = status[e] \/ status'[e] \in O

Agree(c) ==
  (\A x \in Range(work[c]) : status[x] # "cancelled") =>
    Agreed({"ok"}) \/ Agreed({"error"}) \/ Agreed({"failed", "rejected"})

Ends(c) ==
  /\ pc[c] \in Busy /\ pc'[c] = "waiting" /\ work'[c] = <<>>
  /\ UNCHANGED <<log, pending, arrivals>> /\ Alike(c)
  /\ \A e \in Event : status'[e] = status[e] \/ Decided(c, e)
  /\ \A e \in Range(work[c]) : status'[e] # "pending"
  /\ Answered(c) /\ Agree(c)

(* It is tried again, with the events that the hook keeps.                   *)
Selected(kept, events) == Picks(kept, events, Len(events))

Retries(c) ==
  /\ pc[c] \in {"advance", "revalidate"} /\ pc'[c] = "number"
  /\ work'[c] # <<>> /\ Selected(work'[c], work[c])
  /\ UNCHANGED <<log, pending, arrivals, seq>> /\ Alike(c)
  /\ \A e \in Event : \/ status'[e] = status[e]
                      \/ /\ status[e] = "pending" /\ status'[e] = "rejected"
                         /\ e \in Range(work[c]) \ Range(work'[c])
  /\ \A e \in Range(work[c]) \ Range(work'[c]) : status'[e] # "pending"

(* New events join the queue, or are turned away; callers go.                *)
Joins(c, a) ==
  /\ \A e \in Range(EventsOf[a]) : status[e] = "new"
  /\ pc[c] \notin Ended \cup {"inflight"}
  /\ pc'[c] = (IF pc[c] = "unstarted" THEN "waiting" ELSE pc[c])
  /\ pending'[c] = pending[c] \o EventsOf[a] /\ arrivals'[c] = arrivals[c] \o EventsOf[a]
  /\ work'[c] = work[c] /\ reply'[c] = reply[c]
  /\ UNCHANGED <<log, seq>> /\ Alike(c)
  /\ \A e \in Event : status'[e] = IF e \in Range(EventsOf[a]) THEN "pending" ELSE status[e]

TurnsAway ==
  /\ UNCHANGED <<log, pending, arrivals, work, pc, reply, seq>>
  /\ \/ \A e \in Event : \/ status'[e] = status[e]
                         \/ status[e] = "new" /\ status'[e] = "failed"
     \/ /\ ~NoCancel
        /\ \A e \in Event : \/ status'[e] = status[e]
                            \/ status[e] = "pending" /\ status'[e] = "cancelled"

-----------------------------------------------------------------------------
LEMMA WorkTypes ==
  ASSUME TypeOK, NEW c \in Writer
  PROVE  /\ work[c] \in Seq(Event) /\ pending[c] \in Seq(Event) /\ arrivals[c] \in Seq(Event)
         /\ DOMAIN work[c] = 1..Len(work[c]) /\ Len(work[c]) \in Nat
         /\ DOMAIN pending[c] = 1..Len(pending[c]) /\ Len(pending[c]) \in Nat
         /\ DOMAIN arrivals[c] = 1..Len(arrivals[c]) /\ Len(arrivals[c]) \in Nat
         /\ Range(work[c]) \subseteq Event
<1>1. work[c] \in Seq(Event) /\ pending[c] \in Seq(Event) /\ arrivals[c] \in Seq(Event)
  BY DEF TypeOK
<1>2. \A i \in 1..Len(work[c]) : work[c][i] \in Event
  BY <1>1, ElementOfSeq
<1>3. QED
  BY <1>1, <1>2, LenProperties DEF Range

LEMMA SettleForm ==
  ASSUME TypeOK, NEW events, NEW E, NEW outcome
  PROVE  \A e \in Event :
           /\ status[e] # "pending" \/ e \notin Range(events) =>
                Settle(E, events, outcome)[e] = status[e]
           /\ status[e] = "pending" /\ e \in Range(events) =>
                Settle(E, events, outcome)[e] = IF e \in E THEN outcome ELSE "failed"
BY DEF Settle

(* Nothing stops a loop over futures of which none was cancelled.            *)
LEMMA AllReached ==
  ASSUME TypeOK, NEW c \in Writer, \A x \in Range(work[c]) : status[x] # "cancelled"
  PROVE  Reached(Range(work[c]), work[c]) = Range(work[c])
<1>1. ASSUME NEW i \in DOMAIN work[c]
      PROVE  /\ work[c][i] \in Range(work[c])
             /\ \A k \in 1..i : work[c][k] \in Range(work[c]) => status[work[c][k]] # "cancelled"
  <2>1. \A k \in 1..i : k \in DOMAIN work[c]
    BY WorkTypes
  <2>2. QED
    BY <2>1 DEF Range
<1>2. QED
  BY <1>1 DEF Reached, Range

(* The end of a batch whose futures are left as Settle does. *)
LEMMA EndBatchForm ==
  ASSUME TypeOK, NEW c \in Writer, NEW outcomes, EndBatch(c, outcomes),
         UNCHANGED <<pending, arrivals>>
  PROVE  /\ pc'[c] = "waiting" /\ work'[c] = <<>> /\ status' = outcomes /\ Alike(c)
BY DEF EndBatch, ClearAttempt, Alike, TypeOK

LEMMA SettledEnds ==
  ASSUME TypeOK, NEW c \in Writer, pc[c] \in Busy, NEW E,
         NEW outcome \in {"ok", "rejected", "failed", "error"},
         EndBatch(c, Settle(E, work[c], outcome)), UNCHANGED <<log, pending, arrivals>>,
         outcome = "ok" => pc[c] = "reply" /\ reply[c] = "won",
         \/ Unsent(c) /\ outcome \in {"failed", "rejected"}
         \/ outcome \in {"ok", "error"} /\ E = Reached(Range(work[c]), work[c]),
         Answered(c)
  PROVE  Ends(c)
<1>1. /\ pc'[c] = "waiting" /\ work'[c] = <<>> /\ status' = Settle(E, work[c], outcome) /\ Alike(c)
  BY EndBatchForm
<1>2. ASSUME NEW e \in Event, status'[e] # status[e] PROVE Decided(c, e)
  <2>1. status[e] = "pending" /\ e \in Range(work[c])
    BY <1>1, <1>2, SettleForm
  <2>2. status'[e] = IF e \in E THEN outcome ELSE "failed"
    BY <1>1, <2>1, SettleForm
  <2>3. ASSUME \A x \in Range(work[c]) : status[x] # "cancelled",
               status'[e] \in {"failed", "rejected"}
        PROVE  Unsent(c)
    BY <2>1, <2>2, <2>3, AllReached
  <2>4. QED
    BY <2>1, <2>2, <2>3 DEF Decided
<1>3. ASSUME NEW e \in Range(work[c]) PROVE status'[e] # "pending"
  <2>1. e \in Event
    BY WorkTypes
  <2>2. QED
    BY <1>1, <1>3, <2>1, SettleForm
<1>4. Agree(c)
  <2>1. ASSUME \A x \in Range(work[c]) : status[x] # "cancelled", outcome \in {"ok", "error"},
               E = Range(work[c])
        PROVE  Agreed({outcome})
    BY <1>1, <2>1, SettleForm DEF Agreed
  <2>2. ASSUME outcome \in {"failed", "rejected"}
        PROVE  Agreed({"failed", "rejected"})
    BY <1>1, <2>2, SettleForm DEF Agreed
  <2>3. QED
    BY <2>1, <2>2, AllReached DEF Agree
<1>5. QED
  BY <1>1, <1>2, <1>3, <1>4 DEF Ends

LEMMA NothingPicked ==
  ASSUME NEW kept, Len(kept) = 0, NEW events, NEW n
  PROVE  Picks(kept, events, n)
<1> DEFINE f == [i \in 1..Len(kept) |-> 1]
<1>1. 1..Len(kept) = {}
  OBVIOUS
<1>2. f \in [1..Len(kept) -> 1..n]
  BY <1>1
<1>3. Ordered(f, Len(kept)) /\ \A i \in 1..Len(kept) : kept[i] = events[f[i]]
  BY <1>1 DEF Ordered
<1> HIDE DEF f
<1>4. QED
  BY <1>2, <1>3 DEF Picks

LEMMA SelectsItself ==
  ASSUME NEW events \in Seq(Event)
  PROVE  Selected(events, events)
<1> DEFINE g == [i \in 1..Len(events) |-> i]
<1>1. g \in [1..Len(events) -> 1..Len(events)] /\ Ordered(g, Len(events))
  BY DEF Ordered
<1>2. QED
  BY <1>1 DEF Selected, Picks

LEMMA SelectionsSelect ==
  ASSUME NEW events \in Seq(Event), NEW kept \in Selections(events)
  PROVE  Selected(kept, events) /\ kept \in Seq(Event)
<1>1. PICK n \in 0..Len(events) :
        \E f \in {g \in [1..n -> DOMAIN events] :
                    \A i, j \in 1..n : i < j => g[i] < g[j]} :
          kept = [i \in 1..n |-> events[f[i]]]
  BY DEF Selections
<1>2. PICK f \in [1..n -> DOMAIN events] :
        Ordered(f, n) /\ kept = [i \in 1..n |-> events[f[i]]]
  BY <1>1 DEF Ordered
<1>3. DOMAIN events = 1..Len(events) /\ n \in Nat
  BY LenProperties
<1>4. kept \in Seq(Event) /\ Len(kept) = n
  <2>1. kept \in Seq(Event)
    BY SelectionTypes
  <2>2. DOMAIN kept = 1..n /\ DOMAIN kept = 1..Len(kept) /\ Len(kept) \in Nat
    BY <1>2, <2>1, LenProperties
  <2>3. QED
    BY <1>3, <2>1, <2>2
<1>5. QED
  BY <1>2, <1>3, <1>4 DEF Selected, Picks

(* The events kept go on, or are given up after the last attempt.            *)
LEMMA RetryForm ==
  ASSUME TypeOK, NEW c \in Writer, pc[c] \in {"advance", "revalidate"}, work[c] # <<>>,
         NEW kept \in Seq(Event), kept # <<>>, Selected(kept, work[c]),
         NEW outcomes \in [Event -> Status],
         \A e \in Event : IF e \in Range(work[c]) \ Range(kept) /\ status[e] = "pending"
                          THEN outcomes[e] = "rejected" ELSE outcomes[e] = status[e],
         RetryOrGiveUp(c, kept, outcomes), UNCHANGED <<log, pending, arrivals, seq>>
  PROVE  Retries(c) \/ Ends(c)
<1>1. Range(work[c]) \subseteq Event
  BY WorkTypes
<1>2. CASE LastAttempt(c)
  <2>1. /\ pc'[c] = "waiting" /\ work'[c] = <<>> /\ status' = GiveUp(kept, outcomes) /\ Alike(c)
    BY <1>2, EndBatchForm DEF RetryOrGiveUp
  <2>2. \A e \in Event : status'[e] = IF e \in Range(kept) /\ outcomes[e] = "pending"
                                        THEN "failed" ELSE outcomes[e]
    BY <2>1 DEF GiveUp
  <2>3. Range(kept) \subseteq Range(work[c])
    <3>1. PICK g \in [1..Len(kept) -> 1..Len(work[c])] :
            \A i \in 1..Len(kept) : kept[i] = work[c][g[i]]
      BY DEF Selected, Picks
    <3>2. DOMAIN kept = 1..Len(kept) /\ DOMAIN work[c] = 1..Len(work[c])
      BY LenProperties, WorkTypes
    <3>3. QED
      BY <3>1, <3>2 DEF Range
  <2>4. Unsent(c)
    BY DEF Unsent
  <2>5. ASSUME NEW e \in Event, status'[e] # status[e] PROVE Decided(c, e)
    <3>1. status[e] = "pending" /\ e \in Range(work[c]) /\ status'[e] \in {"failed", "rejected"}
      BY <2>2, <2>3, <2>5
    <3>2. QED
      BY <2>4, <3>1 DEF Decided
  <2>6. ASSUME NEW e \in Range(work[c]) PROVE status'[e] # "pending"
    BY <1>1, <2>2
  <2>7. Answered(c)
    <3>1. \A e \in Event : status'[e] = "ok" => status[e] = "ok"
      BY <2>2
    <3>2. QED
      BY <3>1 DEF Answered
  <2>8. pc[c] \in Busy
    BY DEF Busy
  <2>9. Agree(c)
    BY <2>2, <2>3 DEF Agree, Agreed
  <2>10. QED
    BY <2>1, <2>5, <2>6, <2>7, <2>8, <2>9 DEF Ends
<1>3. CASE ~LastAttempt(c)
  <2>1. /\ work' = [work EXCEPT ![c] = kept] /\ pc' = [pc EXCEPT ![c] = "number"]
        /\ status' = outcomes /\ reply' = [reply EXCEPT ![c] = "none"]
    BY <1>3 DEF RetryOrGiveUp, ClearAttempt
  <2>2. work'[c] = kept /\ pc'[c] = "number" /\ Alike(c)
    BY <2>1 DEF TypeOK, Alike
  <2>3. \A e \in Event :
          /\ status'[e] = status[e] \/ (/\ status[e] = "pending" /\ status'[e] = "rejected"
                                        /\ e \in Range(work[c]) \ Range(kept))
          /\ e \in Range(work[c]) \ Range(kept) => status'[e] # "pending"
    BY <2>1
  <2>4. QED
    BY <1>1, <2>2, <2>3 DEF Retries
<1>4. QED
  BY <1>2, <1>3

LEMMA FlusherForms ==
  ASSUME TypeOK, Places, NEW c \in Writer, FlusherStep(c)
  PROVE  Takes(c) \/ Proceeds(c) \/ Stores(c) \/ Ends(c) \/ Retries(c)
<1>1. Staged(c)
  BY DEF Places
<1>2. CASE TakeBatch(c)
  BY <1>2 DEF TakeBatch, Takes, Alike, TypeOK, futures
<1>3. CASE Stop(c)
  <2>1. pc' = [pc EXCEPT ![c] = "stopped"] /\ pc[c] = "waiting" /\ pending[c] = <<>>
        /\ UNCHANGED <<log, pending, arrivals, work, seq, status, reply>>
    BY <1>3 DEF Stop, Drained, futures
  <2>2. QED
    BY <2>1 DEF Proceeds, Alike, Loses, Unsent, Busy, TypeOK
<1>4. CASE NextNumber(c) \/ HandleLost(c) \/ ReadCommit(c)
  <2>1. /\ UNCHANGED <<log, pending, arrivals, work, seq, status, reply>>
        /\ \/ pc[c] = "number" /\ pc' = [pc EXCEPT ![c] = "put"]
           \/ pc[c] = "reply" /\ reply[c] = "lost" /\ pc' = [pc EXCEPT ![c] = "advance"]
           \/ UNCHANGED pc
    BY <1>4 DEF NextNumber, HandleLost, ReadCommit, futures
  <2>2. Loses(c) /\ Alike(c)
    BY <2>1 DEF Alike, Loses, TypeOK
  <2>3. \/ pc'[c] = pc[c]
        \/ pc[c] = "number" /\ pc'[c] = "put"
        \/ pc[c] = "reply" /\ reply[c] = "lost" /\ pc'[c] = "advance"
    BY <2>1 DEF TypeOK
  <2>4. pc[c] = "unstarted" \/ pc'[c] # "stopped" \/ pc[c] = "stopped"
    BY <2>3
  <2>5. pc[c] = "stopped" => pending[c] = <<>>
    BY <1>1 DEF Staged
  <2>6. QED
    BY <2>1, <2>2, <2>3, <2>4, <2>5 DEF Proceeds, Unsent, Busy
<1>5. CASE PutReturns(c)
  <2>1. PICK r \in Reply : Answer(c, r) /\ (UNCHANGED log \/ (/\ Absent(number[c])
                                                              /\ Store(number[c], work[c])
                                                              /\ NoResend => r # "lost"))
    BY <1>5 DEF PutReturns, PutWins, PutLoses, PutConflicts, PutFails, PutRetried, Reply, NoResend
  <2>2. /\ pc[c] = "put" /\ pc' = [pc EXCEPT ![c] = "reply"] /\ reply' = [reply EXCEPT ![c] = r]
        /\ UNCHANGED <<pending, work, arrivals, seq, status>>
    BY <2>1 DEF Answer, futures
  <2>3. pc'[c] = "reply" /\ reply'[c] = r /\ Alike(c)
    BY <2>2 DEF TypeOK, Alike
  <2>4. CASE UNCHANGED log
    BY <2>2, <2>3, <2>4 DEF Proceeds, Loses, Unsent, Busy
  <2>5. CASE /\ Absent(number[c]) /\ Store(number[c], work[c])
             /\ NoResend => r # "lost"
    BY <2>2, <2>3, <2>5 DEF Stores, Unsent
  <2>6. QED
    BY <2>1, <2>4, <2>5
<1>6. CASE HandleWon(c)
  <2>1. /\ pc[c] = "reply" /\ reply[c] = "won"
        /\ EndBatch(c, Settle(Reached(Range(work[c]), work[c]), work[c], "ok"))
        /\ UNCHANGED <<log, pending, arrivals>> /\ Answered(c)
    BY <1>6 DEF HandleWon, Answered
  <2>2. QED
    BY <2>1, SettledEnds DEF Busy
<1>7. CASE HandleError(c)
  <2> DEFINE E == Reached(Range(work[c]), work[c])
  <2>1. /\ pc[c] = "reply" /\ EndBatch(c, Settle(E, work[c], "error"))
        /\ UNCHANGED <<log, pending, arrivals, seq>>
    BY <1>7 DEF HandleError
  <2>2. status' = Settle(E, work[c], "error")
    BY <2>1, EndBatchForm
  <2>3. Answered(c)
    BY <2>1, <2>2, SettleForm DEF Answered
  <2>4. QED
    BY <2>1, <2>3, SettledEnds DEF Busy
<1>8. CASE BackOff(c)
  BY <1>1, <1>8, RetryForm, SelectsItself, WorkTypes DEF BackOff, TypeOK, Staged, Busy
<1>9. CASE Advance(c)
  <2>1. CASE c \in Revalidating
    <3>1. /\ UNCHANGED <<log, pending, arrivals, work, seq, status, reply>>
          /\ pc[c] = "advance" /\ pc' = [pc EXCEPT ![c] = "revalidate"]
      BY <1>9, <2>1 DEF Advance
    <3>2. QED
      BY <3>1 DEF Proceeds, Alike, Loses, Unsent, Busy, TypeOK
  <2>2. CASE c \notin Revalidating
    BY <1>1, <1>9, <2>2, RetryForm, SelectsItself, WorkTypes DEF Advance, TypeOK, Staged, Busy
  <2>3. QED
    BY <2>1, <2>2
<1>10. CASE Revalidate(c)
  <2>1. PICK kept \in Selections(work[c]) : RevalidateTo(c, kept)
    BY <1>10 DEF Revalidate
  <2> DEFINE outcomes == [e \in Event |->
               IF e \in Range(work[c]) \ Range(kept) /\ status[e] = "pending"
                 THEN "rejected" ELSE status[e]]
  <2>2. /\ pc[c] = "revalidate" /\ UNCHANGED <<log, pending, arrivals, seq>>
        /\ IF kept = <<>> THEN EndBatch(c, outcomes)
           ELSE RetryOrGiveUp(c, kept, outcomes)
    BY <2>1 DEF RevalidateTo, Kept
  <2>3. kept \in Seq(Event) /\ Selected(kept, work[c])
    BY SelectionsSelect, WorkTypes
  <2>4. /\ outcomes \in [Event -> Status]
        /\ \A e \in Event : IF e \in Range(work[c]) \ Range(kept) /\ status[e] = "pending"
                            THEN outcomes[e] = "rejected" ELSE outcomes[e] = status[e]
    BY DEF TypeOK, Status
  <2> HIDE DEF outcomes
  <2>5. CASE kept # <<>>
    BY <1>1, <2>2, <2>3, <2>4, <2>5, RetryForm DEF Staged, Busy
  <2>6. CASE kept = <<>>
    <3>1. /\ pc'[c] = "waiting" /\ work'[c] = <<>> /\ status' = outcomes /\ Alike(c)
      BY <2>2, <2>6, EndBatchForm
    <3>2. Range(kept) = {}
      BY <2>6 DEF Range
    <3>3. ASSUME NEW e \in Event, status'[e] # status[e] PROVE Decided(c, e)
      BY <2>2, <2>4, <3>1, <3>3 DEF Decided, Unsent
    <3>4. \A e \in Range(work[c]) : status'[e] # "pending"
      BY <2>4, <3>1, <3>2, WorkTypes
    <3>5. Answered(c)
      BY <2>2, <2>4, <3>1 DEF Answered
    <3>6. Agree(c)
      BY <2>4, <3>1 DEF Agree, Agreed
    <3>7. QED
      BY <2>2, <3>1, <3>3, <3>4, <3>5, <3>6 DEF Ends, Busy
  <2>7. QED
    BY <2>5, <2>6
<1>11. CASE RevalidateCancelled(c)
  <2>1. PICK rejected \in SUBSET Range(work[c]) : RejectCancelled(c, rejected)
    BY <1>11 DEF RevalidateCancelled
  <2> DEFINE E == Reached(rejected, work[c])
  <2>2. /\ pc[c] = "revalidate" /\ EndBatch(c, Settle(E, work[c], "rejected"))
        /\ UNCHANGED <<log, pending, arrivals, seq>>
    BY <2>1 DEF RejectCancelled
  <2>3. status' = Settle(E, work[c], "rejected")
    BY <2>2, EndBatchForm
  <2> HIDE DEF E
  <2>4. Answered(c)
    BY <2>2, <2>3, SettleForm DEF Answered
  <2>5. QED
    BY <2>2, <2>4, SettledEnds DEF Busy, Unsent
<1>12. CASE UnexpectedError(c)
  <2>1. /\ pc[c] \in {"number", "advance", "revalidate"}
        /\ EndBatch(c, Settle({}, work[c], "failed"))
        /\ UNCHANGED <<log, pending, arrivals, seq>>
    BY <1>12 DEF UnexpectedError
  <2>2. status' = Settle({}, work[c], "failed")
    BY <2>1, EndBatchForm
  <2>3. Answered(c)
    BY <2>1, <2>2, SettleForm DEF Answered
  <2>4. QED
    BY <2>1, <2>3, SettledEnds DEF Busy, Unsent
<1>13. QED
  BY <1>2, <1>3, <1>4, <1>5, <1>6, <1>7, <1>8, <1>9, <1>10, <1>11, <1>12
     DEF FlusherStep, ProtocolStep

LEMMA CallForms ==
  ASSUME TypeOK, NEW c \in Writer,
         Close(c) \/ CancelClose(c) \/ Crash(c) \/ Straggle(c)
  PROVE  Proceeds(c) \/ Stores(c)
<1>1. CASE Close(c)
  <2>1. /\ UNCHANGED <<log, pending, arrivals, work, seq, status, reply>>
        /\ pc' = [pc EXCEPT ![c] = IF @ = "unstarted" THEN "stopped" ELSE @]
        /\ pc[c] \notin Ended
    BY <1>1 DEF Close, futures
  <2>2. QED
    BY <2>1 DEF Proceeds, Alike, Loses, Unsent, Busy, TypeOK, Ended
<1>2. CASE CancelClose(c)
  <2>1. /\ UNCHANGED <<log, pending, arrivals, work, seq, status, reply>>
        /\ pc' = [pc EXCEPT ![c] = IF @ = "put" THEN "inflight" ELSE "killed"]
    BY <1>2 DEF CancelClose, futures
  <2>2. QED
    BY <2>1 DEF Proceeds, Alike, Loses, Unsent, Busy, TypeOK
<1>3. CASE Crash(c)
  <2>1. /\ UNCHANGED <<log, pending, arrivals, work, seq, reply>>
        /\ pc' = [pc EXCEPT ![c] = IF @ = "put" THEN "inflight" ELSE "crashed"]
        /\ Loses(c)
    BY <1>3 DEF Crash, Loses
  <2>2. QED
    BY <2>1 DEF Proceeds, Alike, Unsent, Busy, TypeOK
<1>4. CASE Straggle(c)
  <2>1. /\ UNCHANGED <<pending, arrivals, work, seq, status, reply>>
        /\ pc' = [pc EXCEPT ![c] = "crashed"] /\ pc[c] = "inflight"
        /\ UNCHANGED log \/ (Absent(number[c]) /\ Store(number[c], work[c]))
    BY <1>4 DEF Straggle, futures
  <2>2. pc'[c] = "crashed" /\ Alike(c)
    BY <2>1 DEF TypeOK, Alike
  <2>3. CASE UNCHANGED log
    BY <2>1, <2>2, <2>3 DEF Proceeds, Loses, Unsent, Busy
  <2>4. CASE Absent(number[c]) /\ Store(number[c], work[c])
    BY <2>1, <2>2, <2>4 DEF Stores, Unsent
  <2>5. QED
    BY <2>1, <2>3, <2>4
<1>5. QED
  BY <1>1, <1>2, <1>3, <1>4

LEMMA StepForms ==
  ASSUME TypeOK, Places, [Next]_vars
  PROVE  \/ \E c \in Writer :
              \/ Takes(c) \/ Proceeds(c) \/ Stores(c) \/ Ends(c) \/ Retries(c)
              \/ \E a \in Call : Joins(c, a)
         \/ TurnsAway
<1>1. ASSUME NEW c \in Writer, NEW a \in Call, AppendMany(c, a) PROVE Joins(c, a)
  BY <1>1 DEF AppendMany, Joins, Alike, TypeOK
<1>2. ASSUME NEW c \in Writer, NEW a \in Call, RefuseAppend(c, a) PROVE TurnsAway
  BY <1>2 DEF RefuseAppend, TurnsAway, flusher
<1>3. ASSUME NEW a \in Call, CancelAppend(a) PROVE TurnsAway
  BY <1>3 DEF CancelAppend, TurnsAway, NoCancel, flusher
<1>4. UNCHANGED vars => TurnsAway
  BY DEF vars, flusher, futures, TurnsAway
<1>5. QED
  BY <1>1, <1>2, <1>3, <1>4, FlusherForms, CallForms DEF Next, Terminated

-----------------------------------------------------------------------------
(* Taking a batch off the queue divides it in two.                           *)
LEMMA BatchFacts ==
  ASSUME NEW q \in Seq(Event), q # <<>>
  PROVE  \E size \in 1..Len(q) :
           /\ Len(q) \in Nat /\ size <= MaxEvents
           /\ Len(BatchOf(q)) = size /\ Len(Rest(q)) = Len(q) - size
           /\ \A i \in 1..size : BatchOf(q)[i] = q[i]
           /\ \A i \in 1..(Len(q) - size) : Rest(q)[i] = q[size + i]
<1> DEFINE size == Min({Len(q), MaxEvents})
<1>1. Len(q) \in Nat /\ Len(q) # 0 /\ MaxEvents \in Nat /\ MaxEvents >= 1
  BY LenProperties, ConfigAssumption, EmptySeq
<1>2. size \in 1..Len(q) /\ size <= MaxEvents
  BY <1>1, MinOfTwo
<1>3. BatchOf(q) = SubSeq(q, 1, size) /\ Rest(q) = SubSeq(q, size + 1, Len(q))
  BY DEF BatchOf, Rest
<1> HIDE DEF size
<1>4. \A i \in 1..Len(q) : q[i] \in Event
  BY ElementOfSeq
<1>5. /\ size \in Int /\ size + 1 \in Int /\ 1 \in Int /\ Len(q) \in Int
      /\ \A i \in 1..size : q[i] \in Event
      /\ \A i \in size + 1 .. Len(q) : q[i] \in Event
  BY <1>1, <1>2, <1>4
<1>6. /\ Len(SubSeq(q, 1, size)) = IF 1 <= size THEN size - 1 + 1 ELSE 0
      /\ \A i \in 1 .. size - 1 + 1 : SubSeq(q, 1, size)[i] = q[1 + i - 1]
  BY <1>5, SubSeqProperties
<1>7. /\ Len(SubSeq(q, size + 1, Len(q))) =
           IF size + 1 <= Len(q) THEN Len(q) - (size + 1) + 1 ELSE 0
      /\ \A i \in 1 .. Len(q) - (size + 1) + 1 :
           SubSeq(q, size + 1, Len(q))[i] = q[size + 1 + i - 1]
  BY <1>5, SubSeqProperties
<1>8. Len(BatchOf(q)) = size /\ \A i \in 1..size : BatchOf(q)[i] = q[i]
  BY <1>2, <1>3, <1>6
<1>9. Len(Rest(q)) = Len(q) - size /\ \A i \in 1..(Len(q) - size) : Rest(q)[i] = q[size + i]
  BY <1>1, <1>2, <1>3, <1>7
<1>10. QED
  BY <1>1, <1>2, <1>8, <1>9

(* Futures leave "new" for good, and nobody comes back to wait.              *)
StatusMoves ==
  \A e \in Event : status[e] # "new" =>
    status'[e] # "new" /\ (status'[e] = "pending" => status[e] = "pending")

LEMMA PlacesFrame ==
  ASSUME TypeOK, Places, NEW c \in Writer, Alike(c), StatusMoves, arrivals'[c] = arrivals[c],
         Queued(c)', Batched(c)', Sized(c)', Staged(c)', Owed(c)'
  PROVE  Places'
<1>1. \A d \in Writer : arrivals'[d] = arrivals[d]
  BY DEF Alike
<1>2. \A d \in Writer : \A k \in DOMAIN arrivals[d] :
        arrivals[d][k] \in Event /\ status[arrivals[d][k]] # "new"
  BY WorkTypes, ElementOfSeq DEF Places, Submitted
<1>3. Once'
  BY <1>1 DEF Places, Once
<1>4. Submitted'
  BY <1>1, <1>2 DEF Submitted, StatusMoves
<1>5. ASSUME NEW d \in Writer, d # c
      PROVE  Queued(d)' /\ Batched(d)' /\ Sized(d)' /\ Staged(d)' /\ Owed(d)'
  <2>1. /\ pending'[d] = pending[d] /\ arrivals'[d] = arrivals[d] /\ work'[d] = work[d]
        /\ pc'[d] = pc[d]
    BY <1>5 DEF Alike
  <2>2. Queued(d) /\ Batched(d) /\ Sized(d) /\ Staged(d) /\ Owed(d)
    BY DEF Places
  <2>3. Queued(d)' /\ Sized(d)' /\ Staged(d)'
    BY <2>1, <2>2 DEF Queued, Sized, Staged, Taken
  <2>4. Batched(d)'
    BY <2>1, <2>2 DEF Batched, Taken
  <2>5. Owed(d)'
    BY <1>2, <2>1, <2>2 DEF Owed, HeldBy, StatusMoves
  <2>6. QED
    BY <2>3, <2>4, <2>5
<1>6. QED
  BY <1>3, <1>4, <1>5 DEF Places

LEMMA TakesPlaces ==
  ASSUME TypeOK, Places, NEW c \in Writer, Takes(c)
  PROVE  Places'
<1>1. /\ pc[c] = "waiting" /\ pending[c] # <<>> /\ pc'[c] = "number"
      /\ work'[c] = BatchOf(pending[c]) /\ pending'[c] = Rest(pending[c])
      /\ arrivals'[c] = arrivals[c] /\ UNCHANGED status /\ Alike(c)
  BY DEF Takes
<1>2. /\ Len(pending[c]) \in Nat /\ Len(arrivals[c]) \in Nat
      /\ DOMAIN pending[c] = 1..Len(pending[c]) /\ DOMAIN arrivals[c] = 1..Len(arrivals[c])
      /\ pending[c] \in Seq(Event)
  BY WorkTypes
<1>3. PICK size \in 1..Len(pending[c]) :
        /\ Len(work'[c]) = size /\ Len(pending'[c]) = Len(pending[c]) - size
        /\ size <= MaxEvents
        /\ \A i \in 1..size : work'[c][i] = pending[c][i]
        /\ \A i \in 1..(Len(pending[c]) - size) : pending'[c][i] = pending[c][size + i]
  BY <1>1, <1>2, BatchFacts
<1>4. Len(pending[c]) <= Len(arrivals[c])
      /\ \A i \in 1..Len(pending[c]) : pending[c][i] = arrivals[c][Taken(c) + i]
  BY <1>2 DEF Places, Queued
<1>5. work'[c] \in Seq(Event) /\ pending'[c] \in Seq(Event)
  BY <1>1, <1>2, BatchTypes
<1>6. /\ DOMAIN work'[c] = 1..size /\ DOMAIN pending'[c] = 1..(Len(pending[c]) - size)
  BY <1>3, <1>5, LenProperties
<1>7. /\ Taken(c) \in Nat /\ Taken(c)' = Taken(c) + size /\ Taken(c)' \in Nat
      /\ Taken(c) + Len(pending[c]) = Len(arrivals[c])
  BY <1>1, <1>2, <1>3, <1>4 DEF Taken
<1>8. Queued(c)'
  <2>1. \A i \in 1..(Len(pending[c]) - size) : pending'[c][i] = arrivals'[c][Taken(c)' + i]
    BY <1>1, <1>2, <1>3, <1>4, <1>7
  <2>2. QED
    BY <1>1, <1>2, <1>3, <1>4, <1>6, <2>1 DEF Queued
<1>9. Batched(c)'
  <2> DEFINE f == [i \in 1..size |-> Taken(c) + i]
  <2>1. f \in [1..size -> 1..Taken(c)'] /\ Ordered(f, size)
    BY <1>2, <1>7 DEF Ordered
  <2>2. \A i \in 1..size : work'[c][i] = arrivals'[c][f[i]]
    BY <1>1, <1>2, <1>3, <1>4
  <2> HIDE DEF f
  <2>3. QED
    BY <1>3, <2>1, <2>2 DEF Batched, Picks
<1>10. Staged(c)'
  <2>1. work'[c] # <<>>
    BY <1>3, EmptySeq
  <2>2. QED
    BY <1>1, <2>1 DEF Staged
<1>11. Owed(c)'
  <2>1. work[c] = <<>>
    BY <1>1 DEF Places, Staged
  <2>2. Range(work[c]) = {}
    BY <2>1 DEF Range
  <2>3. ASSUME NEW i \in 1..Len(pending[c])
        PROVE  pending[c][i] \in Range(work'[c]) \cup Range(pending'[c])
    <3>1. CASE i <= size
      <4>1. i \in 1..size
        BY <3>1
      <4>2. work'[c][i] = pending[c][i] /\ i \in DOMAIN work'[c]
        BY <1>3, <1>6, <4>1
      <4>3. QED
        BY <4>2 DEF Range
    <3>2. CASE i > size
      <4>1. i - size \in 1..(Len(pending[c]) - size) /\ size + (i - size) = i
        BY <1>2, <3>2
      <4>2. pending'[c][i - size] = pending[c][i]
        BY <1>3, <4>1
      <4>3. QED
        BY <1>6, <4>1, <4>2 DEF Range
    <3>3. QED
      BY <1>2, <3>1, <3>2
  <2>4. Range(pending[c]) \subseteq Range(work'[c]) \cup Range(pending'[c])
    BY <1>2, <2>3 DEF Range
  <2>5. QED
    BY <1>1, <2>2, <2>4 DEF Places, Owed, HeldBy
<1>12. StatusMoves
  BY <1>1 DEF StatusMoves
<1>13. Sized(c)'
  BY <1>3 DEF Sized
<1>14. QED
  BY <1>1, <1>8, <1>9, <1>10, <1>11, <1>12, <1>13, PlacesFrame

LEMMA ProceedsPlaces ==
  ASSUME TypeOK, Places, NEW c \in Writer, Proceeds(c) \/ Stores(c)
  PROVE  Places'
<1>1. UNCHANGED <<pending, arrivals, work>> /\ Alike(c) /\ Loses(c)
  BY DEF Proceeds, Stores, Loses
<1>2. StatusMoves
  BY <1>1 DEF Loses, StatusMoves
<1>3. Queued(c)' /\ Batched(c)' /\ Sized(c)'
  <2>1. Queued(c) /\ Batched(c) /\ Sized(c)
    BY DEF Places
  <2>2. QED
    BY <1>1, <2>1 DEF Queued, Batched, Sized, Taken
<1>4. Staged(c)'
  <2>1. Staged(c)
    BY DEF Places
  <2>2. CASE Proceeds(c)
    <3>1. /\ pc'[c] \in Busy \cup {"inflight"} => pc[c] \in Busy \cup {"inflight"}
          /\ pc'[c] \in {"unstarted", "waiting"} => pc'[c] = pc[c]
          /\ pc'[c] = "stopped" => pc[c] = "unstarted" \/ pending[c] = <<>>
          /\ pc'[c] = "stopped" => pc[c] \in {"unstarted", "waiting", "stopped"}
      BY <2>2 DEF Proceeds
    <3>2. arrivals[c] = <<>> => pending[c] = <<>>
      <4>1. Len(pending[c]) <= Len(arrivals[c]) /\ Len(pending[c]) \in Nat
            /\ pending[c] \in Seq(Event)
        BY WorkTypes DEF Places, Queued
      <4>2. QED
        BY <4>1, EmptySeq
    <3>3. QED
      BY <1>1, <2>1, <3>1, <3>2 DEF Staged
  <2>3. CASE Stores(c)
    BY <1>1, <2>1, <2>3 DEF Staged, Stores, Busy
  <2>4. QED
    BY <2>2, <2>3
<1>5. Owed(c)'
  <2>1. \A k \in DOMAIN arrivals[c] :
          arrivals[c][k] \in Event /\ status[arrivals[c][k]] # "new"
    BY WorkTypes, ElementOfSeq DEF Places, Submitted
  <2>2. QED
    BY <1>1, <1>2, <2>1 DEF Places, Owed, HeldBy, StatusMoves
<1>6. QED
  BY <1>1, <1>2, <1>3, <1>4, <1>5, PlacesFrame

LEMMA EndsPlaces ==
  ASSUME TypeOK, Places, NEW c \in Writer, Ends(c)
  PROVE  Places'
<1>1. /\ pc'[c] = "waiting" /\ work'[c] = <<>> /\ UNCHANGED <<pending, arrivals>> /\ Alike(c)
      /\ \A e \in Event : status'[e] = status[e] \/ Decided(c, e)
      /\ \A e \in Range(work[c]) : status'[e] # "pending"
  BY DEF Ends
<1>2. StatusMoves
  BY <1>1 DEF Decided, StatusMoves
<1>3. Queued(c)'
  <2>1. Queued(c)
    BY DEF Places
  <2>2. QED
    BY <1>1, <2>1 DEF Queued, Taken
<1>4. Batched(c)'
  <2>1. Len(<<>>) = 0
    BY EmptySeq
  <2>2. Picks(work'[c], arrivals'[c], Taken(c)')
    BY <1>1, <2>1, NothingPicked
  <2>3. QED
    BY <1>1, <2>2 DEF Batched
<1>5. Staged(c)' /\ Sized(c)'
  <2>1. Len(<<>>) <= MaxEvents
    BY EmptySeq, ConfigAssumption
  <2>2. QED
    BY <1>1, <2>1 DEF Staged, Sized, Busy
<1>6. Owed(c)'
  <2>1. \A k \in DOMAIN arrivals[c] :
          arrivals[c][k] \in Event /\ status[arrivals[c][k]] # "new"
    BY WorkTypes, ElementOfSeq DEF Places, Submitted
  <2>2. QED
    BY <1>1, <1>2, <2>1 DEF Places, Owed, HeldBy, StatusMoves
<1>7. QED
  BY <1>1, <1>2, <1>3, <1>4, <1>5, <1>6, PlacesFrame

LEMMA SelectedIsShorter ==
  ASSUME NEW events \in Seq(Event), NEW kept \in Seq(Event), Selected(kept, events)
  PROVE  Len(kept) <= Len(events)
<1> DEFINE n == Len(kept)
           m == Len(events)
<1>1. n \in Nat /\ m \in Nat
  BY LenProperties
<1>2. PICK f \in [1..n -> 1..m] : Ordered(f, n)
  BY DEF Selected, Picks
<1>3. \A i \in 1..n : f[i] \in Int
  BY <1>1, <1>2
<1> HIDE DEF n, m
<1>4. ASSUME NEW i \in 1..n, NEW j \in 1..n, f[i] = f[j] PROVE i = j
  <2>1. ~(i < j) /\ ~(j < i)
    <3>1. (i < j => f[i] < f[j]) /\ (j < i => f[j] < f[i])
      BY <1>2 DEF Ordered
    <3>2. f[i] \in Int /\ f[j] = f[i]
      BY <1>3, <1>4
    <3>3. QED
      BY <3>1, <3>2
  <2>2. QED
    BY <1>1, <2>1
<1>5. f \in Injection(1..n, 1..m)
  BY <1>2, <1>4 DEF Injection, IsInjective
<1>6. IsFiniteSet(1..m) /\ Cardinality(1..m) = m /\ Cardinality(1..n) = n
  <2>1. \A x \in Nat : Cardinality(1..x) = x /\ IsFiniteSet(1..x)
    <3>1. ASSUME NEW x \in Nat PROVE Cardinality(1..x) = x /\ IsFiniteSet(1..x)
      <4>1. Cardinality(1..x) = (IF 1 > x THEN 0 ELSE x - 1 + 1) /\ IsFiniteSet(1..x)
        BY FS_Interval
      <4>2. QED
        BY <4>1
    <3>2. QED
      BY <3>1
  <2>2. QED
    BY <1>1, <2>1
<1>7. QED
  BY <1>5, <1>6, FS_Injection DEF n, m

LEMMA RetriesPlaces ==
  ASSUME TypeOK, TypeOK', Places, NEW c \in Writer, Retries(c)
  PROVE  Places'
<1>1. /\ pc'[c] = "number" /\ work'[c] # <<>> /\ UNCHANGED <<pending, arrivals>> /\ Alike(c)
      /\ Selected(work'[c], work[c])
      /\ \A e \in Event : \/ status'[e] = status[e]
                          \/ status[e] = "pending" /\ status'[e] = "rejected"
      /\ \A e \in Range(work[c]) \ Range(work'[c]) : status'[e] # "pending"
  BY DEF Retries
<1>2. StatusMoves
  BY <1>1 DEF StatusMoves
<1>3. Queued(c)'
  <2>1. Queued(c)
    BY DEF Places
  <2>2. QED
    BY <1>1, <2>1 DEF Queued, Taken
<1>4. Batched(c)'
  <2>1. PICK g \in [1..Len(work'[c]) -> 1..Len(work[c])] :
          /\ Ordered(g, Len(work'[c]))
          /\ \A i \in 1..Len(work'[c]) : work'[c][i] = work[c][g[i]]
    BY <1>1 DEF Selected, Picks
  <2>2. PICK f \in [1..Len(work[c]) -> 1..Taken(c)] :
          /\ Ordered(f, Len(work[c]))
          /\ \A i \in 1..Len(work[c]) : work[c][i] = arrivals[c][f[i]]
    BY DEF Places, Batched, Picks
  <2> DEFINE h == [i \in 1..Len(work'[c]) |-> f[g[i]]]
  <2>3. h \in [1..Len(work'[c]) -> 1..Taken(c)] /\ Ordered(h, Len(work'[c]))
    BY <2>1, <2>2 DEF Ordered
  <2>4. \A i \in 1..Len(work'[c]) : work'[c][i] = arrivals[c][h[i]]
    BY <2>1, <2>2
  <2> HIDE DEF h
  <2>5. Taken(c)' = Taken(c) /\ arrivals'[c] = arrivals[c]
    BY <1>1 DEF Taken
  <2>6. QED
    BY <2>3, <2>4, <2>5 DEF Batched, Picks
<1>5. Staged(c)' /\ Sized(c)'
  <2>1. Len(work'[c]) <= Len(work[c]) /\ Len(work'[c]) \in Nat
    BY <1>1, SelectedIsShorter, WorkTypes, LenProperties DEF TypeOK
  <2>2. Len(work[c]) <= MaxEvents /\ Len(work[c]) \in Nat /\ MaxEvents \in Nat
    BY WorkTypes, ConfigAssumption DEF Places, Sized
  <2>3. QED
    BY <1>1, <2>1, <2>2 DEF Staged, Sized
<1>6. Owed(c)'
  <2>1. \A k \in DOMAIN arrivals[c] :
          arrivals[c][k] \in Event /\ status[arrivals[c][k]] # "new"
    BY WorkTypes, ElementOfSeq DEF Places, Submitted
  <2>2. QED
    BY <1>1, <1>2, <2>1 DEF Places, Owed, HeldBy, StatusMoves
<1>7. QED
  BY <1>1, <1>2, <1>3, <1>4, <1>5, <1>6, PlacesFrame

(* What is in a concatenation. *)
LEMMA ConcatFacts ==
  ASSUME NEW s \in Seq(Event), NEW t \in Seq(Event)
  PROVE  /\ s \o t \in Seq(Event) /\ Len(s \o t) = Len(s) + Len(t)
         /\ Len(s) \in Nat /\ Len(t) \in Nat
         /\ DOMAIN s = 1..Len(s) /\ DOMAIN t = 1..Len(t)
         /\ DOMAIN (s \o t) = 1..(Len(s) + Len(t))
         /\ \A i \in 1..Len(s) : (s \o t)[i] = s[i]
         /\ \A i \in 1..Len(t) : (s \o t)[Len(s) + i] = t[i]
<1>1. /\ s \o t \in Seq(Event) /\ Len(s \o t) = Len(s) + Len(t)
      /\ \A i \in 1..Len(s) + Len(t) :
           (s \o t)[i] = IF i <= Len(s) THEN s[i] ELSE t[i - Len(s)]
  BY ConcatProperties
<1>2. Len(s) \in Nat /\ Len(t) \in Nat /\ DOMAIN s = 1..Len(s) /\ DOMAIN t = 1..Len(t)
  BY LenProperties
<1>3. DOMAIN (s \o t) = 1..(Len(s) + Len(t))
  BY <1>1, LenProperties
<1>4. \A i \in 1..Len(s) : (s \o t)[i] = s[i]
  BY <1>1, <1>2
<1>5. \A i \in 1..Len(t) : (s \o t)[Len(s) + i] = t[i]
  BY <1>1, <1>2
<1>6. QED
  BY <1>1, <1>2, <1>3, <1>4, <1>5

LEMMA JoinsOnce ==
  ASSUME TypeOK, Places, NEW c \in Writer, NEW a \in Call, Joins(c, a)
  PROVE  Once'
<1>1. /\ \A e \in Range(EventsOf[a]) : status[e] = "new"
      /\ arrivals'[c] = arrivals[c] \o EventsOf[a]
      /\ \A d \in Writer \ {c} : arrivals'[d] = arrivals[d]
  BY DEF Joins, Alike
<1>2. EventsOf[a] \in Seq(Event) /\ arrivals[c] \in Seq(Event)
  BY EventAssumption, WorkTypes
<1> DEFINE m == Len(arrivals[c])
           n == Len(EventsOf[a])
<1>3. /\ m \in Nat /\ n \in Nat /\ DOMAIN arrivals[c] = 1..m /\ DOMAIN EventsOf[a] = 1..n
      /\ DOMAIN arrivals'[c] = 1..(m + n)
      /\ \A i \in 1..m : arrivals'[c][i] = arrivals[c][i]
      /\ \A i \in 1..n : arrivals'[c][m + i] = EventsOf[a][i]
  <2>1. LET s == arrivals[c]
            t == EventsOf[a]
        IN /\ Len(s) \in Nat /\ Len(t) \in Nat
           /\ DOMAIN s = 1..Len(s) /\ DOMAIN t = 1..Len(t)
           /\ DOMAIN (s \o t) = 1..(Len(s) + Len(t))
           /\ \A i \in 1..Len(s) : (s \o t)[i] = s[i]
           /\ \A i \in 1..Len(t) : (s \o t)[Len(s) + i] = t[i]
    BY <1>2, ConcatFacts
  <2>2. QED
    BY <1>1, <2>1
<1> HIDE DEF m, n
<1>4. \A i \in 1..n : status[EventsOf[a][i]] = "new"
  BY <1>1, <1>3 DEF Range
<1>5. \A i, j \in 1..n : EventsOf[a][i] = EventsOf[a][j] => i = j
  BY <1>3, CallAssumption
<1>6. ASSUME NEW k \in DOMAIN arrivals'[c], k \notin 1..m
      PROVE  k - m \in 1..n /\ arrivals'[c][k] = EventsOf[a][k - m]
             /\ status[arrivals'[c][k]] = "new"
  <2>1. k - m \in 1..n /\ m + (k - m) = k
    BY <1>3, <1>6
  <2>2. QED
    BY <1>3, <1>4, <2>1
<1>7. ASSUME NEW d \in Writer, NEW k \in DOMAIN arrivals'[d], d = c => k \in 1..m
      PROVE  /\ k \in DOMAIN arrivals[d] /\ arrivals'[d][k] = arrivals[d][k]
             /\ status[arrivals'[d][k]] # "new"
  <2>1. k \in DOMAIN arrivals[d] /\ arrivals'[d][k] = arrivals[d][k]
    BY <1>1, <1>3, <1>7
  <2>2. QED
    BY <2>1 DEF Places, Submitted
<1>8. ASSUME NEW d1 \in Writer, NEW d2 \in Writer,
             NEW k \in DOMAIN arrivals'[d1], NEW l \in DOMAIN arrivals'[d2],
             arrivals'[d1][k] = arrivals'[d2][l]
      PROVE  d1 = d2 /\ k = l
  <2>1. CASE (d1 = c => k \in 1..m) /\ (d2 = c => l \in 1..m)
    BY <1>7, <1>8, <2>1 DEF Places, Once
  <2>2. CASE (d1 = c /\ k \notin 1..m) /\ (d2 = c => l \in 1..m)
    BY <1>6, <1>7, <1>8, <2>2
  <2>3. CASE (d1 = c => k \in 1..m) /\ (d2 = c /\ l \notin 1..m)
    BY <1>6, <1>7, <1>8, <2>3
  <2>4. CASE (d1 = c /\ k \notin 1..m) /\ (d2 = c /\ l \notin 1..m)
    <3>1. k - m \in 1..n /\ l - m \in 1..n /\ EventsOf[a][k - m] = EventsOf[a][l - m]
      BY <1>6, <1>8, <2>4
    <3>2. k - m = l - m
      BY <1>5, <3>1
    <3>3. k \in Int /\ l \in Int
      BY <1>3, <2>4
    <3>4. k = l
      BY <1>3, <3>2, <3>3
    <3>5. QED
      BY <2>4, <3>4
  <2>5. QED
    BY <2>1, <2>2, <2>3, <2>4
<1>9. QED
  BY <1>8 DEF Once

LEMMA JoinsPlaces ==
  ASSUME TypeOK, Places, NEW c \in Writer, NEW a \in Call, Joins(c, a)
  PROVE  Places'
<1>1. /\ pc[c] \notin Ended \cup {"inflight"}
      /\ pc'[c] = (IF pc[c] = "unstarted" THEN "waiting" ELSE pc[c])
      /\ pending'[c] = pending[c] \o EventsOf[a] /\ arrivals'[c] = arrivals[c] \o EventsOf[a]
      /\ work'[c] = work[c] /\ Alike(c)
      /\ \A e \in Range(EventsOf[a]) : status[e] = "new"
      /\ \A e \in Event : status'[e] = IF e \in Range(EventsOf[a]) THEN "pending" ELSE status[e]
  BY DEF Joins
<1> DEFINE m == Len(arrivals[c])
           n == Len(EventsOf[a])
           q == Len(pending[c])
<1>2. /\ m \in Nat /\ n \in Nat /\ q \in Nat
      /\ DOMAIN arrivals[c] = 1..m /\ DOMAIN EventsOf[a] = 1..n /\ DOMAIN pending[c] = 1..q
      /\ DOMAIN arrivals'[c] = 1..(m + n) /\ Len(arrivals'[c]) = m + n
      /\ \A i \in 1..m : arrivals'[c][i] = arrivals[c][i]
      /\ \A i \in 1..n : arrivals'[c][m + i] = EventsOf[a][i]
      /\ DOMAIN pending'[c] = 1..(q + n) /\ Len(pending'[c]) = q + n
      /\ \A i \in 1..q : pending'[c][i] = pending[c][i]
      /\ \A i \in 1..n : pending'[c][q + i] = EventsOf[a][i]
  <2>1. EventsOf[a] \in Seq(Event) /\ arrivals[c] \in Seq(Event) /\ pending[c] \in Seq(Event)
    BY EventAssumption, WorkTypes
  <2>2. LET s == arrivals[c]
            t == EventsOf[a]
        IN /\ Len(s) \in Nat /\ Len(t) \in Nat /\ Len(s \o t) = Len(s) + Len(t)
           /\ DOMAIN s = 1..Len(s) /\ DOMAIN t = 1..Len(t)
           /\ DOMAIN (s \o t) = 1..(Len(s) + Len(t))
           /\ \A i \in 1..Len(s) : (s \o t)[i] = s[i]
           /\ \A i \in 1..Len(t) : (s \o t)[Len(s) + i] = t[i]
    BY <2>1, ConcatFacts
  <2>3. LET s == pending[c]
            t == EventsOf[a]
        IN /\ Len(s) \in Nat /\ Len(s \o t) = Len(s) + Len(t)
           /\ DOMAIN s = 1..Len(s)
           /\ DOMAIN (s \o t) = 1..(Len(s) + Len(t))
           /\ \A i \in 1..Len(s) : (s \o t)[i] = s[i]
           /\ \A i \in 1..Len(t) : (s \o t)[Len(s) + i] = t[i]
    BY <2>1, ConcatFacts
  <2>4. QED
    BY <1>1, <2>2, <2>3
<1>3. /\ q <= m /\ Taken(c) = m - q
      /\ \A i \in 1..q : pending[c][i] = arrivals[c][m - q + i]
  <2>1. Queued(c) /\ DOMAIN pending[c] = 1..q
    BY <1>2 DEF Places
  <2>2. Taken(c) = m - q
    BY DEF Taken
  <2>3. QED
    BY <2>1, <2>2 DEF Queued
<1>4. Taken(c)' = (m + n) - (q + n)
  BY <1>2 DEF Taken
<1>5. m \in Nat /\ n \in Nat /\ q \in Nat
  BY <1>2
<1> HIDE DEF m, n, q
<1>6. Taken(c)' = m - q
  BY <1>4, <1>5
<1>7. \A k \in DOMAIN arrivals'[c] : k \in 1..m \/ \E j \in 1..n : k = m + j
  <2>1. ASSUME NEW k \in 1..(m + n), k \notin 1..m PROVE k - m \in 1..n /\ k = m + (k - m)
    BY <1>5, <2>1
  <2>2. QED
    BY <1>2, <2>1
<1>8. \A d \in Writer : \A k \in DOMAIN arrivals[d] :
        /\ arrivals[d][k] \in Event /\ status[arrivals[d][k]] # "new"
        /\ status'[arrivals[d][k]] = status[arrivals[d][k]]
  BY <1>1, WorkTypes, ElementOfSeq DEF Places, Submitted
<1>9. \A i \in 1..n : EventsOf[a][i] \in Event /\ status'[EventsOf[a][i]] = "pending"
  <2>1. \A i \in 1..n : EventsOf[a][i] \in Event
    BY <1>2, EventAssumption, ElementOfSeq
  <2>2. QED
    BY <1>1, <1>2, <2>1 DEF Range
<1>10. Submitted'
  <2>1. ASSUME NEW d \in Writer, NEW k \in DOMAIN arrivals'[d]
        PROVE  status'[arrivals'[d][k]] # "new"
    <3>1. CASE d # c
      BY <1>1, <1>8, <3>1 DEF Alike
    <3>2. CASE d = c /\ k \in 1..m
      <4>1. k \in DOMAIN arrivals[c] /\ arrivals'[c][k] = arrivals[c][k]
        BY <1>2, <3>2
      <4>2. QED
        BY <1>8, <3>2, <4>1
    <3>3. CASE d = c /\ k \notin 1..m
      <4>1. PICK j \in 1..n : k = m + j
        BY <1>7, <3>3
      <4>2. arrivals'[c][k] = EventsOf[a][j]
        BY <1>2, <4>1
      <4>3. QED
        BY <1>9, <3>3, <4>2
    <3>4. QED
      BY <3>1, <3>2, <3>3
  <2>2. QED
    BY <2>1 DEF Submitted
<1>11. Queued(c)'
  <2>1. ASSUME NEW i \in 1..(q + n) PROVE pending'[c][i] = arrivals'[c][m - q + i]
    <3>1. CASE i \in 1..q
      <4>1. m - q + i \in 1..m
        BY <1>3, <1>5, <3>1
      <4>2. QED
        BY <1>2, <1>3, <3>1, <4>1
    <3>2. CASE i \notin 1..q
      <4>1. i - q \in 1..n /\ q + (i - q) = i /\ m + (i - q) = m - q + i
        BY <1>5, <3>2
      <4>2. pending'[c][q + (i - q)] = EventsOf[a][i - q]
        BY <1>2, <4>1
      <4>3. arrivals'[c][m + (i - q)] = EventsOf[a][i - q]
        BY <1>2, <4>1
      <4>4. QED
        BY <4>1, <4>2, <4>3
    <3>3. QED
      BY <3>1, <3>2
  <2>2. q + n <= m + n
    BY <1>3, <1>5
  <2>3. QED
    BY <1>2, <1>6, <2>1, <2>2 DEF Queued
<1>12. Batched(c)'
  <2>1. PICK f \in [1..Len(work[c]) -> 1..Taken(c)] :
          /\ Ordered(f, Len(work[c]))
          /\ \A i \in 1..Len(work[c]) : work[c][i] = arrivals[c][f[i]]
    BY DEF Places, Batched, Picks
  <2>2. \A i \in 1..Len(work[c]) : f[i] \in 1..m
    <3>1. 1..(m - q) \subseteq 1..m
      BY <1>5
    <3>2. QED
      BY <1>3, <2>1, <3>1
  <2>3. \A i \in 1..Len(work'[c]) : work'[c][i] = arrivals'[c][f[i]]
    BY <1>1, <1>2, <2>1, <2>2
  <2>4. f \in [1..Len(work'[c]) -> 1..Taken(c)'] /\ Ordered(f, Len(work'[c]))
    BY <1>1, <1>3, <1>6, <2>1
  <2>5. QED
    BY <2>3, <2>4 DEF Batched, Picks
<1>13. Staged(c)' /\ Sized(c)'
  <2>1. Staged(c) /\ Sized(c)
    BY DEF Places
  <2>2. QED
    BY <1>1, <2>1 DEF Staged, Sized, Ended, Busy
<1>14. Owed(c)'
  <2>1. ASSUME NEW k \in DOMAIN arrivals'[c], status'[arrivals'[c][k]] = "pending"
        PROVE  arrivals'[c][k] \in Range(pending'[c]) \cup Range(work'[c])
    <3>1. CASE k \in 1..m
      <4>1. arrivals'[c][k] = arrivals[c][k] /\ arrivals[c][k] \in HeldBy(c)
        <5>1. arrivals'[c][k] = arrivals[c][k] /\ k \in DOMAIN arrivals[c]
          BY <1>2, <3>1
        <5>2. status[arrivals[c][k]] = "pending"
          BY <1>8, <2>1, <5>1
        <5>3. Owed(c)
          BY DEF Places
        <5>4. QED
          BY <5>1, <5>2, <5>3 DEF Owed
      <4>2. Range(pending[c]) \subseteq Range(pending'[c])
        <5>1. 1..q \subseteq 1..(q + n)
          BY <1>2
        <5>2. QED
          BY <1>2, <5>1 DEF Range
      <4>3. QED
        BY <1>1, <4>1, <4>2 DEF HeldBy
    <3>2. CASE k \notin 1..m
      <4>1. PICK j \in 1..n : k = m + j
        BY <1>7, <3>2
      <4>2. q + j \in 1..(q + n)
        BY <1>5
      <4>3. arrivals'[c][k] = pending'[c][q + j]
        BY <1>2, <4>1
      <4>4. QED
        BY <1>2, <4>2, <4>3 DEF Range
    <3>3. QED
      BY <3>1, <3>2
  <2>2. QED
    BY <2>1 DEF Owed, HeldBy
<1>15. ASSUME NEW d \in Writer, d # c
       PROVE  Queued(d)' /\ Batched(d)' /\ Sized(d)' /\ Staged(d)' /\ Owed(d)'
  <2>1. /\ pending'[d] = pending[d] /\ arrivals'[d] = arrivals[d] /\ work'[d] = work[d]
        /\ pc'[d] = pc[d]
    BY <1>1, <1>15 DEF Alike
  <2>2. Queued(d) /\ Batched(d) /\ Sized(d) /\ Staged(d) /\ Owed(d)
    BY DEF Places
  <2>3. Queued(d)' /\ Sized(d)' /\ Staged(d)'
    BY <2>1, <2>2 DEF Queued, Sized, Staged, Taken
  <2>4. Batched(d)'
    BY <2>1, <2>2 DEF Batched, Taken
  <2>5. Owed(d)'
    BY <1>8, <2>1, <2>2 DEF Owed, HeldBy
  <2>6. QED
    BY <2>3, <2>4, <2>5
<1>16. Once'
  BY JoinsOnce
<1>17. QED
  BY <1>10, <1>11, <1>12, <1>13, <1>14, <1>15, <1>16 DEF Places

LEMMA TurnsAwayPlaces ==
  ASSUME TypeOK, Places, TurnsAway
  PROVE  Places'
<1>1. /\ UNCHANGED <<pending, arrivals, work, pc>>
      /\ \A e \in Event : status[e] # "new" =>
           status'[e] # "new" /\ (status'[e] = "pending" => status[e] = "pending")
  BY DEF TurnsAway
<1>2. \A d \in Writer : \A k \in DOMAIN arrivals[d] :
        arrivals[d][k] \in Event /\ status[arrivals[d][k]] # "new"
  BY WorkTypes, ElementOfSeq DEF Places, Submitted
<1>3. Once' /\ Submitted'
  BY <1>1, <1>2 DEF Places, Once, Submitted
<1>4. ASSUME NEW d \in Writer
      PROVE  Queued(d)' /\ Batched(d)' /\ Sized(d)' /\ Staged(d)' /\ Owed(d)'
  <2>1. Queued(d) /\ Batched(d) /\ Sized(d) /\ Staged(d) /\ Owed(d)
    BY DEF Places
  <2>2. Queued(d)' /\ Batched(d)' /\ Sized(d)' /\ Staged(d)'
    BY <1>1, <2>1 DEF Queued, Sized, Staged, Batched, Taken
  <2>3. Owed(d)'
    BY <1>1, <1>2, <2>1 DEF Owed, HeldBy
  <2>4. QED
    BY <2>2, <2>3
<1>5. QED
  BY <1>3, <1>4 DEF Places

LEMMA InitPlaces ==
  ASSUME Init
  PROVE  Places
<1>1. Len(<<>>) = 0 /\ DOMAIN <<>> = {}
  BY EmptySeq
<1>2. ASSUME NEW c \in Writer
      PROVE  Queued(c) /\ Batched(c) /\ Sized(c) /\ Staged(c) /\ Owed(c)
  <2>1. /\ pending[c] = <<>> /\ work[c] = <<>> /\ arrivals[c] = <<>> /\ pc[c] = "unstarted"
    BY DEF Init
  <2>2. Queued(c) /\ Owed(c) /\ Staged(c)
    BY <1>1, <2>1 DEF Queued, Owed, Staged, Busy
  <2>3. Batched(c)
    BY <1>1, <2>1, NothingPicked DEF Batched
  <2>4. Sized(c)
    BY <1>1, <2>1, ConfigAssumption DEF Sized
  <2>5. QED
    BY <2>2, <2>3, <2>4
<1>3. Once /\ Submitted
  BY <1>1 DEF Init, Once, Submitted
<1>4. QED
  BY <1>2, <1>3 DEF Places

LEMMA StepPlaces ==
  ASSUME TypeOK, TypeOK', Places, [Next]_vars
  PROVE  Places'
BY StepForms, TakesPlaces, ProceedsPlaces, EndsPlaces, RetriesPlaces, JoinsPlaces,
   TurnsAwayPlaces

LEMMA AlwaysPlaces == Spec => []Places
<1>1. Init => Places
  BY InitPlaces
<1>2. TypeOK /\ TypeOK' /\ Places /\ [Next]_vars => Places'
  BY StepPlaces
<1>3. QED
  BY <1>1, <1>2, TypeCorrect, PTL DEF Spec

(* close() returns only when nobody waits for an event it took in, whatever  *)
(* failed, was cancelled or died before (committer.py 187-196 and _run).     *)
THEOREM Drains == Spec => []CloseDrains
<1>1. ASSUME TypeOK, Places PROVE CloseDrains
  <2>1. ASSUME NEW c \in Writer, pc[c] = "stopped", NEW e \in Range(arrivals[c])
        PROVE  status[e] # "pending"
    <3>1. Staged(c) /\ Owed(c)
      BY <1>1 DEF Places
    <3>2. work[c] = <<>> /\ pending[c] = <<>>
      BY <2>1, <3>1 DEF Staged
    <3>3. HeldBy(c) = {}
      BY <3>2 DEF HeldBy, Range
    <3>4. PICK k \in DOMAIN arrivals[c] : e = arrivals[c][k]
      BY <2>1 DEF Range
    <3>5. QED
      BY <3>1, <3>3, <3>4 DEF Owed
  <2>2. QED
    BY <2>1 DEF CloseDrains
<1>2. TypeOK /\ Places => CloseDrains
  BY <1>1
<1>3. QED
  BY <1>2, TypeCorrect, AlwaysPlaces, PTL

-----------------------------------------------------------------------------
(* Where the events of the queue, of a batch and of the log come from.       *)
LEMMA TakenFacts ==
  ASSUME TypeOK, Places, NEW c \in Writer
  PROVE  /\ Taken(c) \in Nat /\ 1..Taken(c) \subseteq DOMAIN arrivals[c]
         /\ \A i \in 1..Len(pending[c]) :
              Taken(c) + i \in DOMAIN arrivals[c] /\ pending[c][i] = arrivals[c][Taken(c) + i]
<1> DEFINE m == Len(arrivals[c])
           q == Len(pending[c])
<1>1. /\ m \in Nat /\ q \in Nat /\ DOMAIN arrivals[c] = 1..m /\ DOMAIN pending[c] = 1..q
  BY WorkTypes
<1>2. q <= m /\ Taken(c) = m - q /\ \A i \in 1..q : pending[c][i] = arrivals[c][Taken(c) + i]
  <2>1. Queued(c)
    BY DEF Places
  <2>2. QED
    BY <1>1, <2>1 DEF Queued, Taken
<1> HIDE DEF m, q
<1>3. m - q \in Nat /\ 1..(m - q) \subseteq 1..m /\ \A i \in 1..q : (m - q) + i \in 1..m
  BY <1>1, <1>2
<1>4. QED
  BY <1>1, <1>2, <1>3 DEF q

LEMMA BatchOrigin ==
  ASSUME TypeOK, Places, NEW c \in Writer
  PROVE  \E f \in [1..Len(work[c]) -> 1..Taken(c)] :
           /\ Ordered(f, Len(work[c]))
           /\ \A i \in 1..Len(work[c]) :
                /\ f[i] \in DOMAIN arrivals[c] /\ work[c][i] = arrivals[c][f[i]]
                /\ \A l \in DOMAIN arrivals[c] : work[c][i] = arrivals[c][l] => l = f[i]
<1>1. PICK f \in [1..Len(work[c]) -> 1..Taken(c)] :
        /\ Ordered(f, Len(work[c]))
        /\ \A i \in 1..Len(work[c]) : work[c][i] = arrivals[c][f[i]]
  BY DEF Places, Batched, Picks
<1>2. 1..Taken(c) \subseteq DOMAIN arrivals[c]
  BY TakenFacts
<1>3. \A i \in 1..Len(work[c]) : \A l \in DOMAIN arrivals[c] :
        work[c][i] = arrivals[c][l] => l = f[i]
  BY <1>1, <1>2 DEF Places, Once
<1>4. QED
  BY <1>1, <1>2, <1>3

LEMMA LogOrigin ==
  ASSUME TypeOK, Places, Recorded, NEW c \in Writer, NEW k \in DOMAIN arrivals[c],
         NEW n \in DOMAIN log, NEW i \in DOMAIN log[n], log[n][i] = arrivals[c][k]
  PROVE  k \in 1..Taken(c)
<1>1. log[n][i] # OldEvent
  BY WorkTypes, ElementOfSeq, EventAssumption
<1>2. PICK d \in Writer : \E l \in 1..Taken(d) : log[n][i] = arrivals[d][l]
  BY <1>1 DEF Recorded
<1>3. PICK l \in 1..Taken(d) : log[n][i] = arrivals[d][l]
  BY <1>2
<1>4. l \in DOMAIN arrivals[d]
  BY TakenFacts
<1>5. Once /\ arrivals[d][l] = arrivals[c][k]
  BY <1>3 DEF Places
<1>6. d = c /\ l = k
  BY <1>4, <1>5 DEF Once
<1>7. QED
  BY <1>6, <1>3

(* What was committed stays so, whatever else is taken off the queues.       *)
LEMMA RecordedFrame ==
  ASSUME TypeOK, Places, Recorded,
         \A n \in DOMAIN log' :
           \/ n \in DOMAIN log /\ log'[n] = log[n]
           \/ \E c \in Writer : work[c] # <<>> /\ log'[n] = work[c],
         \A d \in Writer :
           /\ 1..Taken(d) \subseteq 1..Taken(d)'
           /\ \A k \in DOMAIN arrivals[d] : arrivals'[d][k] = arrivals[d][k]
  PROVE  Recorded'
<1>1. \A d \in Writer : 1..Taken(d) \subseteq DOMAIN arrivals[d]
  BY TakenFacts
<1>2. ASSUME NEW n \in DOMAIN log, log'[n] = log[n], NEW i \in DOMAIN log[n]
      PROVE  \/ log'[n][i] = OldEvent
             \/ \E d \in Writer : \E k \in 1..Taken(d)' : log'[n][i] = arrivals'[d][k]
  <2>1. CASE log[n][i] = OldEvent
    BY <1>2, <2>1
  <2>2. ASSUME NEW d \in Writer, NEW k \in 1..Taken(d), log[n][i] = arrivals[d][k]
        PROVE  k \in 1..Taken(d)' /\ log'[n][i] = arrivals'[d][k]
    BY <1>1, <1>2, <2>2
  <2>3. QED
    BY <2>1, <2>2 DEF Recorded
<1>3. ASSUME NEW c \in Writer, NEW i \in DOMAIN work[c]
      PROVE  \E k \in 1..Taken(c)' : work[c][i] = arrivals'[c][k]
  <2>1. PICK f \in [1..Len(work[c]) -> 1..Taken(c)] :
          \A x \in 1..Len(work[c]) : f[x] \in DOMAIN arrivals[c] /\ work[c][x] = arrivals[c][f[x]]
    BY BatchOrigin
  <2>2. i \in 1..Len(work[c])
    BY WorkTypes
  <2>3. /\ f[i] \in 1..Taken(c) /\ f[i] \in DOMAIN arrivals[c]
        /\ work[c][i] = arrivals[c][f[i]]
    BY <2>1, <2>2
  <2>4. f[i] \in 1..Taken(c)' /\ work[c][i] = arrivals'[c][f[i]]
    BY <2>3
  <2>5. QED
    BY <2>4
<1>4. ASSUME NEW n \in DOMAIN log'
      PROVE  /\ log'[n] # <<>>
             /\ \A i \in DOMAIN log'[n] :
                  \/ log'[n][i] = OldEvent
                  \/ \E d \in Writer : \E k \in 1..Taken(d)' : log'[n][i] = arrivals'[d][k]
  <2>1. CASE n \in DOMAIN log /\ log'[n] = log[n]
    BY <1>2, <2>1 DEF Recorded
  <2>2. ASSUME NEW c \in Writer, work[c] # <<>>, log'[n] = work[c]
        PROVE  /\ log'[n] # <<>>
               /\ \A i \in DOMAIN log'[n] :
                    \/ log'[n][i] = OldEvent
                    \/ \E d \in Writer : \E k \in 1..Taken(d)' : log'[n][i] = arrivals'[d][k]
    BY <1>3, <2>2
  <2>3. QED
    BY <2>1, <2>2
<1>5. QED
  BY <1>4 DEF Recorded

(* The queue is taken from, and added to, at its ends.                       *)
LEMMA TakesTaken ==
  ASSUME TypeOK, Places, NEW c \in Writer, Takes(c)
  PROVE  \A d \in Writer : 1..Taken(d) \subseteq 1..Taken(d)'
<1>1. /\ pending[c] # <<>> /\ pending'[c] = Rest(pending[c])
      /\ arrivals'[c] = arrivals[c] /\ Alike(c)
  BY DEF Takes
<1>2. PICK size \in 1..Len(pending[c]) : Len(pending'[c]) = Len(pending[c]) - size
  BY <1>1, WorkTypes, BatchFacts
<1>3. Len(pending[c]) \in Nat /\ Len(arrivals[c]) \in Nat
  BY WorkTypes
<1>4. \A d \in Writer : 1..Taken(d) \subseteq 1..Taken(d)'
  <2>1. Taken(c)' = Taken(c) + size /\ Taken(c) \in Nat /\ size \in Nat
    <3>1. Taken(c)' = Len(arrivals[c]) - (Len(pending[c]) - size)
      BY <1>1, <1>2 DEF Taken
    <3>2. Taken(c) = Len(arrivals[c]) - Len(pending[c]) /\ Taken(c) \in Nat
      BY TakenFacts DEF Taken
    <3>3. \A x, y, z \in Int : x - (y - z) = (x - y) + z
      OBVIOUS
    <3>4. QED
      BY <1>2, <1>3, <3>1, <3>2, <3>3
  <2>2. 1..Taken(c) \subseteq 1..Taken(c)'
    BY <2>1
  <2>3. \A d \in Writer \ {c} : Taken(d)' = Taken(d)
    BY <1>1 DEF Taken, Alike
  <2>4. QED
    BY <2>3, <2>2
<1>5. QED
  BY <1>4

LEMMA JoinsTaken ==
  ASSUME TypeOK, Places, NEW c \in Writer, NEW a \in Call, Joins(c, a)
  PROVE  \A d \in Writer :
           /\ Taken(d)' = Taken(d)
           /\ \A k \in DOMAIN arrivals[d] : arrivals'[d][k] = arrivals[d][k]
<1>1. /\ arrivals'[c] = arrivals[c] \o EventsOf[a] /\ pending'[c] = pending[c] \o EventsOf[a]
      /\ Alike(c)
  BY DEF Joins
<1>2. EventsOf[a] \in Seq(Event) /\ arrivals[c] \in Seq(Event) /\ pending[c] \in Seq(Event)
  BY EventAssumption, WorkTypes
<1>3. \A k \in DOMAIN arrivals[c] : arrivals'[c][k] = arrivals[c][k]
  <2>1. LET s == arrivals[c]
            t == EventsOf[a]
        IN DOMAIN s = 1..Len(s) /\ \A i \in 1..Len(s) : (s \o t)[i] = s[i]
    BY <1>2, ConcatFacts
  <2>2. QED
    BY <1>1, <2>1
<1>4. \A d \in Writer : Taken(d)' = Taken(d)
  <2>1. LET s == arrivals[c]
            q == pending[c]
            t == EventsOf[a]
        IN /\ Len(s) \in Nat /\ Len(t) \in Nat /\ Len(q) \in Nat
           /\ Len(s \o t) = Len(s) + Len(t) /\ Len(q \o t) = Len(q) + Len(t)
    BY <1>2, ConcatFacts
  <2>2. Taken(c)' = (Len(arrivals[c]) + Len(EventsOf[a])) - (Len(pending[c]) + Len(EventsOf[a]))
    BY <1>1, <2>1 DEF Taken
  <2>3. \A x, y, z \in Nat : (x + z) - (y + z) = x - y
    OBVIOUS
  <2>4. Taken(c)' = Taken(c)
    BY <2>1, <2>2, <2>3 DEF Taken
  <2>5. QED
    BY <1>1, <2>4 DEF Taken, Alike
<1>5. QED
  BY <1>1, <1>3, <1>4 DEF Alike

LEMMA StepRecorded ==
  ASSUME TypeOK, Places, Recorded, [Next]_vars
  PROVE  Recorded'
<1>1. ASSUME NEW c \in Writer, Takes(c) PROVE Recorded'
  <2>1. UNCHANGED log /\ \A d \in Writer : arrivals'[d] = arrivals[d]
    BY <1>1 DEF Takes, Alike
  <2>2. QED
    BY <1>1, <2>1, TakesTaken, RecordedFrame
<1>2. ASSUME NEW c \in Writer, NEW a \in Call, Joins(c, a) PROVE Recorded'
  <2>1. UNCHANGED log
    BY <1>2 DEF Joins
  <2>2. \A d \in Writer :
          /\ 1..Taken(d) \subseteq 1..Taken(d)'
          /\ \A k \in DOMAIN arrivals[d] : arrivals'[d][k] = arrivals[d][k]
    BY <1>2, JoinsTaken
  <2>3. QED
    BY <2>1, <2>2, RecordedFrame
<1>3. ASSUME NEW c \in Writer, Stores(c) PROVE Recorded'
  <2>1. /\ log' = [n \in DOMAIN log \cup {number[c]} |-> IF n = number[c] THEN work[c] ELSE log[n]]
        /\ number[c] \notin DOMAIN log /\ UNCHANGED <<pending, arrivals>>
        /\ pc[c] \in {"put", "inflight"}
    BY <1>3 DEF Stores, Store, Absent
  <2>2. work[c] # <<>>
    BY <2>1 DEF Places, Staged, Busy
  <2>3. \A d \in Writer : Taken(d)' = Taken(d) /\ arrivals'[d] = arrivals[d]
    BY <2>1 DEF Taken
  <2>4. QED
    BY <2>1, <2>2, <2>3, RecordedFrame
<1>4. ASSUME UNCHANGED <<log, pending, arrivals>> PROVE Recorded'
  <2>1. /\ log' = log
        /\ \A d \in Writer : Taken(d)' = Taken(d) /\ arrivals'[d] = arrivals[d]
    BY <1>4 DEF Taken
  <2>2. QED
    BY <2>1, RecordedFrame
<1>5. QED
  BY <1>1, <1>2, <1>3, <1>4, StepForms DEF Proceeds, Ends, Retries, TurnsAway

LEMMA AlwaysRecorded == Spec => []Recorded
<1>1. Init => Recorded
  BY EmptySeq DEF Init, Recorded
<1>2. TypeOK /\ Places /\ Recorded /\ [Next]_vars => Recorded'
  BY StepRecorded
<1>3. QED
  BY <1>1, <1>2, TypeCorrect, AlwaysPlaces, PTL DEF Spec

(* Nothing but storing a batch and taking one concerns the log.              *)
LEMMA RecordsFrame ==
  ASSUME TypeOK, Places, Records, UNCHANGED <<log, arrivals>>,
         \A c \in Writer : Taken(c)' = Taken(c),
         \A c \in Writer : Unsent(c)' => Unsent(c) /\ work'[c] = work[c]
  PROVE  Records'
<1>1. CommittedOnce' /\ FifoPerWriter'
  BY DEF Records, CommittedOnce, FifoPerWriter
<1>2. \A c \in Writer : Later(c)'
  BY DEF Records, Later
<1>3. QED
  BY <1>1, <1>2 DEF Records

LEMMA TakesRecords ==
  ASSUME TypeOK, Places, Recorded, Records, NEW c \in Writer, Takes(c)
  PROVE  Records'
<1>1. /\ pending[c] # <<>> /\ work'[c] = BatchOf(pending[c]) /\ pending'[c] = Rest(pending[c])
      /\ arrivals'[c] = arrivals[c] /\ log' = log /\ Alike(c)
  BY DEF Takes
<1>2. \A d \in Writer : arrivals'[d] = arrivals[d]
  BY <1>1 DEF Alike
<1>3. PICK size \in 1..Len(pending[c]) :
        /\ Len(work'[c]) = size /\ Len(pending'[c]) = Len(pending[c]) - size
        /\ \A i \in 1..size : work'[c][i] = pending[c][i]
  BY <1>1, WorkTypes, BatchFacts
<1>4. /\ Len(pending[c]) \in Nat /\ Len(arrivals[c]) \in Nat
      /\ DOMAIN pending[c] = 1..Len(pending[c]) /\ DOMAIN arrivals[c] = 1..Len(arrivals[c])
  BY WorkTypes
<1>5. CommittedOnce' /\ FifoPerWriter'
  BY <1>1, <1>2 DEF Records, CommittedOnce, FifoPerWriter
<1>6. ASSUME NEW n \in DOMAIN log, NEW i \in DOMAIN log[n], NEW j \in 1..size,
             NEW k \in DOMAIN arrivals[c], NEW l \in DOMAIN arrivals[c],
             log[n][i] = arrivals[c][k], work'[c][j] = arrivals[c][l]
      PROVE  k < l
  <2>1. k \in 1..Taken(c)
    BY <1>6, LogOrigin
  <2>2. Taken(c) \in Nat /\ Taken(c) + j \in DOMAIN arrivals[c]
        /\ arrivals[c][l] = arrivals[c][Taken(c) + j]
    <3>1. j \in 1..Len(pending[c]) /\ work'[c][j] = pending[c][j]
      BY <1>3, <1>4, <1>6
    <3>2. QED
      BY <1>6, <3>1, TakenFacts
  <2>3. l = Taken(c) + j
    BY <2>2 DEF Places, Once
  <2>4. QED
    BY <2>1, <2>2, <2>3
<1>7. \A d \in Writer : Later(d)'
  <2>1. Later(c)'
    BY <1>1, <1>3, <1>6 DEF Later
  <2>2. ASSUME NEW d \in Writer \ {c} PROVE Later(d)'
    BY <1>1, <1>2 DEF Alike, Later, Records, Unsent
  <2>3. QED
    BY <2>1, <2>2
<1>8. QED
  BY <1>5, <1>7 DEF Records

LEMMA RetriesRecords ==
  ASSUME TypeOK, Places, Records, NEW c \in Writer, Retries(c)
  PROVE  Records'
<1>1. /\ UNCHANGED <<log, pending, arrivals>> /\ Alike(c)
      /\ pc[c] \in {"advance", "revalidate"} /\ Selected(work'[c], work[c])
  BY DEF Retries
<1>2. CommittedOnce' /\ FifoPerWriter'
  BY <1>1 DEF Records, CommittedOnce, FifoPerWriter
<1>3. PICK g \in [1..Len(work'[c]) -> 1..Len(work[c])] :
        \A i \in 1..Len(work'[c]) : work'[c][i] = work[c][g[i]]
  BY <1>1 DEF Selected, Picks
<1>4. Later(c) /\ Unsent(c)
  BY <1>1 DEF Records, Unsent
<1>5. \A j \in 1..Len(work'[c]) : g[j] \in 1..Len(work[c])
  BY <1>3
<1>6. Later(c)'
  BY <1>1, <1>3, <1>4, <1>5 DEF Later
<1>7. ASSUME NEW d \in Writer \ {c} PROVE Later(d)'
  BY <1>1 DEF Alike, Later, Records, Unsent
<1>8. QED
  BY <1>2, <1>6, <1>7 DEF Records

LEMMA JoinsRecords ==
  ASSUME TypeOK, Places, Places', TypeOK', Recorded, Records, NEW c \in Writer, NEW a \in Call, Joins(c, a)
  PROVE  Records'
<1>1. /\ arrivals'[c] = arrivals[c] \o EventsOf[a] /\ pending'[c] = pending[c] \o EventsOf[a]
      /\ pc'[c] = (IF pc[c] = "unstarted" THEN "waiting" ELSE pc[c])
      /\ reply'[c] = reply[c] /\ work'[c] = work[c] /\ log' = log /\ Alike(c)
  BY DEF Joins
<1>2. EventsOf[a] \in Seq(Event) /\ arrivals[c] \in Seq(Event) /\ pending[c] \in Seq(Event)
  BY EventAssumption, WorkTypes
<1>3. /\ DOMAIN arrivals[c] \subseteq DOMAIN arrivals'[c]
      /\ \A k \in DOMAIN arrivals[c] : arrivals'[c][k] = arrivals[c][k]
  <2>1. LET s == arrivals[c]
            t == EventsOf[a]
        IN /\ Len(s) \in Nat /\ Len(t) \in Nat /\ DOMAIN s = 1..Len(s)
           /\ DOMAIN (s \o t) = 1..(Len(s) + Len(t))
           /\ \A i \in 1..Len(s) : (s \o t)[i] = s[i]
    BY <1>2, ConcatFacts
  <2>2. \A x, y \in Nat : 1..x \subseteq 1..(x + y)
    OBVIOUS
  <2>3. QED
    BY <1>1, <2>1, <2>2
<1>4. ASSUME NEW d \in Writer
      PROVE  /\ DOMAIN arrivals[d] \subseteq DOMAIN arrivals'[d]
             /\ \A k \in DOMAIN arrivals[d] : arrivals'[d][k] = arrivals[d][k]
             /\ 1..Taken(d) \subseteq DOMAIN arrivals[d]
  <2>1. 1..Taken(d) \subseteq DOMAIN arrivals[d]
    BY TakenFacts
  <2>2. QED
    BY <1>1, <1>3, <2>1 DEF Alike
<1>5. CommittedOnce'
  BY <1>1 DEF Records, CommittedOnce
<1>6. ASSUME NEW d \in Writer, NEW k \in DOMAIN arrivals'[d],
             NEW n \in DOMAIN log, NEW i \in DOMAIN log[n], log[n][i] = arrivals'[d][k]
      PROVE  k \in DOMAIN arrivals[d] /\ arrivals'[d][k] = arrivals[d][k]
  <2>1. n \in DOMAIN log' /\ i \in DOMAIN log'[n] /\ log'[n][i] = arrivals'[d][k]
    BY <1>1, <1>6
  <2>2. arrivals'[d] \in Seq(Event)
    BY DEF TypeOK
  <2>3. log[n][i] # OldEvent
    BY <1>6, <2>2, LenProperties, ElementOfSeq, EventAssumption
  <2>4. PICK b \in Writer : \E l \in 1..Taken(b) : log[n][i] = arrivals[b][l]
    BY <2>3 DEF Recorded
  <2>5. PICK l \in 1..Taken(b) : log[n][i] = arrivals[b][l]
    BY <2>4
  <2>6. l \in DOMAIN arrivals'[b] /\ arrivals'[b][l] = arrivals'[d][k]
    BY <1>4, <1>6, <2>5
  <2>7. b = d /\ l = k
    BY <2>6 DEF Places, Once
  <2>8. QED
    BY <1>4, <2>5, <2>7
<1>7. FifoPerWriter'
  <2>1. ASSUME NEW d \in Writer, NEW k \in DOMAIN arrivals'[d], NEW l \in DOMAIN arrivals'[d],
               k < l, NEW n \in DOMAIN log, NEW m \in DOMAIN log,
               NEW i \in DOMAIN log[n], NEW j \in DOMAIN log[m],
               log[n][i] = arrivals'[d][k], log[m][j] = arrivals'[d][l]
        PROVE  n < m \/ (n = m /\ i < j)
    BY <1>6, <2>1 DEF Records, FifoPerWriter
  <2>2. QED
    BY <1>1, <2>1 DEF FifoPerWriter
<1>8. ASSUME NEW d \in Writer PROVE Later(d)'
  <2>1. Later(d) /\ (Unsent(d)' => Unsent(d)) /\ work'[d] = work[d]
    BY <1>1 DEF Records, Unsent, Alike
  <2>2. ASSUME NEW j \in 1..Len(work[d]), NEW l \in DOMAIN arrivals'[d],
               work[d][j] = arrivals'[d][l]
        PROVE  l \in DOMAIN arrivals[d] /\ arrivals'[d][l] = arrivals[d][l]
    <3>1. PICK x \in DOMAIN arrivals[d] : work[d][j] = arrivals[d][x]
      BY BatchOrigin
    <3>2. x \in DOMAIN arrivals'[d] /\ arrivals'[d][x] = arrivals'[d][l]
      BY <1>4, <2>2, <3>1
    <3>3. x = l
      BY <3>2 DEF Places, Once
    <3>4. QED
      BY <1>4, <3>1, <3>3
  <2>3. QED
    BY <1>1, <1>6, <2>1, <2>2 DEF Later
<1>9. QED
  BY <1>5, <1>7, <1>8 DEF Records

LEMMA StoresRecords ==
  ASSUME NoResend, TypeOK, DenseLog, KnownPrefix, [Next]_vars, Places, Records,
         NEW c \in Writer, Stores(c)
  PROVE  Records'
<1> DEFINE N == number[c]
<1>1. /\ N \notin DOMAIN log
      /\ log' = [m \in DOMAIN log \cup {N} |-> IF m = N THEN work[c] ELSE log[m]]
      /\ UNCHANGED <<pending, arrivals, work>> /\ Alike(c)
      /\ ~Unsent(c)' /\ Unsent(c)
  BY DEF Stores, Store, Absent, Unsent
<1>2. /\ DOMAIN log' = DOMAIN log \cup {N} /\ log'[N] = work[c]
      /\ \A n \in DOMAIN log : log'[n] = log[n]
  BY <1>1
<1>3. \A m \in DOMAIN log : m < N /\ m \in Int /\ N \in Int
  <2>1. \A m \in DOMAIN log : m < N
    BY <1>1, <1>2, LogGrows
  <2>2. QED
    BY <2>1 DEF TypeOK
<1> HIDE DEF N
<1>4. \A d \in Writer : Taken(d)' = Taken(d) /\ arrivals'[d] = arrivals[d] /\ work'[d] = work[d]
  BY <1>1 DEF Taken
<1>5. DOMAIN work[c] = 1..Len(work[c]) /\ Len(work[c]) \in Nat
  BY WorkTypes
<1>6. PICK f \in [1..Len(work[c]) -> 1..Taken(c)] :
        /\ Ordered(f, Len(work[c]))
        /\ \A i \in 1..Len(work[c]) :
             /\ f[i] \in DOMAIN arrivals[c] /\ work[c][i] = arrivals[c][f[i]]
             /\ \A l \in DOMAIN arrivals[c] : work[c][i] = arrivals[c][l] => l = f[i]
  BY BatchOrigin
<1>7. \A i \in 1..Len(work[c]) : f[i] \in Int
  BY <1>6, WorkTypes
(* No event of the batch is there yet, and its Committer's come before.      *)
<1>8. ASSUME NEW n \in DOMAIN log, NEW i \in DOMAIN log[n], NEW j \in 1..Len(work[c]),
             NEW k \in DOMAIN arrivals[c], log[n][i] = arrivals[c][k]
      PROVE  k < f[j]
  <2>1. f[j] \in DOMAIN arrivals[c] /\ work[c][j] = arrivals[c][f[j]]
    BY <1>6
  <2>2. Later(c)
    BY DEF Records
  <2>3. QED
    BY <1>1, <1>8, <2>1, <2>2 DEF Later
<1>9. ASSUME NEW n \in DOMAIN log, NEW i \in DOMAIN log[n], NEW j \in 1..Len(work[c])
       PROVE  log[n][i] # work[c][j]
  <2>1. f[j] \in DOMAIN arrivals[c] /\ work[c][j] = arrivals[c][f[j]] /\ f[j] \in Int
    BY <1>6, <1>7
  <2>2. log[n][i] = arrivals[c][f[j]] => f[j] < f[j]
    BY <1>8, <2>1
  <2>3. ~(f[j] < f[j])
    BY <2>1
  <2>4. QED
    BY <2>1, <2>2, <2>3
<1>10. \A i, j \in 1..Len(work[c]) : work[c][i] = work[c][j] => i = j
  <2>1. ASSUME NEW i \in 1..Len(work[c]), NEW j \in 1..Len(work[c]), f[i] = f[j]
        PROVE  i = j
    BY <1>7, <2>1, <1>6, <1>5 DEF Ordered
  <2>2. QED
    BY <1>6, <2>1
<1>11. CommittedOnce'
  <2>1. ASSUME NEW n \in DOMAIN log', NEW m \in DOMAIN log',
               NEW i \in DOMAIN log'[n], NEW j \in DOMAIN log'[m],
               log'[n][i] \in Event, log'[n][i] = log'[m][j]
        PROVE  n = m /\ i = j
    <3>1. CASE n \in DOMAIN log /\ m \in DOMAIN log
      BY <1>2, <2>1, <3>1 DEF Records, CommittedOnce
    <3>2. CASE n \in DOMAIN log /\ m = N
      BY <1>2, <1>5, <1>9, <2>1, <3>2
    <3>3. CASE n = N /\ m \in DOMAIN log
      BY <1>2, <1>5, <1>9, <2>1, <3>3
    <3>4. CASE n = N /\ m = N
      BY <1>2, <1>5, <1>10, <2>1, <3>4
    <3>5. QED
      BY <1>2, <3>1, <3>2, <3>3, <3>4
  <2>2. QED
    BY <2>1 DEF CommittedOnce
<1>12. FifoPerWriter'
  <2>1. ASSUME NEW d \in Writer, NEW k \in DOMAIN arrivals[d], NEW l \in DOMAIN arrivals[d],
               k < l, NEW n \in DOMAIN log', NEW m \in DOMAIN log',
               NEW i \in DOMAIN log'[n], NEW j \in DOMAIN log'[m],
               log'[n][i] = arrivals[d][k], log'[m][j] = arrivals[d][l]
        PROVE  n < m \/ (n = m /\ i < j)
    <3>1. CASE n \in DOMAIN log /\ m \in DOMAIN log
      BY <1>2, <2>1, <3>1 DEF Records, FifoPerWriter
    <3>2. CASE n \in DOMAIN log /\ m = N
      BY <1>3, <3>2
    <3>3. ASSUME NEW x \in 1..Len(work[c]), NEW y \in DOMAIN arrivals[d],
                 work[c][x] = arrivals[d][y]
          PROVE  d = c /\ y = f[x]
      <4>1. f[x] \in DOMAIN arrivals[c] /\ arrivals[c][f[x]] = arrivals[d][y]
        BY <1>6, <3>3
      <4>2. QED
        BY <4>1 DEF Places, Once
    <3>4. CASE n = N /\ m \in DOMAIN log
      <4>1. i \in 1..Len(work[c]) /\ work[c][i] = arrivals[d][k]
        BY <1>2, <1>5, <2>1, <3>4
      <4>2. d = c /\ k = f[i]
        BY <3>3, <4>1
      <4>3. l < f[i]
        BY <1>2, <1>8, <2>1, <3>4, <4>1, <4>2
      <4>4. k \in Int /\ l \in Int
        BY WorkTypes
      <4>5. QED
        BY <2>1, <4>2, <4>3, <4>4
    <3>5. CASE n = N /\ m = N
      <4>1. i \in 1..Len(work[c]) /\ j \in 1..Len(work[c]) /\ k = f[i] /\ l = f[j]
        BY <1>2, <1>5, <2>1, <3>3, <3>5
      <4>2. i \in Int /\ j \in Int /\ f[i] \in Int /\ f[j] \in Int /\ f[i] < f[j]
        BY <1>7, <2>1, <4>1
      <4>3. ~(j < i) /\ i # j
        BY <1>6, <4>1, <4>2 DEF Ordered
      <4>4. QED
        BY <3>5, <4>2, <4>3
    <3>6. QED
      BY <1>2, <3>1, <3>2, <3>4, <3>5
  <2>2. QED
    BY <1>4, <2>1 DEF FifoPerWriter
<1>13. ASSUME NEW d \in Writer PROVE Later(d)'
  <2>1. CASE d = c
    BY <1>1, <2>1 DEF Later
  <2>2. CASE d # c
    <3>1. Later(d) /\ (Unsent(d)' => Unsent(d))
      BY <1>1, <2>2 DEF Records, Unsent, Alike
    <3>2. ASSUME NEW i \in 1..Len(work[c]), NEW k \in DOMAIN arrivals[d]
          PROVE  work[c][i] # arrivals[d][k]
      <4>1. f[i] \in DOMAIN arrivals[c] /\ work[c][i] = arrivals[c][f[i]]
        BY <1>6
      <4>2. QED
        BY <2>2, <4>1 DEF Places, Once
    <3>3. ASSUME NEW n \in DOMAIN log', NEW i \in DOMAIN log'[n], NEW k \in DOMAIN arrivals[d],
                 log'[n][i] = arrivals[d][k]
          PROVE  n \in DOMAIN log /\ i \in DOMAIN log[n] /\ log[n][i] = arrivals[d][k]
      BY <1>2, <1>5, <3>2, <3>3
    <3>4. QED
      BY <1>4, <3>1, <3>3 DEF Later
  <2>3. QED
    BY <2>1, <2>2
<1>14. QED
  BY <1>11, <1>12, <1>13 DEF Records

LEMMA StepRecords ==
  ASSUME NoResend, IInv, TypeOK', Places, Places', Recorded, Records, [Next]_vars
  PROVE  Records'
<1>1. TypeOK /\ DenseLog /\ KnownPrefix
  BY DEF IInv
<1>2. ASSUME NEW c \in Writer, Proceeds(c) PROVE Records'
  <2>1. /\ UNCHANGED <<log, pending, arrivals, work>> /\ Alike(c) /\ (Unsent(c)' => Unsent(c))
    BY <1>2 DEF Proceeds
  <2>2. \A d \in Writer : Taken(d)' = Taken(d) /\ (Unsent(d)' => Unsent(d) /\ work'[d] = work[d])
    BY <2>1 DEF Taken, Unsent, Alike
  <2>3. QED
    BY <1>1, <2>1, <2>2, RecordsFrame
<1>3. ASSUME NEW c \in Writer, Ends(c) PROVE Records'
  <2>1. /\ UNCHANGED <<log, pending, arrivals>> /\ Alike(c) /\ pc'[c] = "waiting"
    BY <1>3 DEF Ends
  <2>2. \A d \in Writer : Taken(d)' = Taken(d) /\ (Unsent(d)' => Unsent(d) /\ work'[d] = work[d])
    BY <2>1 DEF Taken, Unsent, Alike
  <2>3. QED
    BY <1>1, <2>1, <2>2, RecordsFrame
<1>4. CASE TurnsAway
  <2>1. UNCHANGED <<log, pending, arrivals, work, pc, reply>>
    BY <1>4 DEF TurnsAway
  <2>2. \A d \in Writer : Taken(d)' = Taken(d) /\ (Unsent(d)' => Unsent(d) /\ work'[d] = work[d])
    BY <2>1 DEF Taken, Unsent
  <2>3. QED
    BY <1>1, <2>1, <2>2, RecordsFrame
<1>5. QED
  BY <1>1, <1>2, <1>3, <1>4, StepForms, TakesRecords, StoresRecords, RetriesRecords,
     JoinsRecords

LEMMA InitRecords ==
  ASSUME Init
  PROVE  Records
<1>1. \A n \in DOMAIN log : DOMAIN log[n] = {1} /\ log[n][1] = OldEvent
  BY DEF Init
<1>2. \A n \in DOMAIN log : \A i \in DOMAIN log[n] : log[n][i] = OldEvent
  BY <1>1
<1>3. \A c \in Writer : arrivals[c] = <<>> /\ DOMAIN arrivals[c] = {} /\ ~Unsent(c)
  BY EmptySeq DEF Init, Unsent
<1>4. FifoPerWriter /\ \A c \in Writer : Later(c)
  BY <1>2, <1>3 DEF FifoPerWriter, Later
<1>5. CommittedOnce
  BY <1>2, EventAssumption DEF CommittedOnce
<1>6. QED
  BY <1>4, <1>5 DEF Records

LEMMA AlwaysRecords ==
  ASSUME NoResend
  PROVE  Spec => []Records
<1>1. Init => Records
  BY InitRecords
<1>2. IInv /\ IInv' /\ Places /\ Places' /\ Recorded /\ Records /\ [Next]_vars => Records'
  <2>1. IInv' => TypeOK'
    BY DEF IInv
  <2>2. QED
    BY <2>1, StepRecords
<1>3. QED
  BY <1>1, <1>2, Inductive, AlwaysPlaces, AlwaysRecorded, PTL DEF Spec

(* No event is committed twice, however often its batch is tried again after *)
(* lost races, refusals and errors (the loop of _commit_batch, 249-288), as  *)
(* long as the SDK resends no put: that assumption is needed, because a      *)
(* batch whose stored put is reported as lost is put again.                  *)
THEOREM NeverTwice ==
  ASSUME NoResend
  PROVE  Spec => []CommittedOnce
<1>1. Records => CommittedOnce
  BY DEF Records
<1>2. QED
  BY <1>1, AlwaysRecords, PTL

(* The events of one Committer are committed in the order in which it took   *)
(* them in (append_many, 159-165).                                           *)
THEOREM KeepsOrder ==
  ASSUME NoResend
  PROVE  Spec => []FifoPerWriter
<1>1. Records => FifoPerWriter
  BY DEF Records
<1>2. QED
  BY <1>1, AlwaysRecords, PTL

-----------------------------------------------------------------------------
(* Every event a Committer holds is in one place.                            *)
LEMMA Apart ==
  ASSUME TypeOK, Places, NEW c \in Writer, NEW e \in Range(work[c]), NEW d \in Writer
  PROVE  /\ e \notin Range(pending[d])
         /\ d # c => e \notin Range(work[d])
<1>1. PICK i \in 1..Len(work[c]) : e = work[c][i]
  BY WorkTypes DEF Range
<1>2. PICK k \in 1..Taken(c) : k \in DOMAIN arrivals[c] /\ e = arrivals[c][k]
  <2>1. PICK f \in [1..Len(work[c]) -> 1..Taken(c)] :
          \A x \in 1..Len(work[c]) : f[x] \in DOMAIN arrivals[c] /\ work[c][x] = arrivals[c][f[x]]
    BY BatchOrigin
  <2>2. f[i] \in 1..Taken(c) /\ f[i] \in DOMAIN arrivals[c] /\ e = arrivals[c][f[i]]
    BY <1>1, <2>1
  <2>3. QED
    BY <2>2
<1>3. Once
  BY DEF Places
<1>4. ASSUME NEW j \in 1..Len(pending[d]), e = pending[d][j] PROVE FALSE
  <2>1. Taken(d) + j \in DOMAIN arrivals[d] /\ e = arrivals[d][Taken(d) + j]
    BY <1>4, TakenFacts
  <2>2. c = d /\ k = Taken(d) + j
    BY <1>2, <1>3, <2>1 DEF Once
  <2>3. Taken(d) \in Nat
    BY TakenFacts
  <2>4. QED
    BY <1>2, <2>2, <2>3
<1>5. ASSUME d # c, NEW j \in 1..Len(work[d]), e = work[d][j] PROVE FALSE
  <2>1. PICK f \in [1..Len(work[d]) -> 1..Taken(d)] :
          \A x \in 1..Len(work[d]) : f[x] \in DOMAIN arrivals[d] /\ work[d][x] = arrivals[d][f[x]]
    BY BatchOrigin
  <2>2. f[j] \in DOMAIN arrivals[d] /\ arrivals[d][f[j]] = arrivals[c][k]
    BY <1>2, <1>5, <2>1
  <2>3. QED
    BY <1>2, <1>3, <1>5, <2>2 DEF Once
<1>6. QED
  BY <1>4, <1>5, WorkTypes DEF Range

LEMMA UnsentNotCommitted ==
  ASSUME TypeOK, Places, Records, NEW c \in Writer, Unsent(c), NEW e \in Range(work[c])
  PROVE  ~Committed(e)
<1>1. PICK i \in 1..Len(work[c]) : e = work[c][i]
  BY WorkTypes DEF Range
<1>2. PICK f \in [1..Len(work[c]) -> 1..Taken(c)] :
        \A x \in 1..Len(work[c]) : f[x] \in DOMAIN arrivals[c] /\ work[c][x] = arrivals[c][f[x]]
  BY BatchOrigin
<1>3. f[i] \in DOMAIN arrivals[c] /\ e = arrivals[c][f[i]] /\ ~(f[i] < f[i])
  BY <1>1, <1>2, WorkTypes
<1>4. Later(c)
  BY DEF Records
<1>5. \A n \in DOMAIN log : \A j \in DOMAIN log[n] : log[n][j] # e
  BY <1>1, <1>3, <1>4 DEF Later
<1>6. QED
  BY <1>5 DEF Committed, Range

(* The log has no event that was not handed to a Committer.                  *)
LEMMA NewNotCommitted ==
  ASSUME TypeOK, Places, Recorded, NEW e \in Event, status[e] = "new"
  PROVE  ~Committed(e)
<1>1. ASSUME NEW n \in DOMAIN log, NEW i \in DOMAIN log[n], log[n][i] = e PROVE FALSE
  <2>1. PICK d \in Writer : \E l \in 1..Taken(d) : log[n][i] = arrivals[d][l]
    BY <1>1, EventAssumption DEF Recorded
  <2>2. PICK l \in 1..Taken(d) : log[n][i] = arrivals[d][l]
    BY <2>1
  <2>3. l \in DOMAIN arrivals[d]
    BY TakenFacts
  <2>4. Submitted /\ e = arrivals[d][l]
    BY <1>1, <2>2 DEF Places
  <2>5. QED
    BY <2>3, <2>4 DEF Submitted
<1>2. QED
  BY <1>1 DEF Committed, Range

LEMMA StoresTruths ==
  ASSUME NoResend, TypeOK, Places, Records, Truths, NEW c \in Writer, Stores(c)
  PROVE  Truths'
<1>1. /\ log' = [m \in DOMAIN log \cup {number[c]} |-> IF m = number[c] THEN work[c] ELSE log[m]]
      /\ UNCHANGED <<pending, work, status>> /\ Alike(c) /\ ~Unsent(c)' /\ Unsent(c)
  BY DEF Stores, Store, Unsent
<1>2. ASSUME NEW e \in Event, status[e] \in {"failed", "rejected"}
      PROVE  ~Committed(e)'
  <2>1. ~Committed(e)
    BY <1>2 DEF Truths, FailedNotCommitted
  <2>2. \A i \in DOMAIN work[c] : status[work[c][i]] \in Open
    BY <1>1 DEF Truths, Undecided
  <2>3. \A i \in DOMAIN work[c] : work[c][i] # e
    BY <1>2, <2>2 DEF Open
  <2>4. e \notin Range(work[c])
    BY <2>3 DEF Range
  <2>5. \A n \in DOMAIN log' : e \notin Range(log'[n])
    BY <1>1, <2>1, <2>4 DEF Committed
  <2>6. QED
    BY <2>5 DEF Committed
<1>3. ASSUME NEW d \in Writer
      PROVE  /\ \A i \in DOMAIN pending'[d] : status'[pending'[d][i]] \in Open
             /\ Unsent(d)' => \A i \in DOMAIN work'[d] : status'[work'[d][i]] \in Open
  <2>1. Unsent(d)' => Unsent(d)
    BY <1>1 DEF Unsent, Alike
  <2>2. /\ \A i \in DOMAIN pending[d] : status[pending[d][i]] \in Open
        /\ Unsent(d) => \A i \in DOMAIN work[d] : status[work[d][i]] \in Open
    BY DEF Truths, Undecided
  <2>3. QED
    BY <1>1, <2>1, <2>2
<1>4. FailedNotCommitted'
  BY <1>1, <1>2 DEF FailedNotCommitted
<1>5. NoCancel => \A e \in Event : status'[e] # "cancelled"
  BY <1>1 DEF Truths
<1>6. QED
  BY <1>3, <1>4, <1>5 DEF Truths, Undecided

(* The log stays, and what is decided is neither in it nor held any longer.  *)
LEMMA TruthsFrame ==
  ASSUME TypeOK, Truths, UNCHANGED log,
         NoCancel => \A e \in Event : status'[e] # "cancelled",
         \A e \in Event : status'[e] \in {"failed", "rejected"} =>
           status'[e] = status[e] \/ ~Committed(e),
         \A d \in Writer :
           /\ \A e \in Range(pending'[d]) : status'[e] \in Open
           /\ Unsent(d)' => \A e \in Range(work'[d]) : status'[e] \in Open
  PROVE  Truths'
<1>1. \A e \in Event : Committed(e)' <=> Committed(e)
  BY DEF Committed
<1>2. FailedNotCommitted'
  BY <1>1 DEF Truths, FailedNotCommitted
<1>3. QED
  BY <1>2 DEF Truths, Undecided, Range

(* The same for the steps that end the waiting for some of a batch.          *)
LEMMA BatchTruths ==
  ASSUME TypeOK, Places, Records, Truths, NEW c \in Writer, Alike(c),
         UNCHANGED <<log, pending>>,
         \A e \in Event :
           \/ status'[e] = status[e]
           \/ /\ e \in Range(work[c]) /\ status'[e] # "cancelled"
              /\ status'[e] \in {"failed", "rejected"} => Unsent(c),
         Unsent(c)' => \A e \in Range(work'[c]) : status'[e] \in Open
  PROVE  Truths'
<1>1. NoCancel => \A e \in Event : status'[e] # "cancelled"
  BY DEF Truths
<1>2. \A e \in Event : status'[e] \in {"failed", "rejected"} =>
        status'[e] = status[e] \/ ~Committed(e)
  BY UnsentNotCommitted
<1>3. ASSUME NEW d \in Writer
      PROVE  /\ Range(pending[d]) \subseteq Event /\ Range(work[d]) \subseteq Event
             /\ \A e \in Range(pending[d]) : status[e] \in Open
             /\ Unsent(d) => \A e \in Range(work[d]) : status[e] \in Open
  <2>1. Range(pending[d]) \subseteq Event
    BY WorkTypes, ElementOfSeq DEF Range
  <2>2. Range(work[d]) \subseteq Event
    BY WorkTypes
  <2>3. QED
    BY <2>1, <2>2 DEF Truths, Undecided, Range
<1>4. ASSUME NEW d \in Writer
      PROVE  \A e \in Range(pending'[d]) : status'[e] \in Open
  BY <1>3, Apart
<1>5. ASSUME NEW d \in Writer, Unsent(d)'
      PROVE  \A e \in Range(work'[d]) : status'[e] \in Open
  <2>1. CASE d # c
    <3>1. Unsent(d) /\ work'[d] = work[d]
      BY <1>5, <2>1 DEF Alike, Unsent
    <3>2. QED
      BY <1>3, <2>1, <3>1, Apart
  <2>2. QED
    BY <1>5, <2>1
<1>6. QED
  BY <1>1, <1>2, <1>4, <1>5, TruthsFrame

(* Whoever waits for an event of a batch is told the truth about it.         *)
LEMMA NoneCancelled ==
  ASSUME Honest, TypeOK, Places, Truths, NEW c \in Writer, NEW e \in Event, Decided(c, e)
  PROVE  \A x \in Range(work[c]) : status[x] # "cancelled"
<1>1. status[e] = "pending" /\ e \in Range(work[c])
  BY DEF Decided
<1>2. CASE NoCancel
  BY <1>2, WorkTypes DEF Truths
<1>3. CASE MaxEvents = 1
  <2>1. Len(work[c]) <= 1 /\ Len(work[c]) \in Nat /\ DOMAIN work[c] = 1..Len(work[c])
    BY <1>3, WorkTypes DEF Places, Sized
  <2>2. \A i, j \in DOMAIN work[c] : i = j
    BY <2>1
  <2>3. \A x \in Range(work[c]) : x = e
    BY <1>1, <2>2 DEF Range
  <2>4. QED
    BY <1>1, <2>3
<1>4. QED
  BY <1>2, <1>3 DEF Honest

LEMMA StepTruths ==
  ASSUME NoResend, Honest, TypeOK, TypeOK', Places, Recorded, Records, Truths, [Next]_vars
  PROVE  Truths'
<1>1. ASSUME NEW d \in Writer
      PROVE  /\ Range(pending[d]) \subseteq Event /\ Range(work[d]) \subseteq Event
             /\ \A e \in Range(pending[d]) : status[e] \in Open
             /\ Unsent(d) => \A e \in Range(work[d]) : status[e] \in Open
  <2>1. Range(pending[d]) \subseteq Event
    BY WorkTypes, ElementOfSeq DEF Range
  <2>2. Range(work[d]) \subseteq Event
    BY WorkTypes
  <2>3. QED
    BY <2>1, <2>2 DEF Truths, Undecided, Range
<1>2. ASSUME NEW c \in Writer, Takes(c) PROVE Truths'
  <2>1. /\ pending[c] # <<>> /\ work'[c] = BatchOf(pending[c]) /\ pending'[c] = Rest(pending[c])
        /\ UNCHANGED <<log, status>> /\ Alike(c)
    BY <1>2 DEF Takes
  <2>2. Range(work'[c]) \subseteq Range(pending[c]) /\ Range(pending'[c]) \subseteq Range(pending[c])
    <3>1. PICK size \in 1..Len(pending[c]) :
            /\ Len(pending[c]) \in Nat
            /\ Len(work'[c]) = size /\ Len(pending'[c]) = Len(pending[c]) - size
            /\ \A i \in 1..size : work'[c][i] = pending[c][i]
            /\ \A i \in 1..(Len(pending[c]) - size) : pending'[c][i] = pending[c][size + i]
      <4>1. pending[c] \in Seq(Event) \ {<<>>}
        BY <2>1, WorkTypes
      <4>2. \E size \in 1..Len(pending[c]) :
              /\ Len(pending[c]) \in Nat /\ size <= MaxEvents
              /\ Len(BatchOf(pending[c])) = size /\ Len(Rest(pending[c])) = Len(pending[c]) - size
              /\ \A i \in 1..size : BatchOf(pending[c])[i] = pending[c][i]
              /\ \A i \in 1..(Len(pending[c]) - size) : Rest(pending[c])[i] = pending[c][size + i]
        BY <4>1, BatchFacts
      <4>3. QED
        BY <2>1, <4>2
    <3>2. /\ DOMAIN work'[c] = 1..Len(work'[c]) /\ DOMAIN pending'[c] = 1..Len(pending'[c])
      <4>1. work'[c] \in Seq(Event) /\ pending'[c] \in Seq(Event)
        BY DEF TypeOK
      <4>2. QED
        BY <4>1, LenProperties
    <3>3. DOMAIN pending[c] = 1..Len(pending[c])
      BY WorkTypes
    <3>4. \A i \in 1..size : i \in 1..Len(pending[c])
      BY <3>1
    <3>5. \A i \in 1..(Len(pending[c]) - size) : size + i \in 1..Len(pending[c])
      BY <3>1
    <3>6. QED
      BY <3>1, <3>2, <3>3, <3>4, <3>5 DEF Range
  <2>3. \A d \in Writer :
          /\ \A e \in Range(pending'[d]) : status'[e] \in Open
          /\ Unsent(d)' => \A e \in Range(work'[d]) : status'[e] \in Open
    BY <1>1, <2>1, <2>2 DEF Alike, Unsent
  <2>4. QED
    BY <2>1, <2>3, TruthsFrame DEF Truths
<1>3. ASSUME NEW c \in Writer, Proceeds(c) PROVE Truths'
  <2>1. /\ UNCHANGED <<log, pending, work>> /\ Alike(c) /\ Loses(c) /\ (Unsent(c)' => Unsent(c))
    BY <1>3 DEF Proceeds
  <2>2. \A e \in Event : status'[e] = status[e] \/ (status[e] = "pending" /\ status'[e] = "lost")
    BY <2>1 DEF Loses
  <2>3. \A d \in Writer :
          /\ \A e \in Range(pending'[d]) : status'[e] \in Open
          /\ Unsent(d)' => \A e \in Range(work'[d]) : status'[e] \in Open
    <3>1. ASSUME NEW d \in Writer PROVE Unsent(d)' => Unsent(d)
      BY <2>1 DEF Alike, Unsent
    <3>2. QED
      BY <1>1, <2>1, <2>2, <3>1 DEF Open
  <2>4. /\ NoCancel => \A e \in Event : status'[e] # "cancelled"
        /\ \A e \in Event : status'[e] \in {"failed", "rejected"} => status'[e] = status[e]
    BY <2>2 DEF Truths
  <2>5. QED
    BY <2>1, <2>3, <2>4, TruthsFrame
<1>4. ASSUME NEW c \in Writer, Ends(c) PROVE Truths'
  <2>1. /\ UNCHANGED <<log, pending>> /\ Alike(c) /\ pc'[c] = "waiting"
        /\ \A e \in Event : status'[e] = status[e] \/ Decided(c, e)
    BY <1>4 DEF Ends
  <2>2. \A e \in Event : Decided(c, e) =>
          /\ e \in Range(work[c]) /\ status'[e] # "cancelled"
          /\ status'[e] \in {"failed", "rejected"} => Unsent(c)
    BY NoneCancelled DEF Decided
  <2>3. ~Unsent(c)'
    BY <2>1 DEF Unsent
  <2>4. QED
    BY <2>1, <2>2, <2>3, BatchTruths
<1>5. ASSUME NEW c \in Writer, Retries(c) PROVE Truths'
  <2>1. /\ UNCHANGED <<log, pending>> /\ Alike(c) /\ Selected(work'[c], work[c]) /\ Unsent(c)
        /\ \A e \in Event : \/ status'[e] = status[e]
                            \/ /\ status'[e] = "rejected"
                               /\ e \in Range(work[c]) \ Range(work'[c])
    BY <1>5 DEF Retries, Unsent
  <2>2. PICK g \in [1..Len(work'[c]) -> 1..Len(work[c])] :
          \A i \in 1..Len(work'[c]) : work'[c][i] = work[c][g[i]]
    BY <2>1 DEF Selected, Picks
  <2>3. Range(work'[c]) \subseteq Range(work[c])
    <3>1. DOMAIN work'[c] = 1..Len(work'[c])
      BY LenProperties DEF TypeOK
    <3>2. DOMAIN work[c] = 1..Len(work[c])
      BY WorkTypes
    <3>3. QED
      BY <2>2, <3>1, <3>2 DEF Range
  <2>4. \A e \in Range(work'[c]) : status'[e] \in Open
    BY <1>1, <2>1, <2>3
  <2>5. QED
    BY <2>1, <2>4, BatchTruths
<1>6. ASSUME NEW c \in Writer, NEW a \in Call, Joins(c, a) PROVE Truths'
  <2>1. /\ pending'[c] = pending[c] \o EventsOf[a] /\ UNCHANGED log /\ Alike(c)
        /\ pc'[c] = (IF pc[c] = "unstarted" THEN "waiting" ELSE pc[c])
        /\ reply'[c] = reply[c] /\ work'[c] = work[c]
        /\ \A e \in Event : status'[e] = IF e \in Range(EventsOf[a]) THEN "pending" ELSE status[e]
    BY <1>6 DEF Joins
  <2>2. Range(pending'[c]) \subseteq Range(pending[c]) \cup Range(EventsOf[a])
    <3>1. EventsOf[a] \in Seq(Event) /\ pending[c] \in Seq(Event)
      BY EventAssumption, WorkTypes
    <3>2. QED
      BY <2>1, <3>1, RangeConcatenation, RangeEquality
  <2>3. Range(EventsOf[a]) \subseteq Event
    <3>1. EventsOf[a] \in Seq(Event)
      BY EventAssumption
    <3>2. QED
      BY <3>1, ElementOfSeq, LenProperties DEF Range
  <2>4. \A d \in Writer :
          /\ \A e \in Range(pending'[d]) : status'[e] \in Open
          /\ Unsent(d)' => \A e \in Range(work'[d]) : status'[e] \in Open
    <3>1. ASSUME NEW d \in Writer PROVE (Unsent(d)' => Unsent(d)) /\ work'[d] = work[d]
      BY <2>1 DEF Alike, Unsent
    <3>2. \A d \in Writer : \A e \in Range(pending'[d]) :
            e \in Event /\ (e \in Range(EventsOf[a]) \/ status[e] \in Open)
      BY <1>1, <2>1, <2>2, <2>3 DEF Alike
    <3>3. QED
      BY <1>1, <2>1, <3>1, <3>2 DEF Open
  <2>5. /\ NoCancel => \A e \in Event : status'[e] # "cancelled"
        /\ \A e \in Event : status'[e] \in {"failed", "rejected"} => status'[e] = status[e]
    BY <2>1 DEF Truths
  <2>6. QED
    BY <2>1, <2>4, <2>5, TruthsFrame
<1>7. CASE TurnsAway
  <2>1. /\ UNCHANGED <<log, pending, work, pc, reply>>
        /\ \A e \in Event : \/ status'[e] = status[e]
                            \/ status[e] = "new" /\ status'[e] = "failed"
                            \/ /\ ~NoCancel
                               /\ status[e] = "pending" /\ status'[e] = "cancelled"
    BY <1>7 DEF TurnsAway
  <2>2. \A d \in Writer : Unsent(d)' => Unsent(d)
    BY <2>1 DEF Unsent
  <2>3. \A d \in Writer :
          /\ \A e \in Range(pending'[d]) : status'[e] \in Open
          /\ Unsent(d)' => \A e \in Range(work'[d]) : status'[e] \in Open
    BY <1>1, <2>1, <2>2 DEF Open
  <2>4. /\ NoCancel => \A e \in Event : status'[e] # "cancelled"
        /\ \A e \in Event : status'[e] \in {"failed", "rejected"} =>
             status'[e] = status[e] \/ ~Committed(e)
    BY <2>1, NewNotCommitted DEF Truths
  <2>5. QED
    BY <2>1, <2>3, <2>4, TruthsFrame
<1>8. QED
  BY <1>2, <1>3, <1>4, <1>5, <1>6, <1>7, StepForms, StoresTruths

LEMMA AlwaysTruths ==
  ASSUME NoResend, Honest
  PROVE  Spec => []Truths
<1>1. Init => Truths
  BY EmptySeq DEF Init, Truths, FailedNotCommitted, Unsent
<1>2. TypeOK /\ TypeOK' /\ Places /\ Recorded /\ Records /\ Truths /\ [Next]_vars => Truths'
  BY StepTruths
<1>3. QED
  BY <1>1, <1>2, TypeCorrect, AlwaysPlaces, AlwaysRecorded, AlwaysRecords, PTL DEF Spec

(* An append that failed with CommitError or EventRejectedError has put      *)
(* nothing in the log, and never will (committer.py 150-153), as long as     *)
(* the SDK resends no put, and no append is cancelled while its event shares *)
(* a batch with others: the run committer_batch_cancel refutes it otherwise. *)
THEOREM FailuresAreTrue ==
  ASSUME NoResend, Honest
  PROVE  Spec => []FailedNotCommitted
<1>1. Truths => FailedNotCommitted
  BY DEF Truths
<1>2. QED
  BY <1>1, AlwaysTruths, PTL

-----------------------------------------------------------------------------
(* The refinement: every step is a step of CommitLog, or of none of it.      *)
Commits == [n \in 1..Cardinality(DOMAIN log) |-> log[n]]
Outcomes == [e \in Event |-> OutcomeOf(e)]

LEMMA OutcomeIs ==
  ASSUME TypeOK, NEW e \in Event
  PROVE  /\ status[e] = "new" => Outcomes[e] = "new"
         /\ status[e] = "pending" => Outcomes[e] = "pending"
         /\ status[e] = "ok" => Outcomes[e] = "ok"
         /\ status[e] \in {"failed", "rejected"} => Outcomes[e] = "failed"
         /\ status[e] \in {"error", "cancelled", "lost"} => Outcomes[e] = "unknown"
BY DEF Outcomes, OutcomeOf

LEMMA CommitsAre ==
  ASSUME TypeOK, DenseLog
  PROVE  /\ DOMAIN Commits = DOMAIN log /\ \A n \in DOMAIN log : Commits[n] = log[n]
         /\ Commits \in Seq(Seq(Event \cup {OldEvent}))
         /\ Len(Commits) = Cardinality(DOMAIN log) /\ Cardinality(DOMAIN log) \in Nat
         /\ \A e \in Event : Promise!Committed(e) <=> Committed(e)
<1>1. Cardinality(DOMAIN log) \in Nat
  BY FS_CardinalityType DEF TypeOK
<1>2. DOMAIN log = 1..Cardinality(DOMAIN log)
  BY DEF DenseLog
<1>3. DOMAIN Commits = DOMAIN log /\ \A n \in DOMAIN log : Commits[n] = log[n]
  BY <1>2 DEF Commits
<1>4. Commits \in [1..Cardinality(DOMAIN log) -> Seq(Event \cup {OldEvent})]
  BY <1>2 DEF Commits, TypeOK
<1>5. Commits \in Seq(Seq(Event \cup {OldEvent})) /\ Len(Commits) = Cardinality(DOMAIN log)
  <2>1. Commits \in Seq(Seq(Event \cup {OldEvent}))
    BY <1>1, <1>4, SeqDef
  <2>2. DOMAIN Commits = 1..Len(Commits) /\ Len(Commits) \in Nat
    BY <2>1, LenProperties
  <2>3. QED
    BY <1>1, <1>2, <1>3, <2>1, <2>2
<1>6. ASSUME NEW e \in Event PROVE Promise!Committed(e) <=> Committed(e)
  BY <1>3 DEF Promise!Committed, Committed, Promise!Range, Range, Commits
<1>7. QED
  BY <1>1, <1>3, <1>5, <1>6

LEMMA InitRefines ==
  ASSUME Init
  PROVE  Promise!Init
<1>1. Cardinality(1..History) = History
  <2>1. 1 \in Int /\ History \in Int /\ History >= 0
    BY ConfigAssumption
  <2>2. Cardinality(1..History) = IF 1 > History THEN 0 ELSE History - 1 + 1
    BY <2>1, FS_Interval
  <2>3. QED
    BY <2>1, <2>2
<1>2. DOMAIN log = 1..History /\ \A n \in 1..History : log[n] = <<OldEvent>>
  BY DEF Init
<1>3. [n \in 1..Cardinality(DOMAIN log) |-> log[n]] = [n \in 1..History |-> <<OldEvent>>]
  BY <1>1, <1>2
<1>4. [e \in Event |-> OutcomeOf(e)] = [e \in Event |-> "new"]
  BY DEF Init, OutcomeOf
<1>5. seq = [e \in Event |-> NoSeq]
  BY DEF Init
<1>6. QED
  BY <1>3, <1>4, <1>5 DEF Promise!Init, Promise!NoSeq, NoSeq

LEMMA OutcomeBecomes ==
  ASSUME TypeOK', NEW e \in Event
  PROVE  /\ status'[e] = "pending" => Outcomes'[e] = "pending"
         /\ status'[e] = "ok" => Outcomes'[e] = "ok"
         /\ status'[e] \in {"failed", "rejected"} => Outcomes'[e] = "failed"
         /\ status'[e] \in {"error", "lost", "cancelled"} => Outcomes'[e] = "unknown"
BY DEF Outcomes, OutcomeOf

LEMMA OutcomeMoves ==
  ASSUME NEW E \in SUBSET Event, NEW answer,
         \A e \in E : Outcomes'[e] = answer, \A e \in Event \ E : status'[e] = status[e]
  PROVE  Outcomes' = [e \in Event |-> IF e \in E THEN answer ELSE Outcomes[e]]
<1>1. \A e \in Event \ E : Outcomes'[e] = Outcomes[e]
  BY DEF Outcomes, OutcomeOf
<1>2. Outcomes' = [e \in Event |-> Outcomes'[e]]
  BY DEF Outcomes
<1>3. QED
  BY <1>1, <1>2

LEMMA SubmitRefines ==
  ASSUME TypeOK, TypeOK', NEW c \in Writer, NEW a \in Call, Joins(c, a)
  PROVE  Promise!Next
<1> DEFINE E == Range(EventsOf[a])
<1>1. /\ \A e \in E : status[e] = "new" /\ UNCHANGED <<log, seq>>
      /\ \A e \in Event : status'[e] = IF e \in E THEN "pending" ELSE status[e]
  BY DEF Joins
<1>2. E \in SUBSET Event
  <2>1. EventsOf[a] \in Seq(Event)
    BY EventAssumption
  <2>2. QED
    BY <2>1, ElementOfSeq, LenProperties DEF Range
<1>3. UNCHANGED <<log, seq>>
  BY DEF Joins
<1> HIDE DEF E
<1>4. \A e \in E : Outcomes[e] = "new" /\ Outcomes'[e] = "pending"
  BY <1>1, <1>2, OutcomeIs, OutcomeBecomes
<1>5. Outcomes' = [e \in Event |-> IF e \in E THEN "pending" ELSE Outcomes[e]]
  <2>1. /\ \A e \in E : Outcomes'[e] = "pending"
        /\ \A e \in Event \ E : status'[e] = status[e]
    BY <1>1, <1>4
  <2>2. QED
    BY <1>2, <2>1, OutcomeMoves
<1>6. Commits' = Commits
  BY <1>3 DEF Commits
<1>7. Promise!Submit(E)
  BY <1>3, <1>4, <1>5, <1>6 DEF Promise!Submit, Commits, Outcomes
<1>8. QED
  BY <1>2, <1>7 DEF Promise!Next

LEMMA FailRefines ==
  ASSUME TypeOK, TypeOK', DenseLog, UNCHANGED <<log, seq>>,
         \A e \in Event :
           \/ status'[e] = status[e]
           \/ /\ status[e] \in {"new", "pending"} /\ ~Committed(e)
              /\ status'[e] \in {"failed", "rejected"}
  PROVE  Promise!Next
<1> DEFINE E == {e \in Event : status'[e] # status[e]}
<1>1. \A e \in E : /\ Outcomes[e] \in {"new", "pending"} /\ Outcomes'[e] = "failed"
                   /\ ~Promise!Committed(e)
  BY OutcomeIs, OutcomeBecomes, CommitsAre
<1>2. \A e \in Event \ E : status'[e] = status[e]
  OBVIOUS
<1>3. E \in SUBSET Event
  OBVIOUS
<1> HIDE DEF E
<1>4. Outcomes' = [e \in Event |-> IF e \in E THEN "failed" ELSE Outcomes[e]]
  BY <1>1, <1>2, <1>3, OutcomeMoves
<1>5. Commits' = Commits
  BY DEF Commits
<1>6. Promise!Fail(E)
  BY <1>1, <1>4, <1>5 DEF Promise!Fail, Commits, Outcomes
<1>7. QED
  BY <1>3, <1>6 DEF Promise!Next

LEMMA ForgetRefines ==
  ASSUME TypeOK, TypeOK', UNCHANGED <<log, seq>>,
         \A e \in Event : \/ status'[e] = status[e]
                          \/ status[e] = "pending" /\ status'[e] \in {"error", "lost", "cancelled"}
  PROVE  Promise!Next
<1> DEFINE E == {e \in Event : status'[e] # status[e]}
<1>1. \A e \in E : Outcomes[e] = "pending" /\ Outcomes'[e] = "unknown"
  BY OutcomeIs, OutcomeBecomes
<1>2. \A e \in Event \ E : status'[e] = status[e]
  OBVIOUS
<1>3. E \in SUBSET Event
  OBVIOUS
<1> HIDE DEF E
<1>4. Outcomes' = [e \in Event |-> IF e \in E THEN "unknown" ELSE Outcomes[e]]
  BY <1>1, <1>2, <1>3, OutcomeMoves
<1>5. Commits' = Commits
  BY DEF Commits
<1>6. Promise!Forget(E)
  BY <1>1, <1>4, <1>5 DEF Promise!Forget, Commits, Outcomes
<1>7. QED
  BY <1>3, <1>6 DEF Promise!Next

LEMMA AcknowledgeRefines ==
  ASSUME TypeOK, TypeOK', DenseLog, AckedDurably', UNCHANGED log,
         \A e \in Event : \/ status'[e] = status[e] /\ seq'[e] = seq[e]
                          \/ status[e] = "pending" /\ status'[e] = "ok"
  PROVE  Promise!Next
<1> DEFINE E == {e \in Event : status'[e] # status[e]}
<1>1. \A e \in E : Outcomes[e] = "pending" /\ Outcomes'[e] = "ok" /\ status'[e] = "ok"
  BY OutcomeIs, OutcomeBecomes
<1>2. \A e \in Event \ E : status'[e] = status[e] /\ seq'[e] = seq[e]
  OBVIOUS
<1>3. E \in SUBSET Event
  OBVIOUS
<1> HIDE DEF E
<1>4. Outcomes' = [e \in Event |-> IF e \in E THEN "ok" ELSE Outcomes[e]]
  <2>1. /\ \A e \in E : Outcomes'[e] = "ok"
        /\ \A e \in Event \ E : status'[e] = status[e]
    BY <1>1, <1>2
  <2>2. QED
    BY <1>3, <2>1, OutcomeMoves
<1>5. Commits' = Commits
  BY DEF Commits
<1>6. ASSUME NEW e \in E PROVE Promise!CommittedAt(e, seq'[e])
  <2>1. /\ seq'[e].commit \in DOMAIN log
        /\ seq'[e].index + 1 \in DOMAIN log[seq'[e].commit]
        /\ log[seq'[e].commit][seq'[e].index + 1] = e
    BY <1>1, <1>3, <1>6 DEF AckedDurably
  <2>2. DOMAIN Commits = DOMAIN log /\ \A n \in DOMAIN log : Commits[n] = log[n]
    BY CommitsAre
  <2>3. /\ seq'[e].commit \in DOMAIN Commits
        /\ seq'[e].index + 1 \in DOMAIN Commits[seq'[e].commit]
        /\ Commits[seq'[e].commit][seq'[e].index + 1] = e
    BY <2>1, <2>2
  <2>4. QED
    BY <2>3 DEF Promise!CommittedAt, Commits
<1>7. Promise!Acknowledge(E)
  BY <1>1, <1>2, <1>4, <1>5, <1>6 DEF Promise!Acknowledge, Commits, Outcomes
<1>8. QED
  BY <1>3, <1>7 DEF Promise!Next

LEMMA CommitRefines ==
  ASSUME IsFiniteSet(Event), NoResend, IInv, [Next]_vars, TypeOK', Places, Records, Truths,
         NEW c \in Writer, Stores(c)
  PROVE  Promise!Next
<1> DEFINE batch == work[c]
           N == Cardinality(DOMAIN log)
<1>1. TypeOK /\ DenseLog /\ KnownPrefix
  BY DEF IInv
<1>2. /\ log' = [m \in DOMAIN log \cup {number[c]} |-> IF m = number[c] THEN work[c] ELSE log[m]]
      /\ number[c] \notin DOMAIN log /\ UNCHANGED <<status, seq>> /\ Unsent(c)
  BY DEF Stores, Store, Absent, Unsent
<1>3. /\ batch \in Seq(Event) /\ DOMAIN batch = 1..Len(batch) /\ Len(batch) \in Nat
      /\ Range(batch) \subseteq Event
  BY <1>1, WorkTypes
<1>4. Len(batch) # 0
  <2>1. batch # <<>>
    BY DEF Stores, Places, Staged, Busy
  <2>2. QED
    BY <1>3, <2>1, EmptySeq
<1>5. \A i, j \in 1..Len(batch) : batch[i] = batch[j] => i = j
  <2>1. PICK f \in [1..Len(batch) -> 1..Taken(c)] :
          /\ Ordered(f, Len(batch))
          /\ \A i \in 1..Len(batch) :
               /\ f[i] \in DOMAIN arrivals[c] /\ batch[i] = arrivals[c][f[i]]
               /\ \A l \in DOMAIN arrivals[c] : batch[i] = arrivals[c][l] => l = f[i]
    BY <1>1, BatchOrigin
  <2>2. \A i \in 1..Len(batch) : f[i] \in Int
    BY <1>1, <2>1, WorkTypes
  <2>3. ASSUME NEW i \in 1..Len(batch), NEW j \in 1..Len(batch), f[i] = f[j]
        PROVE  i = j
    BY <1>3, <2>1, <2>2, <2>3 DEF Ordered
  <2>4. QED
    BY <2>1, <2>3
<1>6. batch \in Promise!Batches
  <2>1. batch \in [1..Len(batch) -> Event]
    BY <1>3, ElementOfSeq
  <2>2. Promise!IsInjective(batch) /\ IsInjective(batch)
    BY <1>3, <1>5 DEF Promise!IsInjective, IsInjective
  <2>3. Len(batch) <= Cardinality(Event) /\ Cardinality(Event) \in Nat
    <3>1. batch \in Injection(1..Len(batch), Event)
      BY <2>1, <2>2 DEF Injection
    <3>2. Cardinality(1..Len(batch)) <= Cardinality(Event)
      BY <3>1, FS_Injection
    <3>3. Cardinality(1..Len(batch)) = Len(batch)
      <4>1. 1 \in Int /\ Len(batch) \in Int /\ Len(batch) >= 1
        BY <1>3, <1>4
      <4>2. Cardinality(1..Len(batch)) = IF 1 > Len(batch) THEN 0 ELSE Len(batch) - 1 + 1
        BY <4>1, FS_Interval
      <4>3. QED
        BY <4>1, <4>2
    <3>4. QED
      BY <3>2, <3>3, FS_CardinalityType
  <2>4. Len(batch) \in 1..Cardinality(Event)
    BY <1>3, <1>4, <2>3
  <2>5. PICK n \in 1..Cardinality(Event) : n = Len(batch)
    BY <2>4
  <2>6. batch \in {b \in [1..n -> Event] : Promise!IsInjective(b)}
    BY <2>1, <2>2, <2>5
  <2>7. Promise!Batches =
          UNION {{b \in [1..m -> Event] : Promise!IsInjective(b)} : m \in 1..Cardinality(Event)}
    BY DEF Promise!Batches, Promise!Cardinality, Cardinality
  <2>8. {b \in [1..n -> Event] : Promise!IsInjective(b)} \in
          {{b \in [1..m -> Event] : Promise!IsInjective(b)} : m \in 1..Cardinality(Event)}
    BY <2>5
  <2>9. QED
    BY <2>6, <2>7, <2>8
<1>7. \A e \in Range(batch) : Outcomes[e] \in {"pending", "unknown"} /\ ~Promise!Committed(e)
  <2>1. ASSUME NEW e \in Range(batch) PROVE status[e] \in Open
    BY <1>2, <1>3, <2>1 DEF Truths, Undecided, Range
  <2>2. ASSUME NEW e \in Range(batch) PROVE ~Committed(e)
    BY <1>1, <1>2, <2>2, UnsentNotCommitted
  <2>3. QED
    BY <1>1, <1>3, <2>1, <2>2, OutcomeIs, CommitsAre DEF Open
<1>8. Outcomes' = Outcomes
  BY <1>2 DEF Outcomes, OutcomeOf
<1>9. N \in Nat /\ Cardinality(DOMAIN log') = N + 1
  <2>1. IsFiniteSet(DOMAIN log) /\ DOMAIN log' = DOMAIN log \cup {number[c]}
    BY <1>1, <1>2 DEF TypeOK
  <2>2. QED
    BY <1>2, <2>1, FS_AddElement, FS_CardinalityType
<1>10. DenseLog'
  BY <1>1, LogGrows
<1>11. number[c] = N + 1
  <2>1. DOMAIN log = 1..N /\ DOMAIN log' = 1..(N + 1)
    BY <1>1, <1>9, <1>10 DEF DenseLog
  <2>2. number[c] \in 1..(N + 1) /\ number[c] \notin 1..N
    BY <1>2, <2>1
  <2>3. QED
    BY <1>9, <2>2
<1> HIDE DEF N, batch
<1>12. Commits' = Append(Commits, batch)
  <2>1. /\ Commits \in Seq(Seq(Event \cup {OldEvent})) /\ Len(Commits) = N
        /\ \A n \in 1..N : Commits[n] = log[n]
    <3>1. DOMAIN log = 1..N
      BY <1>1 DEF DenseLog, N
    <3>2. QED
      BY <1>1, <3>1, CommitsAre DEF N
  <2>2. batch \in Seq(Event \cup {OldEvent})
    BY <1>3, SeqMonotonic, Event \subseteq Event \cup {OldEvent}
  <2>3. /\ Append(Commits, batch) \in Seq(Seq(Event \cup {OldEvent}))
        /\ Len(Append(Commits, batch)) = N + 1
        /\ \A n \in 1..N : Append(Commits, batch)[n] = Commits[n]
        /\ Append(Commits, batch)[N + 1] = batch
    BY <2>1, <2>2, AppendProperties
  <2>4. Commits' = [n \in 1..(N + 1) |-> log'[n]]
    BY <1>9 DEF Commits, N
  <2>5. \A n \in 1..N : log'[n] = log[n]
    <3>1. DOMAIN log = 1..N
      BY <1>1 DEF DenseLog, N
    <3>2. QED
      BY <1>2, <3>1
  <2>6. log'[N + 1] = batch
    BY <1>2, <1>11 DEF batch
  <2>7. DOMAIN Append(Commits, batch) = 1..(N + 1)
    BY <2>3, LenProperties
  <2>8. \A n \in 1..(N + 1) : Append(Commits, batch)[n] = log'[n]
    BY <1>9, <2>1, <2>3, <2>5, <2>6
  <2>9. Append(Commits, batch) = [n \in 1..(N + 1) |-> Append(Commits, batch)[n]]
    BY <2>3, <2>7, LenProperties
  <2>10. QED
    BY <2>4, <2>8, <2>9
<1>13. ASSUME NEW b \in Promise!Batches, b = batch
       PROVE  Promise!Next
  <2>1. \A e \in Promise!Range(b) : Outcomes[e] \in {"pending", "unknown"} /\ ~Promise!Committed(e)
    BY <1>7, <1>13 DEF Promise!Range, Range
  <2>2. Commits' = Append(Commits, b) /\ Outcomes' = Outcomes /\ seq' = seq
    BY <1>2, <1>8, <1>12, <1>13
  <2>3. Promise!Commit(b)
    BY <2>1, <2>2, Zenon DEF Promise!Commit, Commits, Outcomes
  <2>4. QED
    BY <2>3 DEF Promise!Next
<1>14. QED
  BY <1>6, <1>13

LEMMA StepRefines ==
  ASSUME IsFiniteSet(Event), NoResend, Honest, IInv, IInv', Places, Recorded, Records, Truths,
         [Next]_vars
  PROVE  [Promise!Next]_Promise!vars
<1>1. TypeOK /\ TypeOK' /\ DenseLog /\ AckedDurably'
  BY DEF IInv
<1>2. ASSUME NEW c \in Writer, Takes(c) \/ Proceeds(c) PROVE Promise!Next
  <2>1. /\ UNCHANGED <<log, seq>>
        /\ \A e \in Event : status'[e] = status[e] \/ (status[e] = "pending" /\ status'[e] = "lost")
    BY <1>2 DEF Takes, Proceeds, Loses
  <2>2. QED
    BY <1>1, <2>1, ForgetRefines
<1>3. ASSUME NEW c \in Writer, Stores(c) PROVE Promise!Next
  BY <1>1, <1>3, CommitRefines
<1>4. ASSUME NEW c \in Writer, Ends(c) PROVE Promise!Next
  <2>1. /\ UNCHANGED log /\ Answered(c)
        /\ \A e \in Event : status'[e] = status[e] \/ Decided(c, e)
        /\ Agree(c)
    BY <1>4 DEF Ends
  <2>2. CASE Agreed({"ok"})
    <3>1. \A e \in Event : \/ status'[e] = status[e] /\ seq'[e] = seq[e]
                           \/ status[e] = "pending" /\ status'[e] = "ok"
      BY <2>1, <2>2 DEF Agreed, Decided, Answered
    <3>2. QED
      BY <1>1, <2>1, <3>1, AcknowledgeRefines
  <2>3. ASSUME Agreed({"error"}) \/ Agreed({"failed", "rejected"}) PROVE UNCHANGED seq
    <3>1. \A e \in Event : seq'[e] = seq[e]
      BY <2>1, <2>3 DEF Agreed, Answered
    <3>2. QED
      BY <1>1, <3>1 DEF TypeOK
  <2>4. CASE Agreed({"error"})
    <3>1. \A e \in Event : \/ status'[e] = status[e]
                           \/ status[e] = "pending" /\ status'[e] \in {"error", "lost"}
      BY <2>1, <2>4 DEF Agreed, Decided
    <3>2. QED
      BY <1>1, <2>1, <2>3, <2>4, <3>1, ForgetRefines
  <2>5. CASE Agreed({"failed", "rejected"})
    <3>1. ASSUME NEW e \in Event, status'[e] # status[e]
          PROVE  /\ status[e] = "pending" /\ status'[e] \in {"failed", "rejected"}
                 /\ e \in Range(work[c]) /\ Unsent(c)
      BY <1>1, <2>1, <2>5, <3>1, NoneCancelled DEF Agreed, Decided
    <3>2. \A e \in Event : \/ status'[e] = status[e]
                           \/ /\ status[e] \in {"new", "pending"} /\ ~Committed(e)
                              /\ status'[e] \in {"failed", "rejected"}
      BY <1>1, <3>1, UnsentNotCommitted
    <3>3. QED
      BY <1>1, <2>1, <2>3, <2>5, <3>2, FailRefines
  <2>6. CASE \A e \in Event : status'[e] = status[e]
    BY <2>2, <2>6 DEF Agreed
  <2>7. ASSUME NEW e \in Event, status'[e] # status[e]
        PROVE  Agreed({"ok"}) \/ Agreed({"error"}) \/ Agreed({"failed", "rejected"})
    <3>1. Decided(c, e)
      BY <2>1, <2>7
    <3>2. \A x \in Range(work[c]) : status[x] # "cancelled"
      BY <1>1, <3>1, NoneCancelled
    <3>3. QED
      BY <2>1, <3>2 DEF Agree
  <2>8. QED
    BY <2>2, <2>4, <2>5, <2>6, <2>7
<1>5. ASSUME NEW c \in Writer, Retries(c) PROVE Promise!Next
  <2>1. /\ UNCHANGED <<log, seq>> /\ Unsent(c)
        /\ \A e \in Event : \/ status'[e] = status[e]
                            \/ /\ status[e] = "pending" /\ status'[e] = "rejected"
                               /\ e \in Range(work[c])
    BY <1>5 DEF Retries, Unsent
  <2>2. \A e \in Event : \/ status'[e] = status[e]
                         \/ /\ status[e] \in {"new", "pending"} /\ ~Committed(e)
                            /\ status'[e] \in {"failed", "rejected"}
    BY <1>1, <2>1, UnsentNotCommitted
  <2>3. QED
    BY <1>1, <2>1, <2>2, FailRefines
<1>6. CASE TurnsAway
  <2>1. UNCHANGED <<log, seq>>
    BY <1>6 DEF TurnsAway
  <2>2. ASSUME \A e \in Event : \/ status'[e] = status[e]
                                \/ status[e] = "new" /\ status'[e] = "failed"
        PROVE  Promise!Next
    <3>1. \A e \in Event : \/ status'[e] = status[e]
                           \/ /\ status[e] \in {"new", "pending"} /\ ~Committed(e)
                              /\ status'[e] \in {"failed", "rejected"}
      BY <1>1, <2>2, NewNotCommitted
    <3>2. QED
      BY <1>1, <2>1, <3>1, FailRefines
  <2>3. ASSUME \A e \in Event : \/ status'[e] = status[e]
                                \/ status[e] = "pending" /\ status'[e] = "cancelled"
        PROVE  Promise!Next
    BY <1>1, <2>1, <2>3, ForgetRefines
  <2>4. QED
    BY <1>6, <2>2, <2>3 DEF TurnsAway
<1>7. QED
  BY <1>1, <1>2, <1>3, <1>4, <1>5, <1>6, SubmitRefines, StepForms

(* The protocol keeps what CommitLog promises its callers: a step of any     *)
(* Committer adds one batch to the end of the log, tells callers the truth   *)
(* about their events, or changes nothing they can see.  The SDK must resend *)
(* no put and no append be cancelled in company, as for the failures above.  *)
THEOREM Refinement ==
  ASSUME IsFiniteSet(Event), NoResend, Honest
  PROVE  Spec => ImplementsCommitLog
<1>1. Init => Promise!Init
  BY InitRefines
<1>2. IInv /\ IInv' /\ Places /\ Recorded /\ Records /\ Truths /\ [Next]_vars =>
        [Promise!Next]_Promise!vars
  BY StepRefines
<1>3. QED
  BY <1>1, <1>2, Inductive, AlwaysPlaces, AlwaysRecorded, AlwaysRecords, AlwaysTruths, PTL
     DEF Spec, ImplementsCommitLog, Promise!Spec
=============================================================================
