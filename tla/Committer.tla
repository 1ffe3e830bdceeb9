------------------------------ MODULE Committer ------------------------------
(***************************************************************************)
(* The commit protocol of src/cairndb/committer.py: any number of          *)
(* Committers, in any processes, writing one log of a bucket whose only    *)
(* arbiter is put_commit, a put-if-absent.                                 *)
(*                                                                         *)
(* A Committer is a queue of pending events, each with the future its      *)
(* caller awaits, and one flusher task.  Every await of the flusher is a   *)
(* step of its own, so the steps of several Committers, and the calls      *)
(* append_many, cancel and close on each of them, interleave between any   *)
(* two storage round trips.  A storage call is one step (its effect on the *)
(* bucket) and the flusher's handling of the reply another.                *)
(***************************************************************************)
EXTENDS Integers, Sequences, FiniteSets, Functions, FiniteSetsExt

CONSTANTS
  Writer,        \* the Committer instances
  Event,         \* events handed to append_many, each by one call
  Call,          \* calls of append_many (append is a call with one event)
  EventsOf,      \* the events of each call, in order
  Revalidating,  \* the Committers built with a revalidate hook
  MaxEvents,     \* max_events_per_commit
  MaxAttempts,   \* max_commit_attempts
  TailHint,      \* each Committer's tail_hint
  History,       \* how many commits the bucket already holds
  OldEvent,      \* stands for the events of those commits
  NoTail,        \* the tail before it is discovered (None)
  Faults         \* which of the faults below can happen

(* Every way in which the environment of a Committer can disturb it. *)
Fault ==
  { "conflict",      \* a put is refused while no object is visible (S3 409)
    "putError",      \* a put raises, and had no effect
    "putErrorAfter", \* a put raises although the object was stored
    "putRetried",    \* the SDK resends a put that was stored: it sees itself win
    "readError",     \* a GET or LIST raises, or a commit does not parse
    "hookError",     \* the revalidate hook raises, or returns a bad list
    "cancelAppend",  \* a task awaiting append_many is cancelled
    "cancelClose",   \* a task awaiting close is cancelled
    "crash" }        \* a process dies

ASSUME ConfigAssumption ==
  /\ MaxEvents \in Nat \ {0}
  /\ MaxAttempts \in Nat \ {0}
  /\ History \in Nat
  /\ TailHint \in [Writer -> 0..History]
  /\ Revalidating \subseteq Writer
  /\ Faults \subseteq Fault

ASSUME EventAssumption ==
  /\ EventsOf \in [Call -> Seq(Event) \ {<<>>}]
  /\ OldEvent \notin Event
  /\ NoTail \notin Int

(* No event is handed to append twice, by two calls or within one. *)
ASSUME CallAssumption ==
  \A a, b \in Call : \A i \in DOMAIN EventsOf[a], j \in DOMAIN EventsOf[b] :
    EventsOf[a][i] = EventsOf[b][j] => a = b /\ i = j

VARIABLES
  log,       \* the bucket's commits: number -> the events of log/{number}
  pending,   \* _pending: events waiting for a batch
  pc,        \* where the flusher task is
  work,      \* pendings: the events of the batch being committed
  attempt,   \* the attempt at committing it
  number,    \* the commit number being tried
  reply,     \* what put_commit returned or raised
  cursor,    \* the number _advance_tail reads next
  tail,      \* _tail
  closed,    \* _closed
  status,    \* the state of each event's future
  seq,       \* the result of each event's future
  arrivals   \* history: the events each Committer took in, in order

flusher == <<pc, work, attempt, number, reply, cursor, tail>>
futures == <<status, seq>>
vars == <<log, pending, flusher, closed, futures, arrivals>>

Phase ==
  {"unstarted", "waiting", "number", "put", "reply", "advance", "revalidate",
   "stopped", "killed", "crashed", "inflight"}

Status ==
  {"new", "pending", "ok", "rejected", "failed", "error", "cancelled", "lost"}

Reply == {"none", "won", "lost", "error"}

SequenceNumber == [commit : Nat, index : Nat]
NoSeq == [commit |-> 0, index |-> 0]

(* Flushers that will never run again; one whose last put may still land    *)
(* after its task or process ended is "inflight".                           *)
Ended == {"stopped", "killed", "crashed"}
Running == Phase \ (Ended \cup {"inflight", "unstarted"})

-----------------------------------------------------------------------------
(* The bucket and the futures *)

(* Mutant: the put that does not look at what is there. *)
AbsentMutant(n) == n \in Nat
Absent(n) == n \notin DOMAIN log

Store(n, events) ==
  log' = [m \in DOMAIN log \cup {n} |-> IF m = n THEN events ELSE log[m]]

Committed(e) == \E n \in DOMAIN log : e \in Range(log[n])

(* The futures of events that c holds: those of its queue and of its batch. *)
HeldBy(c) == Range(pending[c]) \cup Range(work[c])

(* set_result or set_exception on a future that was cancelled raises        *)
(* InvalidStateError, so a loop over the futures of the events E of a batch *)
(* reaches only those before the first cancelled one.                       *)
Reached(E, events) ==
  {events[i] : i \in {j \in DOMAIN events :
     /\ events[j] \in E
     /\ \A k \in 1..j : events[k] \in E => status[events[k]] # "cancelled"}}

(* The futures of E get `outcome', and _run's handler fails the others of   *)
(* the batch that are not done.                                             *)
Settle(E, events, outcome) ==
  [e \in Event |->
     IF status[e] # "pending" \/ e \notin Range(events) THEN status[e]
     ELSE IF e \in E THEN outcome ELSE "failed"]

-----------------------------------------------------------------------------
Init ==
  /\ log = [n \in 1..History |-> <<OldEvent>>]
  /\ pending = [c \in Writer |-> <<>>]
  /\ pc = [c \in Writer |-> "unstarted"]
  /\ work = [c \in Writer |-> <<>>]
  /\ attempt = [c \in Writer |-> 0]
  /\ number = [c \in Writer |-> 0]
  /\ reply = [c \in Writer |-> "none"]
  /\ cursor = [c \in Writer |-> 0]
  /\ tail = [c \in Writer |-> NoTail]
  /\ closed = [c \in Writer |-> FALSE]
  /\ status = [e \in Event |-> "new"]
  /\ seq = [e \in Event |-> NoSeq]
  /\ arrivals = [c \in Writer |-> <<>>]

-----------------------------------------------------------------------------
(* The calls on a Committer *)

(* append_many: enqueue every event with a fresh future, start the flusher   *)
(* if it is not running, wake it, and await the futures.                     *)
AppendMany(c, a) ==
  /\ \A e \in Range(EventsOf[a]) : status[e] = "new"
  /\ ~closed[c] /\ pc[c] \notin Ended \cup {"inflight"}
  /\ pending' = [pending EXCEPT ![c] = @ \o EventsOf[a]]
  /\ status' = [e \in Event |->
                  IF e \in Range(EventsOf[a]) THEN "pending" ELSE status[e]]
  /\ pc' = [pc EXCEPT ![c] = IF @ = "unstarted" THEN "waiting" ELSE @]
  /\ arrivals' = [arrivals EXCEPT ![c] = @ \o EventsOf[a]]
  /\ UNCHANGED <<log, work, attempt, number, reply, cursor, tail, closed, seq>>

(* append_many on a closed Committer raises CommitError and enqueues nothing. *)
RefuseAppend(c, a) ==
  /\ \A e \in Range(EventsOf[a]) : status[e] = "new"
  /\ closed[c] /\ pc[c] \in Running \cup {"stopped", "killed"}
  /\ status' = [e \in Event |->
                  IF e \in Range(EventsOf[a]) THEN "failed" ELSE status[e]]
  /\ UNCHANGED <<log, pending, flusher, closed, seq, arrivals>>

(* The task awaiting append_many is cancelled: gather cancels every future   *)
(* of the call that is not done.  The events stay in the queue or the batch. *)
CancelAppend(a) ==
  /\ "cancelAppend" \in Faults
  /\ \E e \in Range(EventsOf[a]) : status[e] = "pending"
  /\ status' = [e \in Event |->
                  IF e \in Range(EventsOf[a]) /\ status[e] = "pending"
                    THEN "cancelled" ELSE status[e]]
  /\ UNCHANGED <<log, pending, flusher, closed, seq, arrivals>>

(* close: refuse new events, wake the flusher and await its end.  A          *)
(* Committer that never started its flusher is closed at once.               *)
Close(c) ==
  /\ ~closed[c] /\ pc[c] \notin Ended \cup {"inflight"}
  /\ closed' = [closed EXCEPT ![c] = TRUE]
  /\ pc' = [pc EXCEPT ![c] = IF @ = "unstarted" THEN "stopped" ELSE @]
  /\ UNCHANGED <<log, pending, work, attempt, number, reply, cursor, tail,
                 futures, arrivals>>

(* The task awaiting close is cancelled, and with it the flusher it awaits.  *)
(* Nobody resolves the futures the flusher held.  A put handed to a thread   *)
(* goes on.                                                                  *)
CancelClose(c) ==
  /\ "cancelClose" \in Faults
  /\ closed[c] /\ pc[c] \in Running
  /\ pc' = [pc EXCEPT ![c] = IF @ = "put" THEN "inflight" ELSE "killed"]
  /\ UNCHANGED <<log, pending, work, attempt, number, reply, cursor, tail,
                 closed, futures, arrivals>>

(* The process of c dies; a put it sent may still reach the bucket.          *)
Crash(c) ==
  /\ "crash" \in Faults
  /\ pc[c] \in Running
  /\ pc' = [pc EXCEPT ![c] = IF @ = "put" THEN "inflight" ELSE "crashed"]
  /\ status' = [e \in Event |->
                  IF e \in HeldBy(c) /\ status[e] = "pending"
                    THEN "lost" ELSE status[e]]
  /\ UNCHANGED <<log, pending, work, attempt, number, reply, cursor, tail,
                 closed, seq, arrivals>>

(* ... later, or never. *)
Straggle(c) ==
  /\ pc[c] = "inflight"
  /\ \/ Absent(number[c]) /\ Store(number[c], work[c])
     \/ UNCHANGED log
  /\ pc' = [pc EXCEPT ![c] = "crashed"]
  /\ UNCHANGED <<pending, work, attempt, number, reply, cursor, tail, closed,
                 futures, arrivals>>

-----------------------------------------------------------------------------
(* The flusher *)

(* Mutant: pop() for popleft(). *)
BatchOfMutant(q) ==
  [i \in 1..Min({Len(q), MaxEvents}) |-> q[Len(q) + 1 - i]]
BatchOf(q) == SubSeq(q, 1, Min({Len(q), MaxEvents}))

(* Mutant: the batch's events stay in the queue. *)
RestMutant(q) == q
Rest(q) == SubSeq(q, Min({Len(q), MaxEvents}) + 1, Len(q))

(* _run: take up to max_events_per_commit events off the queue.  Waiting for *)
(* the wake event and sleeping max_batch_wait_seconds only delay this.       *)
TakeBatch(c) ==
  /\ pc[c] = "waiting" /\ pending[c] # <<>>
  /\ work' = [work EXCEPT ![c] = BatchOf(pending[c])]
  /\ pending' = [pending EXCEPT ![c] = Rest(@)]
  /\ attempt' = [attempt EXCEPT ![c] = 1]
  /\ pc' = [pc EXCEPT ![c] = "number"]
  /\ UNCHANGED <<log, number, reply, cursor, tail, closed, futures, arrivals>>

(* Mutant: the loop looks at _closed before it looks at the queue. *)
DrainedMutant(c) == closed[c]
Drained(c) == closed[c] /\ pending[c] = <<>>

(* _run: closed and drained. *)
Stop(c) ==
  /\ pc[c] = "waiting" /\ Drained(c)
  /\ pc' = [pc EXCEPT ![c] = "stopped"]
  /\ UNCHANGED <<log, pending, work, attempt, number, reply, cursor, tail,
                 closed, futures, arrivals>>

ListedTail(hint) ==
  LET listed == {n \in DOMAIN log : n > hint}
  IN IF listed = {} THEN hint ELSE Max(listed)

(* _next_number: the number after the tail; a Committer that has none yet    *)
(* lists the commits after its hint.                                         *)
NextNumber(c) ==
  /\ pc[c] = "number"
  /\ LET known == IF tail[c] = NoTail THEN ListedTail(TailHint[c]) ELSE tail[c]
     IN /\ tail' = [tail EXCEPT ![c] = known]
        /\ number' = [number EXCEPT ![c] = known + 1]
  /\ pc' = [pc EXCEPT ![c] = "put"]
  /\ UNCHANGED <<log, pending, work, attempt, reply, cursor, closed, futures, arrivals>>

Answer(c, r) ==
  /\ pc[c] = "put"
  /\ reply' = [reply EXCEPT ![c] = r]
  /\ pc' = [pc EXCEPT ![c] = "reply"]
  /\ UNCHANGED <<pending, work, attempt, number, cursor, tail, closed, futures, arrivals>>

(* put_commit creates log/{number} and answers True, ... *)
PutWins(c) ==
  /\ Absent(number[c]) /\ Store(number[c], work[c])
  /\ Answer(c, "won")

(* ... finds it there and answers False, ... *)
PutLoses(c) == ~Absent(number[c]) /\ UNCHANGED log /\ Answer(c, "lost")

(* ... or is disturbed in one of the ways of Fault. *)
PutConflicts(c) ==
  /\ "conflict" \in Faults
  /\ Absent(number[c]) /\ UNCHANGED log /\ Answer(c, "lost")

PutFails(c) ==
  /\ \/ "putError" \in Faults /\ UNCHANGED log
     \/ "putErrorAfter" \in Faults /\ Absent(number[c]) /\ Store(number[c], work[c])
  /\ Answer(c, "error")

PutRetried(c) ==
  /\ "putRetried" \in Faults
  /\ Absent(number[c]) /\ Store(number[c], work[c])
  /\ Answer(c, "lost")

(* The locals of an attempt are gone when it is over. *)
ClearAttempt(c) ==
  /\ number' = [number EXCEPT ![c] = 0]
  /\ reply' = [reply EXCEPT ![c] = "none"]
  /\ cursor' = [cursor EXCEPT ![c] = 0]

(* The end of a batch, with the futures left as `outcomes'. *)
EndBatch(c, outcomes) ==
  /\ status' = outcomes
  /\ work' = [work EXCEPT ![c] = <<>>]
  /\ attempt' = [attempt EXCEPT ![c] = 0]
  /\ ClearAttempt(c)
  /\ pc' = [pc EXCEPT ![c] = "waiting"]

(* Mutant: the sequence number is counted from 1. *)
SequenceOfMutant(n, events, e) ==
  [commit |-> n, index |-> CHOOSE i \in DOMAIN events : events[i] = e]
SequenceOf(n, events, e) ==
  [commit |-> n, index |-> (CHOOSE i \in DOMAIN events : events[i] = e) - 1]

(* _commit_batch after a put that won: _tail, then each future in turn.      *)
HandleWon(c) ==
  /\ pc[c] = "reply" /\ reply[c] = "won"
  /\ tail' = [tail EXCEPT ![c] = number[c]]
  /\ EndBatch(c, Settle(Reached(Range(work[c]), work[c]), work[c], "ok"))
  /\ seq' = [e \in Event |->
               IF status'[e] = "ok" /\ status[e] # "ok"
                 THEN SequenceOf(number[c], work[c], e) ELSE seq[e]]
  /\ UNCHANGED <<log, pending, closed, arrivals>>

(* ... after one that raised: the exception goes to each future in turn.     *)
HandleError(c) ==
  /\ pc[c] = "reply" /\ reply[c] = "error"
  /\ EndBatch(c, Settle(Reached(Range(work[c]), work[c]), work[c], "error"))
  /\ UNCHANGED <<log, pending, tail, closed, seq, arrivals>>

(* ... after one that lost: _advance_tail reads on from the number tried.    *)
HandleLost(c) ==
  /\ pc[c] = "reply" /\ reply[c] = "lost"
  /\ cursor' = [cursor EXCEPT ![c] = number[c]]
  /\ pc' = [pc EXCEPT ![c] = "advance"]
  /\ UNCHANGED <<log, pending, work, attempt, number, reply, tail, closed, futures, arrivals>>

(* Mutant: one attempt too many. *)
LastAttemptMutant(c) == attempt[c] > MaxAttempts
LastAttempt(c) == attempt[c] >= MaxAttempts

(* Mutant: the futures are forgotten after the last attempt. *)
GiveUpMutant(kept, outcomes) == outcomes
GiveUp(kept, outcomes) ==
  [e \in Event |-> IF e \in Range(kept) /\ outcomes[e] = "pending"
                     THEN "failed" ELSE outcomes[e]]

(* The next attempt with the events kept, or CommitError for all of them     *)
(* after the last one.                                                       *)
RetryOrGiveUp(c, kept, outcomes) ==
  IF LastAttempt(c)
    THEN EndBatch(c, GiveUp(kept, outcomes))
    ELSE /\ attempt' = [attempt EXCEPT ![c] = @ + 1]
         /\ work' = [work EXCEPT ![c] = kept]
         /\ pc' = [pc EXCEPT ![c] = "number"]
         /\ status' = outcomes
         /\ ClearAttempt(c)

(* _advance_tail: one GET that finds a commit, ... *)
ReadCommit(c) ==
  /\ pc[c] = "advance" /\ cursor[c] \in DOMAIN log
  /\ cursor' = [cursor EXCEPT ![c] = @ + 1]
  /\ UNCHANGED <<log, pending, pc, work, attempt, number, reply, tail, closed,
                 futures, arrivals>>

(* ... or the GET that finds none, at the number tried: the winner is not    *)
(* visible yet, so back off and try the same number again; ...               *)
BackOff(c) ==
  /\ pc[c] = "advance" /\ cursor[c] \notin DOMAIN log
  /\ cursor[c] = number[c]
  /\ RetryOrGiveUp(c, work[c], status)
  /\ UNCHANGED <<log, pending, tail, closed, seq, arrivals>>

(* Mutant: the tail is the number that was not there. *)
ReachedTailMutant(c) == cursor[c]
ReachedTail(c) == cursor[c] - 1

(* ... or further on: the commits before it are the interleaved ones.        *)
Advance(c) ==
  /\ pc[c] = "advance" /\ cursor[c] \notin DOMAIN log
  /\ cursor[c] # number[c]
  /\ tail' = [tail EXCEPT ![c] = ReachedTail(c)]
  /\ IF c \in Revalidating
       THEN /\ pc' = [pc EXCEPT ![c] = "revalidate"]
            /\ UNCHANGED <<work, attempt, number, reply, cursor, status>>
       ELSE RetryOrGiveUp(c, work[c], status)
  /\ UNCHANGED <<log, pending, closed, seq, arrivals>>

(* The ways to keep some of a batch's events, in their order. *)
Selections(events) ==
  UNION {{[i \in 1..n |-> events[f[i]]] :
            f \in {g \in [1..n -> DOMAIN events] :
                     \A i, j \in 1..n : i < j => g[i] < g[j]}} :
         n \in 0..Len(events)}

(* Mutant: the batch goes on with the events the hook rejected.              *)
KeptMutant(events, kept) == events
Kept(events, kept) == kept

(* _apply_revalidation: the hook keeps some events and rejects the others,   *)
(* whose futures fail one by one.                                            *)
RevalidateTo(c, kept) ==
  /\ pc[c] = "revalidate"
  /\ LET rejected == Range(work[c]) \ Range(kept)
         outcomes == [e \in Event |->
                        IF e \in rejected /\ status[e] = "pending"
                          THEN "rejected" ELSE status[e]]
     IN /\ \A e \in rejected : status[e] # "cancelled"
        /\ IF kept = <<>> THEN EndBatch(c, outcomes)
           ELSE RetryOrGiveUp(c, Kept(work[c], kept), outcomes)
  /\ UNCHANGED <<log, pending, tail, closed, seq, arrivals>>

Revalidate(c) == \E kept \in Selections(work[c]) : RevalidateTo(c, kept)

(* The hook rejects an event whose future was cancelled: the futures of the  *)
(* rejected events before it fail as rejected, all others as unexpected.     *)
RejectCancelled(c, rejected) ==
  /\ pc[c] = "revalidate"
  /\ \E e \in rejected : status[e] = "cancelled"
  /\ EndBatch(c, Settle(Reached(rejected, work[c]), work[c], "rejected"))
  /\ UNCHANGED <<log, pending, tail, closed, seq, arrivals>>

RevalidateCancelled(c) ==
  \E rejected \in SUBSET Range(work[c]) : RejectCancelled(c, rejected)

(* An exception nobody expected ends the batch in _run's handler.            *)
UnexpectedError(c) ==
  /\ \/ "readError" \in Faults /\ pc[c] = "number" /\ tail[c] = NoTail
     \/ "readError" \in Faults /\ pc[c] = "advance"
     \/ "hookError" \in Faults /\ pc[c] = "revalidate"
  /\ EndBatch(c, Settle({}, work[c], "failed"))
  /\ UNCHANGED <<log, pending, tail, closed, seq, arrivals>>

PutReturns(c) ==
  PutWins(c) \/ PutLoses(c) \/ PutConflicts(c) \/ PutFails(c) \/ PutRetried(c)

(* Everything a flusher does but for the decisions of its hook. *)
ProtocolStep(c) ==
  \/ TakeBatch(c) \/ Stop(c) \/ NextNumber(c) \/ PutReturns(c)
  \/ HandleWon(c) \/ HandleError(c) \/ HandleLost(c)
  \/ ReadCommit(c) \/ BackOff(c) \/ Advance(c) \/ UnexpectedError(c)

FlusherStep(c) == ProtocolStep(c) \/ Revalidate(c) \/ RevalidateCancelled(c)

(* Every flusher has come to its end; nothing is left to happen. *)
Terminated == (\A c \in Writer : pc[c] \in Ended) /\ UNCHANGED vars

Next ==
  \/ \E c \in Writer :
       \/ FlusherStep(c)
       \/ \E a \in Call : AppendMany(c, a) \/ RefuseAppend(c, a)
       \/ Close(c) \/ CancelClose(c) \/ Crash(c) \/ Straggle(c)
  \/ \E a \in Call : CancelAppend(a)
  \/ Terminated

Spec == Init /\ [][Next]_vars

(* The event loop runs the flusher whenever it can run, and every storage    *)
(* call returns.  Nobody is obliged to call anything.                        *)
FairSpec == Spec /\ \A c \in Writer : WF_vars(FlusherStep(c))

-----------------------------------------------------------------------------
(* Properties *)

(* Every variable stays in its range (the fields of committer.py 114-118).   *)
TypeOK ==
  /\ DOMAIN log \subseteq Nat \ {0} /\ IsFiniteSet(DOMAIN log)
  /\ \A n \in DOMAIN log : log[n] \in Seq(Event \cup {OldEvent})
  /\ pending \in [Writer -> Seq(Event)]
  /\ pc \in [Writer -> Phase]
  /\ work \in [Writer -> Seq(Event)]
  /\ attempt \in [Writer -> 0..MaxAttempts]
  /\ number \in [Writer -> Nat]
  /\ reply \in [Writer -> Reply]
  /\ cursor \in [Writer -> Nat]
  /\ tail \in [Writer -> Nat \cup {NoTail}]
  /\ closed \in [Writer -> BOOLEAN]
  /\ status \in [Event -> Status]
  /\ seq \in [Event -> SequenceNumber]
  /\ arrivals \in [Writer -> Seq(Event)]

(* Commit N+1 exists only after commit N, however many Committers race, find *)
(* their tails late, are refused without seeing a winner, or leave puts      *)
(* behind when they die (docs/concepts/logs.md 3-4).                         *)
DenseLog == DOMAIN log = 1..Cardinality(DOMAIN log)

(* No Committer ever counts on a commit that does not exist: all commits up  *)
(* to its _tail, below the number it tries and below the one it reads next   *)
(* are in the log, so that it never leaves a gap (_next_number, 297-303, and *)
(* _advance_tail, 305-321).                                                  *)
UpTo(n) == 1..n \subseteq DOMAIN log

KnownTo(c) ==
  /\ tail[c] # NoTail => UpTo(tail[c])
  /\ pc[c] \in {"put", "inflight", "reply", "advance"} =>
       number[c] >= 1 /\ UpTo(number[c] - 1)
  /\ pc[c] = "advance" => number[c] <= cursor[c] /\ UpTo(cursor[c] - 1)

KnownPrefix == \A c \in Writer : KnownTo(c)

(* An append that returned has its event at the sequence number it returned, *)
(* for good: no ack before the put, and no later put over it (_commit_batch, *)
(* committer.py 264-274).                                                    *)
AckedDurably ==
  \A e \in Event : status[e] = "ok" =>
    /\ seq[e].commit \in DOMAIN log
    /\ seq[e].index + 1 \in DOMAIN log[seq[e].commit]
    /\ log[seq[e].commit][seq[e].index + 1] = e

(* What makes the acknowledgements true: a put that won left the batch at    *)
(* its number.                                                               *)
WonIsStored ==
  \A c \in Writer : pc[c] = "reply" /\ reply[c] = "won" =>
    number[c] \in DOMAIN log /\ log[number[c]] = work[c]

(* The inductive invariant of the proofs. *)
IInv ==
  TypeOK /\ DenseLog /\ UpTo(History) /\ KnownPrefix /\ WonIsStored /\ AckedDurably

(* No event is in the log twice: an attempt that is repeated after a lost    *)
(* race did not put anything (the retry loop of _commit_batch, 249-288).     *)
CommittedOnce ==
  \A n, m \in DOMAIN log : \A i \in DOMAIN log[n], j \in DOMAIN log[m] :
    log[n][i] \in Event /\ log[n][i] = log[m][j] => n = m /\ i = j

(* An append that failed with CommitError or EventRejectedError has not put  *)
(* its event in the log (the Raises section of append, committer.py 150-153). *)
FailedNotCommitted ==
  \A e \in Event : status[e] \in {"failed", "rejected"} => ~Committed(e)

(* The events one Committer took in are committed in the order in which it   *)
(* took them in, whatever batches they fall into and whatever fails between  *)
(* ("preserving their relative order", append_many, 159-165).                *)
FifoPerWriter ==
  \A c \in Writer : \A k, l \in DOMAIN arrivals[c] : k < l =>
    \A n, m \in DOMAIN log : \A i \in DOMAIN log[n], j \in DOMAIN log[m] :
      log[n][i] = arrivals[c][k] /\ log[m][j] = arrivals[c][l]
        => n < m \/ (n = m /\ i < j)

(* close() returns only when nobody waits for an event it took in (187-196). *)
CloseDrains ==
  \A c \in Writer : pc[c] = "stopped" =>
    \A e \in Range(arrivals[c]) : status[e] # "pending"

(* A step leaves every commit as it is, and a commit it adds comes after all *)
(* of them: an append begun after another returned gets a higher sequence    *)
(* number, whoever made them ("Linearizable appends and a total order per    *)
(* log", docs/concepts/consistency.md 10).                                   *)
LogGrowsAtEnd ==
  [][/\ \A n \in DOMAIN log : n \in DOMAIN log' /\ log'[n] = log[n]
     /\ \A n \in DOMAIN log' \ DOMAIN log : \A m \in DOMAIN log : m < n]_vars

(* Every append comes to an end, in success or failure, unless its flusher   *)
(* dies with its process or is killed by the cancellation of a close().  And *)
(* so does the flusher a close awaits, while lost races and errors go on.    *)
EveryCallReturns ==
  /\ \A c \in Writer, e \in Event :
       e \in HeldBy(c) /\ status[e] = "pending" ~>
         status[e] # "pending" \/ pc[c] \in {"killed", "inflight", "crashed"}
  /\ \A c \in Writer : closed[c] ~> pc[c] \notin Running

(* What the callers are promised: CommitLog, where a commit's number is its  *)
(* place in the log, and CommitError and rejection are both failure.         *)
OutcomeOf(e) ==
  CASE status[e] \in {"new", "pending", "ok"} -> status[e]
    [] status[e] \in {"failed", "rejected"} -> "failed"
    [] OTHER -> "unknown"

Promise ==
  INSTANCE CommitLog WITH
    log <- [n \in 1..Cardinality(DOMAIN log) |-> log[n]],
    outcome <- [e \in Event |-> OutcomeOf(e)]

ImplementsCommitLog == Promise!Spec

=============================================================================
