-------------------------------- MODULE Lease --------------------------------
(***************************************************************************)
(* The leases of src/cairndb/engine/coordination.py: one lease document    *)
(* that workers acquire, renew, write and release through handles, and     *)
(* that outsiders write into cooperatively, all by compare-and-swap on the *)
(* document's etag.                                                        *)
(*                                                                         *)
(* An etag stands for the document's content (storage/filesystem.py 170).  *)
(* A worker makes one call at a time, and has at most one handle.  Each    *)
(* storage call and each reading of the clock is a step of its own.        *)
(***************************************************************************)
EXTENDS Integers, FiniteSets

CONSTANTS
  Worker,           \* processes that hold or want the lease
  HolderOf,         \* the holder string each one passes, NoHolder for None
  Outsider,         \* processes that each make one cooperative write
  NoHolder,         \* holder None
  NoDoc, NoLease,   \* no document, no handle
  Ttl,
  Offset,           \* how far the clock of each worker is ahead
  MaxOffset,
  AcquireAttempts,  \* _ACQUIRE_ATTEMPTS
  PutAttempts,      \* _GUARDED_PUT_ATTEMPTS
  UpdateAttempts,   \* _UPDATE_ATTEMPTS
  MaxTime,          \* bound: the clock stops there
  MaxEpoch,         \* bound: no acquisition beyond it
  MaxCalls,         \* bound: the calls that all workers together make
  Restarting,       \* the workers that may restart
  Faults            \* of those below, the ones that can happen

Fault ==
  { "putError",      \* a put raises, and had no effect
    "putErrorAfter", \* a put raises although the document was replaced
    "putRetried",    \* the SDK resends a put that took effect: it is refused
    "putConflict" }  \* a put is refused though nothing raced it (409 of S3)

ASSUME LeaseAssumption ==
  /\ Ttl \in Nat \ {0} /\ MaxTime \in Nat /\ MaxEpoch \in Nat /\ MaxCalls \in Nat
  /\ MaxOffset \in Nat
  /\ Offset \in [Worker -> 0..MaxOffset]
  /\ AcquireAttempts \in Nat \ {0} /\ PutAttempts \in Nat \ {0}
  /\ UpdateAttempts \in Nat \ {0}
  /\ Faults \subseteq Fault /\ Restarting \subseteq Worker
  /\ Worker \cap Outsider = {}

VARIABLES
  now,      \* true time
  doc,      \* the lease document
  lease,    \* each worker's handle
  call,     \* the call each worker is making
  flying,   \* a put sent by a worker that restarted
  coop,     \* the cooperative write of each outsider
  calls     \* how many calls the workers have made

vars == <<now, doc, lease, call, flying, coop, calls>>

Ops == {"renew", "write", "update", "release", "finish"}
NoCall == [op |-> "none", phase |-> "none", try |-> 0, time |-> 0, seen |-> NoDoc]
Visit(phase, try) == [phase |-> phase, try |-> try, seen |-> NoDoc]
Gone == Visit("done", 0)
NoPut == [op |-> "none", match |-> NoDoc, new |-> NoDoc]

Clock(w) == now + Offset[w]

(* The state payload is the set of the writes it contains: <<w, epoch>> for  *)
(* one that w made in that epoch, o for that of outsider o.                  *)
Mine(w, epoch) == <<w, epoch>>

Document(epoch, holder, deadline, state) ==
  [epoch |-> epoch, holder |-> holder, deadline |-> deadline, state |-> state]

Holder == {HolderOf[w] : w \in Worker}
Tokens == (Worker \X (1..MaxEpoch)) \cup Outsider
Documents == [epoch : 1..MaxEpoch, holder : Holder \cup {NoHolder}, deadline : Nat,
              state : SUBSET Tokens]
Handles == [epoch : 1..MaxEpoch, holder : Holder \cup {NoHolder}, deadline : Nat,
            state : SUBSET Tokens, etag : Documents, released : BOOLEAN,
            origin : {"acquire", "attach"}]

ASSUME ValuesAssumption ==
  /\ NoDoc \notin Documents /\ NoLease \notin Handles
  /\ Outsider \cap (Worker \X (1..MaxEpoch)) = {}

(* Mutant: the deadline does not count. *)
ExpiredMutant(d, time) == TRUE
Expired(d, time) == d.holder = NoHolder \/ d.deadline <= time

-----------------------------------------------------------------------------
Init ==
  /\ now = 0
  /\ doc = NoDoc
  /\ lease = [w \in Worker |-> NoLease]
  /\ call = [w \in Worker |-> NoCall]
  /\ flying = [w \in Worker |-> NoPut]
  /\ calls = 0
  /\ coop = [o \in Outsider |-> Visit("new", 0)]

Tick ==
  /\ now < MaxTime
  /\ now' = now + 1
  /\ UNCHANGED <<doc, lease, call, flying, coop, calls>>

At(w, op, phase) == call[w].op = op /\ call[w].phase = phase

Counted == calls < MaxCalls /\ calls' = calls + 1

Return(w) == call' = [call EXCEPT ![w] = NoCall]

(* A handle on the period of document d, which its etag still matches;       *)
(* origin, the function that returned it, is history.                        *)
HandleOn(d, origin) ==
  [epoch |-> d.epoch, holder |-> d.holder, deadline |-> d.deadline,
   state |-> d.state, etag |-> d, released |-> FALSE, origin |-> origin]

-----------------------------------------------------------------------------
(* acquire_sync *)

Acquire(w) ==
  /\ call[w] = NoCall
  /\ call' = [call EXCEPT ![w] = [NoCall EXCEPT !.op = "acquire", !.phase = "get",
                                              !.try = 1, !.time = Clock(w)]]
  /\ Counted
  /\ UNCHANGED <<now, doc, lease, flying, coop>>

(* Each attempt reads the clock, then the document, and gives up if it is    *)
(* held, ...                                                                 *)
AcquireClock(w) ==
  /\ At(w, "acquire", "clock")
  /\ call' = [call EXCEPT ![w].phase = "get", ![w].time = Clock(w)]
  /\ UNCHANGED <<now, doc, lease, flying, coop, calls>>

AcquireGet(w) ==
  /\ At(w, "acquire", "get")
  /\ IF doc # NoDoc /\ ~Expired(doc, call[w].time)
       THEN Return(w)
       ELSE call' = [call EXCEPT ![w].phase = "put", ![w].seen = doc]
  /\ UNCHANGED <<now, doc, lease, flying, coop, calls>>

(* acquire with steal_if_expired=False, which takes only a released lease.   *)
RefuseToSteal(w) ==
  /\ At(w, "acquire", "get")
  /\ doc # NoDoc /\ doc.holder # NoHolder
  /\ Return(w)
  /\ UNCHANGED <<now, doc, lease, flying, coop, calls>>

(* ... and puts its own in place of the one it saw.                          *)
(* Mutant: a steal leaves the epoch as it is. *)
NextEpochMutant(d) == IF d = NoDoc THEN 1 ELSE d.epoch
NextEpoch(d) == IF d = NoDoc THEN 1 ELSE d.epoch + 1

Acquired(w, transition) ==
  LET seen == call[w].seen
      epoch == NextEpoch(seen)
      before == IF seen = NoDoc THEN {} ELSE seen.state
  IN Document(epoch, HolderOf[w], call[w].time + Ttl,
              IF transition THEN before \cup {Mine(w, epoch)} ELSE before)

Took(w) ==
  /\ At(w, "acquire", "put") /\ call[w].seen = doc
  /\ NextEpoch(doc) <= MaxEpoch
  /\ \E transition \in BOOLEAN : doc' = Acquired(w, transition)   \* with a state_fn or without

AcquirePut(w) ==
  /\ Took(w)
  /\ lease' = [lease EXCEPT ![w] = HandleOn(doc', "acquire")]
  /\ Return(w)
  /\ UNCHANGED <<now, flying, coop, calls>>

(* A put that is refused: try again, up to the bound. *)
AcquireAgain(w) ==
  /\ IF call[w].try < AcquireAttempts
       THEN call' = [call EXCEPT ![w] = [NoCall EXCEPT !.op = "acquire", !.phase = "clock",
                                                  !.try = call[w].try + 1]]
       ELSE Return(w)
  /\ UNCHANGED <<now, lease, flying, coop, calls>>

AcquireRaced(w) ==
  /\ At(w, "acquire", "put")
  /\ call[w].seen # doc \/ "putConflict" \in Faults
  /\ AcquireAgain(w)
  /\ UNCHANGED doc

AcquireRetried(w) == "putRetried" \in Faults /\ Took(w) /\ AcquireAgain(w)

(* attach_sync: a handle on the period that is already w's, without a write. *)
Attach(w) ==
  /\ call[w] = NoCall
  /\ HolderOf[w] # NoHolder
  /\ doc # NoDoc /\ doc.holder = HolderOf[w] /\ ~Expired(doc, Clock(w))
  /\ lease' = [lease EXCEPT ![w] = HandleOn(doc, "attach")]
  /\ Counted
  /\ UNCHANGED <<now, doc, call, flying, coop>>

-----------------------------------------------------------------------------
(* _guarded_put_sync *)

(* The deadline is chosen when the call is made.  finish is a release with a *)
(* final state.                                                              *)
Begin(w, op) ==
  /\ call[w] = NoCall /\ lease[w] # NoLease /\ ~lease[w].released
  /\ call' = [call EXCEPT ![w] =
                [op |-> op, phase |-> "put", try |-> 1, seen |-> NoDoc,
                 time |-> CASE op = "renew" -> Clock(w) + Ttl
                            [] op \in {"release", "finish"} -> Clock(w)
                            [] OTHER -> lease[w].deadline]]
  /\ Counted
  /\ UNCHANGED <<now, doc, lease, flying, coop>>

StateAfter(w, op, state) ==
  LET own == Mine(w, lease[w].epoch)
  IN CASE op \in {"renew", "release"} -> state
       [] op = "update" -> state \cup {own}
       [] op \in {"write", "finish"} -> {own}

(* What the call of w would put. *)
Proposed(w) ==
  Document(lease[w].epoch,
           IF call[w].op \in {"release", "finish"} THEN NoHolder ELSE lease[w].holder,
           call[w].time, StateAfter(w, call[w].op, lease[w].state))

Putting(w) == call[w].op \in Ops /\ call[w].phase = "put"

(* Mutant: the guard is the epoch alone. *)
GuardHoldsMutant(w) == doc # NoDoc /\ doc.epoch = lease[w].epoch
GuardHolds(w) == doc = lease[w].etag

Wrote(w) == Putting(w) /\ GuardHolds(w) /\ doc' = Proposed(w)

Put(w) ==
  /\ Wrote(w)
  /\ lease' = [lease EXCEPT ![w] =
                 [HandleOn(doc', @.origin) EXCEPT
                    !.released = call[w].op \in {"release", "finish"}]]
  /\ Return(w)
  /\ UNCHANGED <<now, flying, coop, calls>>

(* The guard fails, or seems to. *)
PutRefused(w) ==
  /\ Putting(w)
  /\ \/ (~GuardHolds(w) \/ "putConflict" \in Faults) /\ UNCHANGED doc
     \/ "putRetried" \in Faults /\ Wrote(w)
  /\ call' = [call EXCEPT ![w].phase = "get"]
  /\ UNCHANGED <<now, lease, flying, coop, calls>>

(* Any put may raise. *)
PutRaises(w) ==
  /\ Putting(w) \/ At(w, "acquire", "put")
  /\ \/ "putError" \in Faults /\ UNCHANGED doc
     \/ "putErrorAfter" \in Faults /\ (Wrote(w) \/ Took(w))
  /\ Return(w)
  /\ UNCHANGED <<now, lease, flying, coop, calls>>

(* Mutant: the holder is not compared. *)
StillOursMutant(w) == doc # NoDoc /\ doc.epoch = lease[w].epoch
StillOurs(w) == doc # NoDoc /\ doc.epoch = lease[w].epoch /\ doc.holder = lease[w].holder

(* Mutant: one attempt too many. *)
LastTryMutant(w) == call[w].try > PutAttempts
LastTry(w) == call[w].try = PutAttempts

(* The re-read after a failed guard: the document is still ours, so its      *)
(* state is absorbed and the put tried again while there are attempts left.  *)
Absorb(w) ==
  /\ call[w].op \in Ops /\ call[w].phase = "get" /\ StillOurs(w)
  /\ lease' = [lease EXCEPT ![w].etag = doc, ![w].state = doc.state]
  /\ IF LastTry(w)
       THEN Return(w)
       ELSE call' = [call EXCEPT ![w].phase = "put", ![w].try = @ + 1]
  /\ UNCHANGED <<now, doc, flying, coop, calls>>

(* Or it is not: LeaseLost. *)
Lost(w) ==
  /\ call[w].op \in Ops /\ call[w].phase = "get" /\ ~StillOurs(w)
  /\ Return(w)
  /\ UNCHANGED <<now, doc, lease, flying, coop, calls>>

-----------------------------------------------------------------------------
(* A worker restarts, without its handle; the last put it has sent may still *)
(* land.                                                                     *)
Sent(w) ==
  IF Putting(w)
    THEN {[op |-> call[w].op, match |-> lease[w].etag, new |-> Proposed(w)]}
  ELSE IF At(w, "acquire", "put") /\ NextEpoch(call[w].seen) <= MaxEpoch
    THEN {[op |-> "acquire", match |-> call[w].seen, new |-> Acquired(w, transition)] :
            transition \in BOOLEAN}
  ELSE {NoPut}

Restart(w) ==
  /\ w \in Restarting
  /\ lease[w] # NoLease \/ call[w] # NoCall
  /\ \E sent \in Sent(w) : flying' = [flying EXCEPT ![w] = sent]
  /\ lease' = [lease EXCEPT ![w] = NoLease]
  /\ Return(w)
  /\ UNCHANGED <<now, doc, coop, calls>>

Land(w) ==
  /\ flying[w] # NoPut
  /\ doc' = IF doc = flying[w].match THEN flying[w].new ELSE doc
  /\ flying' = [flying EXCEPT ![w] = NoPut]
  /\ UNCHANGED <<now, lease, call, coop, calls>>

-----------------------------------------------------------------------------
(* cooperative_write_sync by outsider o *)

CoopGet(o) ==
  /\ coop[o].phase \in {"new", "get"}
  /\ coop' = [coop EXCEPT ![o] =
                IF doc = NoDoc THEN Gone
                ELSE [phase |-> "put", try |-> @.try + 1, seen |-> doc]]
  /\ UNCHANGED <<now, doc, lease, call, flying, calls>>

(* Its put raises, is refused, or takes effect; a resent one does both, and  *)
(* one that raises after it took effect is over as if it had been answered.  *)
CoopDone(o) == coop' = [coop EXCEPT ![o] = Gone]

CoopAgain(o) ==
  coop' = [coop EXCEPT ![o] = IF @.try < UpdateAttempts THEN Visit("get", @.try) ELSE Gone]

CoopPut(o) ==
  /\ coop[o].phase = "put"
  /\ \/ /\ doc = coop[o].seen /\ doc' = [doc EXCEPT !.state = @ \cup {o}]
        /\ CoopDone(o) \/ ("putRetried" \in Faults /\ CoopAgain(o))
     \/ /\ UNCHANGED doc
        /\ \/ (doc # coop[o].seen \/ "putConflict" \in Faults) /\ CoopAgain(o)
           \/ "putError" \in Faults /\ CoopDone(o)
  /\ UNCHANGED <<now, lease, call, flying, calls>>

-----------------------------------------------------------------------------
WorkerStep(w) ==
  \/ Acquire(w) \/ AcquireClock(w) \/ AcquireGet(w) \/ RefuseToSteal(w)
  \/ AcquirePut(w) \/ AcquireRaced(w) \/ AcquireRetried(w) \/ Attach(w)
  \/ \E op \in Ops : Begin(w, op)
  \/ Put(w) \/ PutRefused(w) \/ PutRaises(w) \/ Absorb(w) \/ Lost(w)
  \/ Restart(w) \/ Land(w)

Next ==
  \/ Tick
  \/ \E w \in Worker : WorkerStep(w)
  \/ \E o \in Outsider : CoopGet(o) \/ CoopPut(o)

Spec == Init /\ [][Next]_vars

-----------------------------------------------------------------------------
(* Properties *)

(* The document, the handles and the calls stay in their ranges; no call     *)
(* makes more attempts than its bound.                                       *)
TypeOK ==
  /\ now \in 0..MaxTime /\ calls \in 0..MaxCalls
  /\ doc \in Documents \cup {NoDoc}
  /\ \A w \in Worker :
       /\ lease[w] \in Handles \cup {NoLease}
       /\ call[w].op \in Ops \cup {"none", "acquire"}
       /\ call[w].phase \in {"none", "clock", "get", "put"}
       /\ call[w].try \in 0..(IF call[w].op = "acquire" THEN AcquireAttempts ELSE PutAttempts)
       /\ call[w].time \in Nat
       /\ call[w].seen \in Documents \cup {NoDoc}
       /\ flying[w] = NoPut \/ flying[w].new \in Documents
  /\ \A o \in Outsider : coop[o].try \in 0..UpdateAttempts

StateOf(d) == IF d = NoDoc THEN {} ELSE d.state

(* The epoch never goes back, and within one epoch the lease can only be     *)
(* released: (key, epoch, holder) identifies one ownership period            *)
(* (docs/concepts/coordination.md, "The lease document").                    *)
EpochFences ==
  [][doc # NoDoc =>
       /\ doc' # NoDoc /\ doc'.epoch >= doc.epoch
       /\ doc'.epoch = doc.epoch => doc'.holder \in {doc.holder, NoHolder}]_vars

(* A write a holder makes in one of its periods reaches the document in that *)
(* period or never, however late it arrives: not after a steal, not after a  *)
(* release (_guarded_put_sync, 180-224).                                     *)
NoZombieWrite ==
  [][\A w \in Worker, e \in 1..MaxEpoch :
       Mine(w, e) \in StateOf(doc') \ StateOf(doc) =>
         /\ doc'.epoch = e
         /\ doc # NoDoc /\ doc.epoch = e => doc.holder = HolderOf[w] /\ doc.holder # NoHolder]_vars

(* Nothing leaves the state except by a plain write or a final state, on     *)
(* time or late: renewals, updates, releases, steals and cooperative writes  *)
(* all keep what the others wrote, also when they land after their worker    *)
(* restarted (update_state_sync, 249-257, cooperative_write_sync).           *)
WritesAreKept ==
  [][\/ StateOf(doc) \subseteq StateOf(doc')
     \/ \E w \in Worker :
          \/ Putting(w) /\ call[w].op \in {"write", "finish"} /\ doc' = Proposed(w)
          \/ flying[w].op \in {"write", "finish"} /\ doc' = flying[w].new]_vars

(* No lease changes hands before the deadline in the handle of the worker    *)
(* that acquired it, which did not release it, but for the offset of the     *)
(* clocks ("Mutual exclusion, while clock skew is much smaller than the      *)
(* ttl", docs/concepts/consistency.md 9).                                    *)
NoEarlySteal ==
  [][\A w \in Worker :
       /\ doc # NoDoc /\ doc'.epoch > doc.epoch /\ doc.holder # NoHolder
       /\ lease[w] # NoLease /\ ~lease[w].released /\ lease[w].epoch = doc.epoch
       /\ lease[w].origin = "acquire"
       => lease[w].deadline <= now + MaxOffset]_vars

=============================================================================
