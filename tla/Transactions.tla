---------------------------- MODULE Transactions ----------------------------
(***************************************************************************)
(* The transactions of src/cairndb/engine/transactions.py.  Any number of  *)
(* TransactionManagers share a bucket; each commits its transactions, one  *)
(* at a time, to the log _tx through a Committer of its own, and applies   *)
(* the committed records to the object store.                              *)
(*                                                                         *)
(* The Committers are those of Committer: a Writer is a manager, an Event  *)
(* the record of one transaction, a Call its only append, and the hook     *)
(* that Committer leaves open decides here by read and write sets.         *)
(***************************************************************************)
EXTENDS Committer

CONSTANTS
  Key,        \* keys of the object store
  ManagerOf,  \* the manager each transaction runs in
  ReadsOf,    \* the keys it gets
  OpsOf,      \* the puts and deletes it stages, in order
  Recoverer,  \* the managers whose process calls recover
  NoObject    \* what a get of an absent key finds, and a delete leaves

ASSUME TransactionAssumption ==
  /\ ManagerOf \in [Event -> Writer]
  /\ ReadsOf \in [Event -> SUBSET Key]
  /\ \A t \in Event : OpsOf[t] \in Seq([key : Key, value : {t, NoObject}])
  /\ Recoverer \subseteq Writer
  /\ NoObject \notin Event

(* The log _tx of a manager: one record per commit, and always a hook.       *)
ASSUME TxLogAssumption ==
  /\ MaxEvents = 1 /\ Revalidating = Writer
  /\ Call = Event /\ EventsOf = [t \in Event |-> <<t>>]

VARIABLES
  store,      \* the objects: what was put last, which is also its etag
  markers,    \* the commits that have a marker txapplied/{N}
  txpc,       \* how far each transaction is
  begin,      \* _begin_tail
  reads,      \* _reads: the etags it observed, key by key
  todo,       \* the keys _validate_reads has not compared yet
  scan,       \* the commit _check_committed_since reads next
  warm,       \* history: its manager's tail was known when it was appended
  calm,       \* history: when it began, the objects were the fold of the log
  lock,       \* who holds each manager's _commit_lock
  applying,   \* _apply_commit of each transaction and recovery: commit and op
  listed,     \* recover: the markers that were there when it began
  next        \* recover: the commit it reads next, 0 when none is running

txvars == <<store, markers, txpc, begin, reads, todo, scan, warm, calm, lock,
            applying, listed, next>>
committers == vars

TxPhase ==
  {"new", "open", "validate", "scan", "append", "apply", "done",
   "conflict", "failed", "cancelled"}

Idle == [commit |-> 0, op |-> 0]
NoOne == "none"
Process == Event \cup Writer

Alive(m) == pc[m] \notin {"inflight", "crashed"}

-----------------------------------------------------------------------------
(* Records *)

(* _write_set: the keys a record mutates; other events mutate none. *)
WriteSet(e) ==
  IF e \in Event THEN {OpsOf[e][i].key : i \in DOMAIN OpsOf[e]} ELSE {}

(* The keys written by the commits numbered from a to b. *)
WrittenIn(a, b) == UNION {WriteSet(log[n][1]) : n \in a..b \cap DOMAIN log}

(* What _apply_commit does for commit n. *)
OpsAt(n) == IF log[n][1] \in Event THEN OpsOf[log[n][1]] ELSE <<>>

(* What commits 1 to n leave in key k, applied in log order. *)
LastWrite(e, k) ==
  OpsOf[e][Max({i \in DOMAIN OpsOf[e] : OpsOf[e][i].key = k})].value

Folded(n, k) ==
  LET writers == {j \in 1..n : k \in WriteSet(log[j][1])}
  IN IF writers = {} THEN NoObject ELSE LastWrite(log[Max(writers)][1], k)

(* Every record is marked as applied, nobody applies or recovers any or is   *)
(* about to, its append having been committed by now, and the objects are    *)
(* what they should be.                                                      *)
AllApplied ==
  /\ DOMAIN log \subseteq markers /\ \A p \in Process : applying[p] = Idle
  /\ \A t \in Event : txpc[t] = "append" /\ Alive(ManagerOf[t]) => ~Committed(t)

InLogOrder == \A k \in Key : store[k] = Folded(Cardinality(DOMAIN log), k)

Calm == AllApplied /\ InLogOrder /\ \A m \in Writer : next[m] = 0

-----------------------------------------------------------------------------
TxInit ==
  /\ Init
  /\ store = [k \in Key |-> NoObject]
  /\ markers = {}
  /\ txpc = [t \in Event |-> "new"]
  /\ begin = [t \in Event |-> 0]
  /\ reads = [t \in Event |-> <<>>]
  /\ todo = [t \in Event |-> {}]
  /\ scan = [t \in Event |-> 0]
  /\ warm = [t \in Event |-> FALSE]
  /\ calm = [t \in Event |-> FALSE]
  /\ lock = [m \in Writer |-> NoOne]
  /\ applying = [p \in Process |-> Idle]
  /\ listed = [m \in Writer |-> {}]
  /\ next = [m \in Writer |-> 0]

-----------------------------------------------------------------------------
(* A transaction *)

At(t, phase) == txpc[t] = phase /\ Alive(ManagerOf[t])

Become(t, phase) == txpc' = [txpc EXCEPT ![t] = phase]

(* __aenter__: remember the tail of the log. *)
Enter(t) ==
  /\ At(t, "new")
  /\ begin' = [begin EXCEPT ![t] = IF DOMAIN log = {} THEN 0 ELSE Max(DOMAIN log)]
  /\ Become(t, "open")
  /\ calm' = [calm EXCEPT ![t] = Calm]
  /\ UNCHANGED <<committers, store, markers, reads, todo, scan, warm, lock,
                 applying, listed, next>>

(* get: the first get of a key records its etag. *)
Get(t, k) ==
  /\ At(t, "open") /\ k \in ReadsOf[t] \ DOMAIN reads[t]
  /\ reads' = [reads EXCEPT ![t] = [j \in DOMAIN @ \cup {k} |->
                                      IF j = k THEN store[k] ELSE @[j]]]
  /\ UNCHANGED <<committers, store, markers, txpc, begin, todo, scan, warm, calm, lock,
                 applying, listed, next>>

(* commit: take the lock and go through the read set. *)
BeginCommit(t) ==
  /\ At(t, "open") /\ DOMAIN reads[t] = ReadsOf[t]
  /\ lock[ManagerOf[t]] = NoOne
  /\ lock' = [lock EXCEPT ![ManagerOf[t]] = t]
  /\ todo' = [todo EXCEPT ![t] = ReadsOf[t]]
  /\ Become(t, "validate")
  /\ UNCHANGED <<committers, store, markers, begin, reads, scan, warm, calm, applying,
                 listed, next>>

(* A body that has staged nothing commits without a record or validation.    *)
CommitNothing(t) ==
  /\ At(t, "open") /\ Become(t, "done")
  /\ UNCHANGED <<committers, store, markers, begin, reads, todo, scan, warm, calm, lock,
                 applying, listed, next>>

(* Mutant: the lock is not released. *)
UnlockMutant(t) == UNCHANGED lock
Unlock(t) ==
  lock' = [lock EXCEPT ![ManagerOf[t]] = IF @ = t THEN NoOne ELSE @]

(* _validate_reads: compare the etag of one key, ... *)
ValidateRead(t, k) ==
  /\ At(t, "validate") /\ k \in todo[t]
  /\ IF store[k] = reads[t][k]
       THEN /\ todo' = [todo EXCEPT ![t] = @ \ {k}]
            /\ UNCHANGED <<txpc, lock>>
       ELSE /\ Become(t, "conflict") /\ Unlock(t)
            /\ todo' = [todo EXCEPT ![t] = {}]
  /\ UNCHANGED <<committers, store, markers, begin, reads, scan, warm, calm, applying,
                 listed, next>>

(* ... until all are compared. *)
BeginScan(t) ==
  /\ At(t, "validate") /\ todo[t] = {}
  /\ scan' = [scan EXCEPT ![t] = begin[t] + 1]
  /\ Become(t, "scan")
  /\ UNCHANGED <<committers, store, markers, begin, reads, todo, warm, calm, lock,
                 applying, listed, next>>

(* Mutant: a read that found no object is not a read. *)
OverlapsMutant(t, keys) == \E k \in ReadsOf[t] \cap keys : reads[t][k] # NoObject
Overlaps(t, keys) == ReadsOf[t] \cap keys # {}

(* _check_committed_since: one GET that finds a commit, ... *)
ScanCommit(t) ==
  /\ At(t, "scan") /\ scan[t] \in DOMAIN log
  /\ IF Overlaps(t, WrittenIn(scan[t], scan[t]))
       THEN /\ Become(t, "conflict") /\ Unlock(t) /\ UNCHANGED scan
       ELSE /\ scan' = [scan EXCEPT ![t] = @ + 1]
            /\ UNCHANGED <<txpc, lock>>
  /\ UNCHANGED <<committers, store, markers, begin, reads, todo, warm, calm, applying,
                 listed, next>>

(* ... and one that finds none: the record goes to the committer. *)
AppendRecord(t) ==
  /\ At(t, "scan") /\ scan[t] \notin DOMAIN log
  /\ AppendMany(ManagerOf[t], t)
  /\ warm' = [warm EXCEPT ![t] = tail[ManagerOf[t]] # NoTail /\ HeldBy(ManagerOf[t]) = {}]
  /\ Become(t, "append")
  /\ UNCHANGED <<store, markers, begin, reads, todo, scan, calm, lock, applying, listed,
                 next>>

(* The append returns the sequence number: release the lock, apply.          *)
AppendReturns(t) ==
  /\ At(t, "append") /\ status[t] = "ok"
  /\ applying' = [applying EXCEPT ![t] = [commit |-> seq[t].commit, op |-> 1]]
  /\ Become(t, "apply") /\ Unlock(t)
  /\ UNCHANGED <<committers, store, markers, begin, reads, todo, scan, warm, calm, listed, next>>

(* Mutant: every exception becomes TransactionConflict. *)
RaisedMutant(outcome) == "conflict"
Raised(outcome) == IF outcome = "rejected" THEN "conflict" ELSE "failed"

(* It raises: EventRejectedError becomes TransactionConflict, the others     *)
(* go to the caller.                                                         *)
AppendFails(t) ==
  /\ At(t, "append") /\ status[t] \in {"rejected", "failed", "error"}
  /\ Become(t, Raised(status[t])) /\ Unlock(t)
  /\ UNCHANGED <<committers, store, markers, begin, reads, todo, scan, warm,
                 calm, applying, listed, next>>

(* The task of the transaction is cancelled, wherever it is.                 *)
CancelTransaction(t) ==
  /\ "cancelAppend" \in Faults
  /\ \E phase \in {"open", "validate", "scan", "append", "apply"} : At(t, phase)
  /\ IF txpc[t] = "append" /\ status[t] = "pending"
       THEN CancelAppend(t) ELSE UNCHANGED committers
  /\ Become(t, "cancelled") /\ Unlock(t)
  /\ todo' = [todo EXCEPT ![t] = {}]
  /\ UNCHANGED <<store, markers, begin, reads, scan, warm, calm, applying, listed, next>>

-----------------------------------------------------------------------------
(* _apply_commit, by the task of a transaction or of a recovery p *)

Gone(p) ==
  IF p \in Event THEN txpc[p] = "cancelled" \/ ~Alive(ManagerOf[p]) ELSE ~Alive(p)

(* The put or delete that p has come to.                                     *)
WriteObject(p) ==
  LET ops == OpsAt(applying[p].commit)
      i == applying[p].op
  IN /\ i \in DOMAIN ops
     /\ store' = [store EXCEPT ![ops[i].key] = ops[i].value]
     /\ UNCHANGED markers

(* Mutant: the marker is written before the last operation. *)
AppliedAllMutant(p) == applying[p].op + 1 \notin DOMAIN OpsAt(applying[p].commit)
AppliedAll(p) == applying[p].op \notin DOMAIN OpsAt(applying[p].commit)

WriteMarker(p) ==
  /\ AppliedAll(p)
  /\ markers' = markers \cup {applying[p].commit}
  /\ UNCHANGED store

ApplyOp(p) ==
  /\ applying[p] # Idle /\ ~Gone(p)
  /\ WriteObject(p)
  /\ applying' = [applying EXCEPT ![p].op = @ + 1]
  /\ UNCHANGED <<committers, txpc, begin, reads, todo, scan, warm, calm, lock, listed, next>>

Mark(p) ==
  /\ applying[p] # Idle /\ ~Gone(p)
  /\ WriteMarker(p)
  /\ applying' = [applying EXCEPT ![p] = Idle]
  /\ txpc' = [t \in Event |-> IF t = p THEN "done" ELSE txpc[t]]
  /\ UNCHANGED <<committers, begin, reads, todo, scan, warm, calm, lock, listed, next>>

ApplyStep(p) == ApplyOp(p) \/ Mark(p)

(* The SDK sends again a put or delete that has taken effect, and the second *)
(* takes effect too, whoever wrote the object in between.                    *)
ApplyAgain(p) ==
  /\ applying[p] # Idle /\ ~Gone(p)
  /\ WriteObject(p)
  /\ UNCHANGED <<committers, txpc, begin, reads, todo, scan, warm, calm, lock, applying,
                 listed, next>>

(* The task is cancelled or its process dead: the call it has sent, from a   *)
(* thread of its own, takes effect or not, and no other follows.             *)
StopApplying(p) ==
  /\ applying[p] # Idle /\ Gone(p)
  /\ WriteObject(p) \/ WriteMarker(p) \/ UNCHANGED <<store, markers>>
  /\ applying' = [applying EXCEPT ![p] = Idle]
  /\ UNCHANGED <<committers, txpc, begin, reads, todo, scan, warm, calm, lock, listed, next>>

(* Mutant: everything up to the last marker is taken for applied. *)
FirstUnmarkedMutant == Max(markers \cup {0}) + 1
FirstUnmarked ==
  CHOOSE n \in 1..Cardinality(markers) + 1 :
    n \notin markers /\ 1..n - 1 \subseteq markers

(* recover: list the markers and skip the contiguous applied prefix, ...     *)
Recover(m) ==
  /\ Alive(m) /\ next[m] = 0
  /\ listed' = [listed EXCEPT ![m] = markers]
  /\ next' = [next EXCEPT ![m] = FirstUnmarked]
  /\ UNCHANGED <<committers, store, markers, txpc, begin, reads, todo, scan, warm,
                 calm, lock, applying>>

(* ... read the next commit and apply it unless it was marked then, ...      *)
RecoverCommit(m) ==
  /\ Alive(m) /\ next[m] # 0 /\ applying[m] = Idle
  /\ next[m] \in DOMAIN log
  /\ next' = [next EXCEPT ![m] = @ + 1]
  /\ applying' = [applying EXCEPT ![m] =
                    IF next[m] \in listed[m] THEN Idle ELSE [commit |-> next[m], op |-> 1]]
  /\ UNCHANGED <<committers, store, markers, txpc, begin, reads, todo, scan, warm,
                 calm, lock, listed>>

(* ... to the end of the log. *)
EndRecovery(m) ==
  /\ Alive(m) /\ next[m] # 0 /\ applying[m] = Idle
  /\ next[m] \notin DOMAIN log
  /\ next' = [next EXCEPT ![m] = 0]
  /\ listed' = [listed EXCEPT ![m] = {}]
  /\ UNCHANGED <<committers, store, markers, txpc, begin, reads, todo, scan, warm,
                 calm, lock, applying>>

-----------------------------------------------------------------------------
(* The committer of manager m *)

(* _revalidate: reject the record if an interleaved one wrote what it read.  *)
RevalidateRecord(m) ==
  LET t == work[m][1]
  IN IF Overlaps(t, WrittenIn(number[m], cursor[m] - 1))
       THEN RevalidateTo(m, <<>>) \/ RejectCancelled(m, {t})
       ELSE RevalidateTo(m, work[m])

CommitterStep(m) ==
  /\ ProtocolStep(m) \/ (pc[m] = "revalidate" /\ RevalidateRecord(m))
  /\ UNCHANGED txvars

ManagerCrash(m) == (Crash(m) \/ Straggle(m)) /\ UNCHANGED txvars

(* The steps a transaction takes by itself once commit has the lock.         *)
CommitStep(t) ==
  \/ \E k \in Key : ValidateRead(t, k)
  \/ BeginScan(t) \/ ScanCommit(t) \/ AppendRecord(t) \/ AppendReturns(t) \/ AppendFails(t)
  \/ ApplyStep(t)

RecoveryStep(m) ==
  /\ m \in Recoverer
  /\ Recover(m) \/ RecoverCommit(m) \/ EndRecovery(m) \/ ApplyStep(m)

(* Nothing is left to do. *)
Settled ==
  /\ \A t \in Event : txpc[t] \in {"done", "conflict", "failed", "cancelled"}
                        \/ ~Alive(ManagerOf[t])
  /\ \A m \in Writer : pc[m] \in {"unstarted", "waiting", "crashed"}
  /\ \A p \in Process : applying[p] = Idle
  /\ UNCHANGED <<committers, txvars>>

TxNext ==
  \/ \E m \in Writer : CommitterStep(m) \/ ManagerCrash(m) \/ RecoveryStep(m)
  \/ \E t \in Event : \/ Enter(t) \/ BeginCommit(t) \/ CommitNothing(t)
                      \/ \E k \in Key : Get(t, k)
                      \/ CommitStep(t) \/ CancelTransaction(t)
  \/ \E p \in Process : StopApplying(p) \/ ApplyAgain(p)
  \/ Settled

TxSpec == TxInit /\ [][TxNext]_<<committers, txvars>>

(* A commit that has the lock goes on, and so does every committer; somebody *)
(* calls recover again and again ("Run recover_transactions() at startup, or *)
(* on a schedule", docs/concepts/transactions.md 60-61).                     *)
FairTxSpec ==
  /\ TxSpec
  /\ \A t \in Event : WF_<<committers, txvars>>(CommitStep(t))
  /\ \A m \in Writer : /\ WF_<<committers, txvars>>(CommitterStep(m))
                       /\ WF_<<committers, txvars>>(RecoveryStep(m))

-----------------------------------------------------------------------------
(* Properties *)

(* Every variable of the transactions stays in its range. *)
TxTypeOK ==
  /\ TypeOK
  /\ store \in [Key -> Event \cup {NoObject}]
  /\ markers \subseteq Nat
  /\ txpc \in [Event -> TxPhase]
  /\ begin \in [Event -> Nat]
  /\ \A t \in Event : /\ DOMAIN reads[t] \subseteq ReadsOf[t]
                      /\ \A k \in DOMAIN reads[t] : reads[t][k] \in Event \cup {NoObject}
  /\ todo \in [Event -> SUBSET Key]
  /\ scan \in [Event -> Nat]
  /\ warm \in [Event -> BOOLEAN] /\ calm \in [Event -> BOOLEAN]
  /\ lock \in [Writer -> Event \cup {NoOne}]
  /\ applying \in [Process -> [commit : Nat, op : Nat]]
  /\ \A m \in Writer : listed[m] \subseteq Nat
  /\ next \in [Writer -> Nat]

Overwritten(t, a, b) ==
  \E n \in a..b : \E i \in DOMAIN OpsAt(n) : OpsAt(n)[i].key \in ReadsOf[t]

(* No record is committed over one that wrote, after the transaction began,  *)
(* a key that it read: the scan and the lost race between them see every     *)
(* record in between (the docstring, 20-25), if the manager's committer knew *)
(* its tail and held no cancelled record when the append was made.           *)
NoMissedConflictWhenWarm ==
  \A n \in DOMAIN log : \A t \in Event :
    Range(log[n]) = {t} /\ warm[t] => ~Overwritten(t, begin[t] + 1, n - 1)

(* A committed transaction has read what the transactions before it in the   *)
(* log left ("Optimistic serializability between transactions of the same    *)
(* bucket", docs/concepts/consistency.md 11).                                *)
ReadsCurrent(t, n) == \A k \in ReadsOf[t] : reads[t][k] = Folded(n - 1, k)

Serializable ==
  \A n \in DOMAIN log : \A t \in Event : Range(log[n]) = {t} => ReadsCurrent(t, n)

(* It is so when, besides, everything before it had been applied, in log     *)
(* order, when it began.                                                     *)
SerializableWhenCalm ==
  \A n \in DOMAIN log : \A t \in Event :
    Range(log[n]) = {t} /\ warm[t] /\ calm[t] => ReadsCurrent(t, n)

(* A transaction that raised TransactionConflict leaves nothing behind, in   *)
(* the log or in an object, whoever applies what (commit, 174-201).          *)
ConflictLeavesNoTrace ==
  \A t \in Event : txpc[t] = "conflict" => ~Committed(t) /\ \A k \in Key : store[k] # t

(* A marker tells the truth: every key its record wrote has had that write,  *)
(* or by now that of another record (_apply_commit, 251-272).                *)
MarkedIsApplied ==
  \A n \in markers :
    /\ n \in DOMAIN log
    /\ \A k \in WriteSet(log[n][1]) :
         \E j \in DOMAIN log : k \in WriteSet(log[j][1]) /\ store[k] = LastWrite(log[j][1], k)

(* A committed record is applied in the end, although its transaction, its   *)
(* task or its process may have died, while a process is left that recovers. *)
RecoveryCompletes ==
  \A n \in 1..Cardinality(Event) :
    n \in DOMAIN log ~> n \in markers \/ \A m \in Recoverer : ~Alive(m)

(* A commit that got the lock comes to an end and gives it back.             *)
CommitEnds ==
  \A m \in Writer : lock[m] # NoOne ~> lock[m] = NoOne \/ ~Alive(m)
=============================================================================
