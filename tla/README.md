# CairnDB in TLA+

Specifications of the parts of CairnDB (`src/src/cairndb`) that carry its
guarantees: the four storage backends and the contract they share, the commit
protocol of the log, the transactions built on it, the leases, claims and
documents, and the projections with their snapshots and garbage collection. TLC
checks them on small instances; TLAPS proves their safety properties for any
instance. Paths below are relative to `src/src/cairndb`
unless they begin with `docs/`, which is `src/docs/`.

## 1. The system

CairnDB is a library. All shared state is in a bucket whose only primitive for
agreement is the conditional put (put-if-absent, or compare-and-swap on an
etag). There is no server: processes meet nowhere else.

| Part | State | Operations | What makes it correct |
|---|---|---|---|
| Committer (`committer.py`) | queue of pending events and their futures, one flusher task, `_tail`, `_closed`; in the bucket `log/{N}` | `append`, `append_many`, `close`; flusher: discover tail, put, on a lost race advance, revalidate, retry | dense immutable log; acknowledged means durable; each event at most once; order kept; every append and close returns |
| Storage contract (`storage/base.py`) and backends (`storage/filesystem.py`, `s3.py`, `gcs.py`, `azure.py`) | objects, their etags; on the filesystem a lock file per object, on Azure the blob type | get, conditional put, append, delete, list and delete-before, for commits, snapshots and objects | calls take effect at one moment; one winner per precondition; numbered objects immutable; listings miss nothing old; every call returns |
| Transactions (`engine/transactions.py`) | staged reads and writes, `_begin_tail`, `_commit_lock`; in the bucket `logs/_tx/`, the objects, `txapplied/{N}` | enter, get, put, delete, commit (validate, scan, append, revalidate), apply, mark, `recover` | serializable; a conflict leaves no trace; a committed record is applied in the end, in log order |
| Leases (`engine/coordination.py`) | handle: epoch, holder, deadline, state, etag, released; in the bucket one document | `acquire`, `attach`, `renew`, `write`, `update_state`, `release`, `cooperative_write` | one holder at a time up to clock skew; epochs fence; late writes fail; cooperative writes survive |
| Claims, documents (`engine/coordination.py`), objects (`engine/objects.py`) | one object | `claim`, `update`, `delete`, `wait_for` | one winner on whom all agree; no update lost; giving up means having been overtaken; a change is noticed |
| Named logs (`engine/logs.py`) | a Committer, created on first append; a namespaced view of the storage | append, read, tail, close | as the Committer |
| Projections (`client/`, `engine/projection.py`) | a SQLite file, a `.new` file, the update lock | poll, replay, swap, bootstrap, rebuild, `wait_for_sequence` | each commit applied once, in order; monotonic; catches up |
| Snapshots, GC (`jobs/`) | `snapshots/{schema}/{N}` | build, list and delete, prune the log | a projection can always be built |
| Facade, registry, values, CLI | caches, configuration | | |

How they interact: transactions own a `Log`, which owns a `Committer`, which
calls the transactions back through the `revalidate` hook after a lost race.
Everything else meets in the bucket only. Projections poll the log with a GET
of the next number; snapshots and GC shorten what they must replay.

What is hard: several processes between any two storage round trips; asyncio
tasks that are cancelled while their event is in somebody else's batch; puts
that take effect although they raised, were resent, or whose sender died;
state read before an await and used after it (the tail, the read set, a
lease's deadline); recovery while commits go on; clocks that disagree; and
backends that keep one contract by quite different means: system calls under a
`flock`, one conditional request, two requests, delete and recreate.
`PROJECT.json` lists these under `hazards`, each at its line.

## 2. The modules

| Module | Models |
|---|---|
| `Committer` | `committer.py`, with what it uses of the storage contract and of the S3 backend's answers |
| `CommitLog` | what the log promises to the callers of `append`; `Committer` is shown to implement it |
| `CommitterProofs` | the theorems about the log that `Committer` writes |
| `CommitterPromiseProofs` | the theorems about what its callers are promised, and the refinement of `CommitLog` |
| `Transactions` | `engine/transactions.py`; extends `Committer`: each manager is a Writer, each record an Event |
| `TransactionsProofs` | the theorems about `Transactions` |
| `Lease` | the leases of `engine/coordination.py` |
| `LeaseProofs` | the theorems about `Lease` |
| `Projection` | the projector and its updater (`client/`), `jobs/snapshot.py`, `jobs/gc.py` |
| `ProjectionProofs` | the theorems about `Projection` |
| `StorageCalls` | what the backends share: a call and its steps, listings, the append loop, cancellation and crash, and the view of a named log |
| `Filesystem` | `storage/filesystem.py` |
| `CloudStores` | `storage/s3.py`, `storage/gcs.py`, `storage/azure.py` |
| `Storage` | the four backends together, their properties and the refinement mapping |
| `StorageProofs` | the theorems about `Storage` |
| `ObjectStore` | what `storage/base.py` promises, with the exceptions a backend may need; `Storage` is shown to implement it |
| `Documents` | `claim` and `Document` of `engine/coordination.py`, `wait_for` of `engine/objects.py`, over that promise |
| `DocumentsProofs` | the theorems about `Documents` |
| `MCCommitter`, `MCTransactions`, `MCLease`, `MCProjection`, `MCStorage`, `MCDocuments` | the constants of the runs |

**Committer.** `pending`, `work`, `tail` and `closed` are the fields of
`Committer` and the locals of `_commit_batch`; `pc` says at which await the
flusher is; `status` and `seq` are the futures; `arrivals` is history, the
order in which events were handed in. `AppendMany`, `CancelAppend`, `Close`,
`CancelClose` are the callers. A storage call is two steps: its effect on the
bucket (`PutWins`, `PutLoses`, ... with `Answer`) and the handling of the reply
(`HandleWon`, `HandleLost`, ...), so a crash, a cancellation or another
Committer may come between them. `Advance` is one GET of `_advance_tail`.
`Settle` and `Reached` say what a loop over futures does when one of them is
cancelled: `set_result` raises, the rest are failed by the handler of `_run`.
The hook is any function: it keeps any subset of the batch (`Selections`).

**CommitLog.** Three variables: the log, what each caller knows, the sequence
numbers. Under the mapping a commit's number is its place in the log, and
`CommitError` and rejection are both "failed": never in the log. Crashes,
cancellations and storage errors are "unknown".

**Transactions.** `Enter`, `Get`, `BeginCommit`, `ValidateRead` (one key a
step), `ScanCommit` (one GET a step), `AppendRecord`, `AppendReturns` or
`AppendFails`, then `ApplyOp` per operation and `Mark`. A body that has staged
nothing ends in `CommitNothing`. `ApplyAgain` is a put or delete of an applier that
the SDK sends a second time. `get` records an etag at the first read of a key only
(99-101); a second one returns newer data, which validation then refuses if it
is newer, so it is not an action. The hook of `Committer` is replaced by
`RevalidateRecord`. The last object written is its etag, as on
every backend that hashes content. `StopApplying` is the call already handed to
a thread when its task is cancelled or its process dies. `warm` and `calm` are
history: they say under which circumstances the guarantees hold (section 4).

**Lease.** Each call is broken at its storage calls and its reading of the
clock. `Offset` is how far a worker's clock is ahead. `Restart` drops handle
and call but lets the put that was sent land later (`flying`). A put, of a
worker or an outsider, may raise without an effect or with one, be refused by its
own first execution, or by S3 (409) although nobody has won. An acquisition comes
with a `state_fn` or without. The payload is the set of the writes that went into
it, so a lost or a late write shows.

**Projection.** `db` and `new` are the two files of a client, `job` the locals of
`_apply_updates_locked`; every storage call is a step, and what follows it without
one belongs to the same step (local files have no other user). A database is the
sequence of commits applied to it: this is what any deterministic handler that is not
idempotent can tell apart. `AppendCommit` is the whole of an append, reduced to the
number it takes. `builder` is the database of the snapshot job, `gc` what the
collector has listed and still has to delete. `Fail` is an exception, which removes
the `.new` file; `Interrupt` a crash or `stop()`, which does not. `Initialize` takes
no lock: it may come in the middle of an update. A collection lists the snapshots
twice (`ListSnapshots` to choose, `ListVictims` to delete), then the commits. `acks`
is history: the numbers that appends returned; `Renumbered` says that one was used
twice. `resumed` is history too.

**Storage.** A call is one worker thread that goes from label to label (`pc`):
one request to a service, or one system call that others can see, is a step. On
the filesystem a numbered object is linked into place (`FsPutIfAbsent`); an
object is locked, compared, replaced and unlocked (`FsLock`, `FsCheck`,
`FsReplace`, `FsUnlock`), or opened and written in parts (`FsOpen`, `FsWrite`).
The temporary file is named after its process and thread and belongs to the step
that publishes it. The cloud services execute a request atomically, and their
SDKs may send one again whose reply was lost (`SendAgain`), with what others do in
between: a conditional write is refused by what it did itself, an unconditional put
or a deletion takes effect again, over what another call wrote. boto3 and the Azure
SDK retry all requests by default, Google's those with a generation condition and,
since version 3, uploads and deletions too; `pyproject.toml` allows both. S3 refuses
(409) while another write is under way; GCS reads the generation and then
downloads it (`GcsGetBlob`, `GcsDownload`); Azure deletes and recreates an append
blob that is to become a block blob (`AzureRetype`, `AzureRecreate`) and has its
own append (`AzureAppendBlock`, `AzureCreateAppendBlob`). The other appends go
through the loop of the base class (`AfterGet`, `AfterPut`). With `namespaced`
the numbered objects are those of a named log, kept by means of the object API.
The log of the root and the snapshots of a schema have the same code, so one
kind of numbered object stands for both. An etag is the content it was read with:
the data of no two calls are equal.

**ObjectStore.** Every call takes effect in one step between its start and its
end. What a backend does besides is an exception, named and given to that
backend only (`ExceptionsOf`); the refinement shows that these suffice.

| Exception | Backends | What its callers see |
|---|---|---|
| `resent` | S3, GCS, Azure | a conditional write that took effect is refused; a put, a deletion or an append comes twice, over what others did in between |
| `contended` | S3 | a refusal although nobody changed the object |
| `overlooked` | GCS | an object that is being replaced is not found |
| `torn` | filesystem | a part of an append, for a moment or, after a crash, for good |
| `emptied` | filesystem, Azure | an empty object before its first append |
| `vacated` | Azure | no object, or none of the old content, while an append blob is replaced |
| `unreported` | S3, root log | a deletion that failed is counted as done |

**Documents.** Workers each make one call on a key; a step is one call of the
store, with those of the exceptions above that such calls can meet. A value is
the sequence of the updates in it, so a lost or a repeated one shows. An object's
etag is a hash of the value or a generation (`Hashed`). `past` is history: the
values of the object since a call began. `Cancel` gives the caller an exception:
its task was cancelled and the thread goes on, or its process died or a request
failed, and the thread is not heard of again (steps need not be taken).

Deliberately left out: log lines, configuration checks, the encoding of
commits and documents, timestamps in commits, and the cases named in the notes
of `PROJECT.json`'s components. Below the grain of the model are SQLite's own
files: a process killed inside a transaction leaves a rollback journal beside the
`.new` file, which neither the copy nor the download of the next update removes.
A request that the network executes only after its resend was answered is left
out of `Storage`; the puts of `Committer`, `Transactions` and `Lease` that outlive
their process cover what it would do there.

## 3. Runs

Deadlock is checked in all runs but those of Lease (a system that has nothing
left to do stutters in `Terminated` or `Settled`). In the Lease runs
it is not: nobody waits for anybody, and workers need make no further call.

| Run | Instance | Shows |
|---|---|---|
| `committer_hostile` | 2 Committers, `append_many` of 2 events and an `append`, batches of 2, 2 attempts, one old commit, all nine faults; 2.5 million states | `DenseLog`, `KnownPrefix`, `AckedDurably`, `CloseDrains`, `LogGrowsAtEnd` |
| `committer_promise` | the same without cancelled appends and resent puts, fair | `CommittedOnce`, `FailedNotCommitted`, `FifoPerWriter`, the refinement `ImplementsCommitLog`, `EveryCallReturns` |
| `transactions_guarantees` | 2 managers, 3 transactions on 2 keys: create, move (put and delete), update, or nothing; refused, ambiguous and resent puts, cancelled tasks; 2.3 million states | `NoMissedConflictWhenWarm`, `SerializableWhenCalm`, `ConflictLeavesNoTrace` |
| `transactions_recovery` | 2 managers, 2 transactions, one writes 2 keys, the other 1; resent and ambiguous puts, crashes, one process recovers, fair; 0.3 million states | `MarkedIsApplied`, `RecoveryCompletes`, `CommitEnds` |
| `lease_guarantees` | 2 workers, clocks 1 apart, ttl 1, one outsider, 4 calls, every way in which a put can fail, one worker restarts; 4.2 million states | `EpochFences`, `NoZombieWrite`, `WritesAreKept`, `NoEarlySteal` |
| `projection_guarantees` | 2 writers, one restarts, 3 commits, 1 client with one failure, interruption or rebuild, 1 snapshot kept, the log pruned; fair; 3 million states | `EveryFileIsAFold`, `Recoverable`, `OnlyForward`, `CatchesUp` |
| `storage_contract` | 2 calls of any kind on each backend, root log or named log, 2 numbered objects or one document, 2 attempts, requests resent, one failure or cancellation; fair; 0.4 million states | `OneWinner`, `ListSeesEarlier`, `NumberedAreImmutable`, the refinement `ImplementsObjectStore`, `CallsReturn` |
| `documents_guarantees` | 3 calls on one key of each backend, 2 attempts, one failure or cancellation; 5.5 million states | `OneClaimant`, `UpdatesAreKept`, `AnswersAreTrue`, `ConflictMeansProgress`, `ReappearanceIsNoticed` |

Four runs show where the code does not do what its documentation says; each is
the shortest instance on which it happens and is described under `findings`.

| Run | Violated |
|---|---|
| `committer_batch_cancel` | `FailedNotCommitted`: a cancelled append fails its batch-mates, whose events are committed |
| `transactions_stale_read` | `Serializable`: a record committed before begin and applied after the read |
| `lease_relay` | `NoEarlySteal`: a renewed deadline is put back by another handle of the period |
| `projection_pruned` | `NothingLost`: numbers of pruned commits are used again |

### Bounds

- Two Committers suffice for every race of the protocol: a Committer sees the
  others only as commits at the numbers it wants, and one other can produce any
  of them. Three events give a batch that loses one event to a rejection, and a
  queue behind a batch. `MaxAttempts` 2 reaches the retry and the exhaustion.
- Three transactions give a chain of conflicts across two managers, with two of
  them behind one lock. Recovery is checked with two, because with crashes and
  a concurrent recovery the third adds only another copy of the second; one of
  them has two writes, so that a process dies, or a newer record is applied,
  between them. Cancelled tasks are in the other run, not in this one.
- `MaxTime`, `MaxEpoch`, `MaxCalls` bound the lease runs: an acquisition, a
  renewal, a steal and the late write of the first holder fit into them. A ttl and
  a `MaxTime` of 1 let a lease expire on both clocks, on one of them only, and be
  renewed before it does.
  `AcquireAttempts` is 8 and `UpdateAttempts` 10 in the code, 2 here;
  `PutAttempts` is 2 in both.
- One client suffices: clients never meet. Three commits give a snapshot in the
  middle, a tail after it, and a build that stops before a newer snapshot. One
  upset gives a failure, an interruption or a rebuild at every step. The number
  of builds and collections is not bounded.
- Two storage calls suffice for what one call can do to another: each of them is
  any of the operations, at any of its steps. A key of the object API and the
  numbered objects never meet, so an instance has the one or the other. Two
  numbers give a listing with an inside and an end. `_APPEND_ATTEMPTS` is 8 in
  the code, 2 here: the retry, and giving up. A request is sent again
  once for each key, which is enough for its effect to come over that of the other
  call. One failure or one cancellation is one call of the two that stops at any
  of its steps; what a second one adds, the proofs cover.
- Three calls on a document are two that race and one that deletes, or three
  updates, of which one can lose twice. `_ACQUIRE_ATTEMPTS` is 8 and
  `_UPDATE_ATTEMPTS` 10; 2 here, as are the polls of `wait_for`.

### Fairness

`FairSpec` assumes weak fairness of each Committer's flusher: a task on an
event loop, whose storage calls return or raise. It assumes nothing of the
callers, of the faults, of crashes or of put outcomes: a Committer may lose
every race. `FairTxSpec` adds the steps a commit takes once it has the lock,
and `recover` in one process, which the documentation asks for at startup or on
a schedule (`docs/concepts/transactions.md` 60-61). `FairSpec` of `Projection`
assumes that the updater's loop goes on (it catches every exception but its own
cancellation, and somebody starts it again); nothing of writers and jobs.
`FairSpec` of `Storage` assumes that the thread of each call goes on and its
requests are answered, resent ones included; a call that waits for a `flock` gets
on when the lock is free and stays free.

## 4. What holds, and when

- The log's own guarantees (dense, immutable, acknowledged is durable, grows at
  its end) hold under all faults.
- At most once, truthful failures and order hold as long as the SDK does not
  resend a put that took effect and no append is cancelled: a resent put sees
  itself as the winner, and a cancelled future disturbs its batch.
- No conflict is missed if the manager's committer knew its tail, and held no
  cancelled record, when the append was made (`warm`). A committer that has not
  appended yet lists its tail when the batch is put, after the scan: a record
  that lands in between is neither scanned nor a lost race, although
  `engine/transactions.py` 23-24 says that it would be one. Serializability needs
  besides that everything before was applied, in log order, when the transaction
  began, and that nobody was still to apply anything: no `recover` under way, no
  appender whose record is in the log and whose `append` has yet to return
  (`calm`). Commits are applied by independent tasks with unconditional
  puts: two of them can be applied in the opposite order of the log, and then
  objects keep the older write for good, not "last-writer-wins by log order"
  (`engine/transactions.py` 10).
- The worker that acquired a lease and does not share its holder string keeps
  it until the deadline in its handle, up to clock skew, under all faults. A
  handle from `attach` has less: its deadline may be put back by another handle
  or by a put from before a restart. A lease acquired without a holder string
  counts as released at once (`_is_expired`); the runs name holders. One handle
  makes one call at a time in the model. Two at once share its fields without a
  lock: a `renew` whose task was cancelled and whose thread goes on while the
  handle is released finds holder None in the document and in the handle, takes
  the refusal for a cooperative write, and puts the lease back.
- Nothing but a plain `write` or a final state takes anything out of a lease's
  state, when it is made or when it lands after a restart. A late renewal, update,
  release or acquisition keeps what cooperative writers wrote.
- Every backend keeps the storage contract up to the exceptions of section 2.
  Numbered objects are immutable and listings complete without exception; two
  writers with the same precondition never both win, unless somebody deletes, Azure
  replaces an append blob, or an unconditional put is executed twice. The last
  takes three calls and an etag that is a hash: the second execution brings back
  the content, and with it the etag, which a winner has replaced. The model gives
  all backends such etags, so on GCS and Azure the exception is wider than need be.
- A put or a deletion without a precondition is not safe to be sent again: on S3
  and Azure, and GCS by version, it may overwrite or delete what another writer
  wrote after it. This concerns `objects.put`, `delete`, and the applying of
  transactions. What is promised of these holds nevertheless: a marker speaks of the
  write of this record or of another one, and a calm transaction begins when nobody
  applies anything.
- Claims converge; a resent put can make the winner read its own claim as
  somebody else's, and then nobody was told that it won. An update that returned
  is in the document; where puts are resent it may be there twice, or be there
  although it raised. On GCS an update without `create` may raise that the
  document does not exist while it is being replaced.
- `wait_for` returns on every reappearance, as its docstring says (`engine/objects.py`
  121-123), only where etags are generations. On the filesystem and S3 an object
  that is deleted and written again with the same content has the same etag.
- Snapshots and projections are folds of the log, and the bucket always has what
  a new client needs, as long as no number is used twice. Numbers are used twice
  when commits are pruned that a Committer does not know of: one that starts on
  an emptied log, or whose tail is older than the snapshot. A prune is safe if
  every Committer that appends afterwards knows the tail.
- On S3 a prune may leave commits behind and count them as deleted. A power
  failure is not modelled: the filesystem backend syncs files, not directories.
- A client whose next commit was pruned stays where it is until it is rebuilt
  (404 is "caught up"). After a prune no snapshot can be built: the job starts
  from commit 1.
- A projection that starts empty, without a snapshot, on a `.new` file that an
  interrupted update left has the commits of that file twice, if its handlers
  let it. A copy or a download overwrites the file.

## 5. Proofs

Every invariant and every action property that a run checks is proved, but for
what the end of this section names. The proofs hold for any sets of processes,
any number of events, calls, keys, attempts and steps, and any subset of the
faults. They assume the `ASSUME`s of the modules, which TLC evaluates in the
runs, and where a theorem needs more its statement says so:

| Assumption | Theorems | Why it is needed |
|---|---|---|
| `NoResend`: no put that took effect is resent | `NeverTwice`, `KeepsOrder`, `FailuresAreTrue`, `Refinement`, `ConflictsLeaveNoTrace` | a stored batch that is reported as lost is put again |
| `Honest`: no append is cancelled, or batches have one event | `FailuresAreTrue`, `Refinement` | run `committer_batch_cancel` |
| `IsFiniteSet(Event)` | `Refinement` | `CommitLog` takes finite sets of callers |
| `OneWriteEach`: no record stages a key twice | `MarkersAreTrue` | while such a record is applied once more its first value is back; `MarkedIsWritten` is what holds without |
| `NoHolder \notin Holder` | `NoZombie` | with holder None an acquired lease looks released |
| `HoldersApart`: no two workers share a holder | `NoStealIsEarly` | a renewal of the one is the other's too |

The modules' own `ASSUME`s about special values (`ValuesAssumption`,
`OutcomesAssumption`) say that an exception is no content and a refusal no
success.

**The log** (`CommitterProofs`). The invariants are not inductive one by one. A
put keeps the log dense only because its number comes right after commits that
are there: that is `KnownPrefix`, which follows the number through its life, from
the tail (`_next_number`), through the put and its reply, along the cursor of
`_advance_tail`, back into the tail. `KnownPrefix` in turn needs the log never
to lose a commit, and the old commits that a tail hint speaks of to be there
(`UpTo(History)`). `Acked` needs to know that a reply "won" means that the
batch is at that number still (`WonIsStored`). Their conjunction with `TypeOK`
is `IInv`. The proof has a lemma per action, or per group of actions that differ
only in how they end, and few facts about the log are used: which steps store
anything (`LogSteps`, `LogGrows`), and that a dense log stays dense when the
number after a known prefix is added.

**What callers are promised** (`CommitterPromiseProofs`). `Places` says where the
events are: the queue is the end of what was handed in (`Queued`), the batch a
selection, in order, of what was taken before (`Batched`), and whoever waits for
an event waits for one that is in either (`Owed`), hence `Drains`. `Records` says
of the log that an unsent batch comes after everything its Committer has in it
(`Later`); `NeverTwice` and `KeepsOrder` are inductive only with that. `Truths`
says that the events of the queue and of an unsent batch are undecided. All the
actions are first reduced to seven forms (a batch is taken, stored, ended, tried
again; the flusher goes on; events join or are turned away), and each invariant
is proved once per form. `Refinement` maps the same forms to steps of `CommitLog`.

**Transactions** (`TransactionsProofs`). `Composition` shows that the Committers
below transactions are those of `Committer`, although the hook is now decided, so
all of the above holds there. `MarkersAreTrue` rests on `Effects`: whoever applies
a record has written the keys before its position, and no written key is ever
without some commit's value. A resent put (`ApplyAgain`) writes what its applier wrote
before and keeps all of that. `NoConflictMissed` follows the record into the
log (`Watch`): every commit between `begin` and the number at which the record is
put was looked at, by the scan or by the hook. `SerializableIfCalm` adds that nobody
applies a commit from before a calm beginning any more (`NobodyBehind`), so that a
key holds the fold of the log at `begin` unless a later commit wrote it (`Current`).
This invariant was not inductive at first: an appender whose
record is in the log, but whose `append` has not returned, goes on to apply an
old commit over newer objects. `calm` therefore requires that there is none.

**Leases** (`LeaseProofs`). The invariant is about one put: whatever replaces a
document, now or late, obeys three rules (`Lawful`: the epoch goes up or the
holder stays or leaves; a write is added only in its own period; a new period
begins only when some clock sees the old one expired), and what a handle, a call
or a put in flight has seen is the document or a predecessor (`Past`). A put in
flight remembers the call it comes from: unless that is a plain write or a release
with a final state, it contains the state of the document that it expects
(`Flies`), hence `WritesLast`. The rest
follows from etags: a put lands on what it expects. `NoStealIsEarly` needs in
addition that a period which was acquired is its worker's alone (`PeriodInv`).

**Claims and documents** (`DocumentsProofs`). `Inv` has a part per property:
`Decided` (the first claim that landed is what all others read), `Kept` and
`Landed` (where an update is, by the step at which it is), `Truthful`,
`Overtaken` (each attempt that failed, or is bound to, has seen a change of the
object) and `Distinguished` (a generation does not come back).

**Projections** (`ProjectionProofs`): `TypeCorrect`, `FilesAreFolds`,
`BucketIsRecoverable`, `UnprunedLosesNothing` (with `prune_log` off, `NothingLost`
itself) and `ProjectionsOnlyGrow`. The invariant has two halves. `BucketInv`
speaks of the log, the snapshots, the builder and the collection, and is inductive
on its own, as clients write nothing there. A commit can be deleted without loss
because some snapshot covers it *then*, and none of the running collection's later
deletions removes that one: `Covered` with `Collected`, which holds on to a
snapshot at or above the oldest kept one, among those that were listed
(`OldestIsListed`). `Bounds` keeps every number an append may take at most one
past the acknowledgements. `ClientInv` speaks of one client at a time: what an
update read at its start is still true of its projection (`Sound`), its `.new`
file extends the projection it is to replace, and has exactly the commits before
the cursor (`Pure`).

**Storage** (`StorageProofs`). The steps of all four backends are first shown to have
one form (`Effect`): to the object they write what is new, extend, make or remove
(`ObjectForm`), to the locks they keep, take or release their own (`HolderForm`), and
on the filesystem they change no file that somebody else has locked (`Considerate`).
`TypeInv` has the locks: what `FsCheck` compared is so still when `FsReplace` comes.
`OneWins` rests on what etags stand for: the content that a swap expects is old
(nobody who is still to write writes it again, `Old`), and once a winner has changed
it, the object is past it for good (`Beyond`: other data, or longer). The writes of
the others are new to it (`FreshWrite`), unless it is a put that is executed again,
which `OneWinner` excepts. `ListingsAreComplete` counts what a listing has found and
what is still before it. `NumberedStay` follows from the precondition, as only a
create writes a numbered object.

In every case TLC checked the inductive invariant on an instance of the run
before it was proved.

Model-checked only: the liveness properties (`EveryCallReturns`,
`RecoveryCompletes`, `CommitEnds`, `CatchesUp`, `CallsReturn`), as liveness under
fairness is out of the prover's reach, and the refinement `ImplementsObjectStore`.

## 6. Plan

In the order of what matters most:

1. The proof of `ImplementsObjectStore`, backend by backend, on top of the forms
   of `StorageProofs`.
2. Two concurrent calls on one lease handle, with its fields read and written
   one by one; downloads that outlive their update.

## 7. Not modelled

- The client's sessions (`client/connection.py`): they read one local file,
  which `Projection` models, and depend on the resolution of its mtime.
- The facade (`engine/core.py`) and the command line: they make the parts above
  and call them. The handler registry is a dictionary; events, commits,
  timestamps and keys are values, used as data.
- `Log.tail`, `wait_for_sequence` and `as_of` only read. `as_of` does not notice
  that its replay ends at a pruned commit. An append after `Log.close` makes a
  new Committer, as a process that starts again does.
- The options of the storage clients (`storage/config.py`), and what the services
  do inside: that a request is atomic, and read-after-write, is assumed.
