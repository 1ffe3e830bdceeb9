----------------------------- MODULE Projection -----------------------------
(***************************************************************************)
(* Projections of a log, and the jobs that shorten what they replay:       *)
(* client/projector.py with discovery.py, replay.py and the loop of        *)
(* updater.py; jobs/snapshot.py; jobs/gc.py.                               *)
(*                                                                         *)
(* An append is one step here: the protocol behind it is in Committer.     *)
(* What matters of it is which number it takes: the first free one after   *)
(* the tail its Committer remembers, or lists if it remembers none.        *)
(* Commits are identified by the order in which they were acknowledged, so *)
(* that a number used twice shows. A database is the sequence of commits   *)
(* applied to it (any fold of them, as far as handlers are deterministic)  *)
(* with the last sequence number of its metadata table; 0 is none.         *)
(***************************************************************************)
EXTENDS Naturals, Sequences, FiniteSetsExt, Functions

CONSTANTS
  Writer,         \* processes that append, each with one Committer
  Restarting,     \* those that may be started anew
  Client,         \* the projections, each with one Projector
  KeepSnapshots,  \* how many snapshots collect_garbage keeps
  PruneLog,       \* whether it deletes covered commits as well
  MaxCommits,     \* bound: commits appended
  MaxUpsets,      \* bound: failures, interruptions and rebuilds of projections
  NoTail, NoFile

Number == 1..MaxCommits
File == [rows : Seq(Number), last : 0..MaxCommits]
JobRecord == [pc : {"idle", "list", "poll", "fetch", "replay"},
              current : 0..MaxCommits, base : 0..MaxCommits,
              cursor : 0..MaxCommits, rebuilding : BOOLEAN]

ASSUME ProjectionAssumption ==
  /\ Restarting \subseteq Writer
  /\ KeepSnapshots \in Nat \ {0}
  /\ PruneLog \in BOOLEAN
  /\ MaxCommits \in Nat
  /\ MaxUpsets \in Nat
  /\ NoTail \notin Nat
  /\ NoFile \notin File

VARIABLES
  log,        \* log/{number}: the commit stored under the number
  snapshots,  \* snapshots/v{schema}/{number}: databases
  acks,       \* history: the number each commit was acknowledged with
  tail,       \* each Committer's _tail
  db,         \* db_path of each client
  new,        \* new_db_path of each client
  job,        \* the update each client is in
  resumed,    \* history: clients that built on the .new file of an earlier update
  upsets,     \* bound on failures
  builder,    \* the snapshot job: the database it has built so far
  gc          \* the garbage collection: its phase and what it is to delete

bucket == <<log, snapshots, acks, tail>>
client == <<db, new, job, resumed, upsets>>
vars == <<bucket, client, builder, gc>>

Empty == [rows |-> <<>>, last |-> 0]
NoJob == [pc |-> "idle", current |-> 0, base |-> 0, cursor |-> 0, rebuilding |-> FALSE]
NoGC == [pc |-> "idle", oldest |-> 0, victims |-> {}]

Latest(numbers) == IF numbers = {} THEN 0 ELSE Max(numbers)
Put(f, n, x) == [m \in DOMAIN f \cup {n} |-> IF m = n THEN x ELSE f[m]]

(* Some commit got a number that an earlier one had. *)
Renumbered == \E k \in DOMAIN acks : acks[k] /= k

(* The database after one more commit: data and metadata in one transaction. *)
Applied(file, n) == [rows |-> Append(file.rows, log[n]), last |-> n]

Init ==
  /\ log = <<>>
  /\ snapshots = <<>>
  /\ acks = <<>>
  /\ tail = [w \in Writer |-> NoTail]
  /\ db = [c \in Client |-> NoFile]
  /\ new = [c \in Client |-> NoFile]
  /\ job = [c \in Client |-> NoJob]
  /\ resumed = {}
  /\ upsets = 0
  /\ builder = NoFile
  /\ gc = NoGC

-----------------------------------------------------------------------------
(* Writers. *)

KnownTail(w) == IF tail[w] = NoTail THEN Latest(DOMAIN log) ELSE tail[w]

(* Where a Committer that believes the tail to be t ends up: it puts, and   *)
(* advances over the commits that are there.                                *)
FreeAfter(t) == Min({n \in t + 1..t + MaxCommits + 1 : n \notin DOMAIN log})

AppendCommit(w) ==
  /\ Len(acks) < MaxCommits
  /\ LET n == FreeAfter(KnownTail(w)) IN
       /\ log' = Put(log, n, Len(acks) + 1)
       /\ acks' = Append(acks, n)
       /\ tail' = [tail EXCEPT ![w] = n]
  /\ UNCHANGED <<snapshots, client, builder, gc>>

RestartWriter(w) ==
  /\ w \in Restarting
  /\ tail[w] /= NoTail
  /\ tail' = [tail EXCEPT ![w] = NoTail]
  /\ UNCHANGED <<log, snapshots, acks, client, builder, gc>>

-----------------------------------------------------------------------------
(* Projections. An update holds the lock of its Projector throughout, so a  *)
(* client is in at most one.                                                *)

CurrentSequence(c) == IF db[c] = NoFile THEN 0 ELSE db[c].last

Go(c, pc) == job' = [job EXCEPT ![c].pc = pc]

(* It takes no lock, and leaves alone a projection that is there by then.    *)
Initialize(c) ==
  /\ db[c] = NoFile
  /\ db' = [db EXCEPT ![c] = Empty]
  /\ UNCHANGED <<bucket, new, job, resumed, upsets, builder, gc>>

NeedsBaseMutant(current) == TRUE

(* Only a projection that has applied nothing starts from a snapshot. *)
NeedsBase(current) == current = 0

BeginUpdate(c) ==
  /\ job[c].pc = "idle"
  /\ LET current == CurrentSequence(c) IN
       job' = [job EXCEPT ![c] =
                 [NoJob EXCEPT !.pc = IF NeedsBase(current) THEN "list" ELSE "poll",
                               !.current = current]]
  /\ UNCHANGED <<bucket, db, new, resumed, upsets, builder, gc>>

RebuildFromScratch(c) ==
  /\ job[c].pc = "idle"
  /\ upsets < MaxUpsets
  /\ upsets' = upsets + 1
  /\ db' = [db EXCEPT ![c] = NoFile]
  /\ job' = [job EXCEPT ![c] = [NoJob EXCEPT !.pc = "list", !.rebuilding = TRUE]]
  /\ UNCHANGED <<bucket, new, resumed, builder, gc>>

FindLatestSnapshot(c) ==
  /\ job[c].pc = "list"
  /\ LET base == Latest(DOMAIN snapshots) IN
       job' = [job EXCEPT ![c].base = base, ![c].pc = IF base = 0 THEN "poll" ELSE "fetch"]
  /\ UNCHANGED <<bucket, db, new, resumed, upsets, builder, gc>>

(* Nothing to apply: an update leaves things as they are, a rebuild leaves  *)
(* an empty projection.                                                     *)
NotUpdated(c) ==
  /\ db' = [db EXCEPT ![c] = IF @ = NoFile /\ job[c].rebuilding THEN Empty ELSE @]
  /\ job' = [job EXCEPT ![c] = NoJob]

HasNewCommits(c) == job[c].current + 1 \in DOMAIN log

PollNothing(c) ==
  /\ job[c].pc = "poll"
  /\ ~HasNewCommits(c)
  /\ NotUpdated(c)
  /\ UNCHANGED <<bucket, new, resumed, upsets, builder, gc>>

PreparedDbMutant(c) == db[c]

(* The copy replaces whatever .new file there is. Without a projection to   *)
(* copy, tables are created if they do not exist yet.                       *)
PreparedDb(c) ==
  IF db[c] /= NoFile THEN db[c] ELSE IF new[c] = NoFile THEN Empty ELSE new[c]

PollNew(c) ==
  /\ job[c].pc = "poll"
  /\ HasNewCommits(c)
  /\ new' = [new EXCEPT ![c] = PreparedDb(c)]
  /\ resumed' = IF db[c] = NoFile /\ new[c] \notin {NoFile, Empty}
                  THEN resumed \cup {c} ELSE resumed
  /\ job' = [job EXCEPT ![c].pc = "replay", ![c].cursor = job[c].current]
  /\ UNCHANGED <<bucket, db, upsets, builder, gc>>

AfterSnapshotMutant(base) == base - 1

(* Replay goes on after the commits that the snapshot has. *)
AfterSnapshot(base) == base

FetchSnapshot(c) ==
  /\ job[c].pc = "fetch"
  /\ job[c].base \in DOMAIN snapshots
  /\ new' = [new EXCEPT ![c] = snapshots[job[c].base]]
  /\ job' = [job EXCEPT ![c].pc = "replay", ![c].cursor = AfterSnapshot(job[c].base)]
  /\ UNCHANGED <<bucket, db, resumed, upsets, builder, gc>>

(* The snapshot was collected after it was listed: ReplayError. *)
MissSnapshot(c) ==
  /\ job[c].pc = "fetch"
  /\ job[c].base \notin DOMAIN snapshots
  /\ new' = [new EXCEPT ![c] = NoFile]
  /\ job' = [job EXCEPT ![c] = NoJob]
  /\ UNCHANGED <<bucket, db, resumed, upsets, builder, gc>>

ReplayCommit(c) ==
  /\ job[c].pc = "replay"
  /\ job[c].cursor + 1 \in DOMAIN log
  /\ new' = [new EXCEPT ![c] = Applied(@, job[c].cursor + 1)]
  /\ job' = [job EXCEPT ![c].cursor = @ + 1]
  /\ UNCHANGED <<bucket, db, resumed, upsets, builder, gc>>

AtTail(c) == job[c].pc = "replay" /\ job[c].cursor + 1 \notin DOMAIN log

WorthSwappingMutant(c) == job[c].cursor > Max({job[c].base, job[c].current})

(* A snapshot may cover the whole log; without one, something was replayed. *)
WorthSwapping(c) ==
  \/ job[c].base /= 0
  \/ job[c].cursor > job[c].current

Swap(c) ==
  /\ AtTail(c)
  /\ WorthSwapping(c)
  /\ db' = [db EXCEPT ![c] = new[c]]
  /\ new' = [new EXCEPT ![c] = NoFile]
  /\ job' = [job EXCEPT ![c] = NoJob]
  /\ UNCHANGED <<bucket, resumed, upsets, builder, gc>>

(* What the poll saw was pruned before the replay. *)
Vanished(c) ==
  /\ AtTail(c)
  /\ ~WorthSwapping(c)
  /\ new' = [new EXCEPT ![c] = NoFile]
  /\ NotUpdated(c)
  /\ UNCHANGED <<bucket, resumed, upsets, builder, gc>>

(* A storage call, the database or a handler raises. Once there is a .new   *)
(* file to make, it is removed.                                             *)
Fail(c) ==
  /\ job[c].pc /= "idle"
  /\ upsets < MaxUpsets
  /\ upsets' = upsets + 1
  /\ new' = [new EXCEPT ![c] = IF job[c].pc \in {"fetch", "replay"} THEN NoFile ELSE @]
  /\ job' = [job EXCEPT ![c] = NoJob]
  /\ UNCHANGED <<bucket, db, resumed, builder, gc>>

(* The process dies or stop() cancels the loop: CancelledError is no        *)
(* Exception, and the .new file stays.                                      *)
Interrupt(c) ==
  /\ job[c].pc /= "idle"
  /\ upsets < MaxUpsets
  /\ upsets' = upsets + 1
  /\ job' = [job EXCEPT ![c] = NoJob]
  /\ UNCHANGED <<bucket, db, new, resumed, builder, gc>>

-----------------------------------------------------------------------------
(* SnapshotBuilder.build: always from commit 1, to the tail or to end_at,   *)
(* which is any commit it may reach.                                        *)

BuildStart ==
  /\ builder = NoFile
  /\ builder' = Empty
  /\ UNCHANGED <<bucket, client, gc>>

BuildCommit ==
  /\ builder /= NoFile
  /\ builder.last + 1 \in DOMAIN log
  /\ builder' = Applied(builder, builder.last + 1)
  /\ UNCHANGED <<bucket, client, gc>>

BuildPut ==
  /\ builder /= NoFile
  /\ builder.last /= 0
  /\ snapshots' = IF builder.last \in DOMAIN snapshots THEN snapshots
                  ELSE Put(snapshots, builder.last, builder)
  /\ builder' = NoFile
  /\ UNCHANGED <<log, acks, tail, client, gc>>

(* The log is empty, or something raises, or the job dies. *)
BuildFails ==
  /\ builder /= NoFile
  /\ builder' = NoFile
  /\ UNCHANGED <<bucket, client, gc>>

-----------------------------------------------------------------------------
(* collect_garbage. Objects are deleted one by one in any order.            *)

OldestKept(numbers) ==
  IF Cardinality(numbers) <= KeepSnapshots THEN Min(numbers)
  ELSE CHOOSE n \in numbers : Cardinality({m \in numbers : m >= n}) = KeepSnapshots

LastCoveredMutant(oldest) == oldest + 1

(* The last commit that the oldest kept snapshot covers. *)
LastCovered(oldest) == oldest

ListSnapshots ==
  /\ gc.pc = "idle"
  /\ snapshots /= <<>>
  /\ gc' = [pc |-> IF Cardinality(DOMAIN snapshots) <= KeepSnapshots THEN "snapshots" ELSE "listed",
            oldest |-> OldestKept(DOMAIN snapshots), victims |-> {}]
  /\ UNCHANGED <<bucket, client, builder>>

(* delete_snapshots_before lists them once more. *)
ListVictims ==
  /\ gc.pc = "listed"
  /\ gc' = [gc EXCEPT !.pc = "snapshots", !.victims = {n \in DOMAIN snapshots : n < gc.oldest}]
  /\ UNCHANGED <<bucket, client, builder>>

DeleteSnapshot(n) ==
  /\ gc.pc = "snapshots"
  /\ n \in gc.victims
  /\ snapshots' = Restrict(snapshots, DOMAIN snapshots \ {n})
  /\ gc' = [gc EXCEPT !.victims = @ \ {n}]
  /\ UNCHANGED <<log, acks, tail, client, builder>>

ListCommits ==
  /\ gc.pc = "snapshots"
  /\ gc.victims = {}
  /\ PruneLog
  /\ gc' = [gc EXCEPT !.pc = "log",
                      !.victims = {n \in DOMAIN log : n <= LastCovered(gc.oldest)}]
  /\ UNCHANGED <<bucket, client, builder>>

DeleteCommit(n) ==
  /\ gc.pc = "log"
  /\ n \in gc.victims
  /\ log' = Restrict(log, DOMAIN log \ {n})
  /\ gc' = [gc EXCEPT !.victims = @ \ {n}]
  /\ UNCHANGED <<snapshots, acks, tail, client, builder>>

(* It is done, or something raises, or the job dies. *)
GCEnds ==
  /\ gc.pc /= "idle"
  /\ gc' = NoGC
  /\ UNCHANGED <<bucket, client, builder>>

-----------------------------------------------------------------------------

UpdateStep(c) ==
  \/ BeginUpdate(c) \/ FindLatestSnapshot(c)
  \/ PollNothing(c) \/ PollNew(c)
  \/ FetchSnapshot(c) \/ MissSnapshot(c)
  \/ ReplayCommit(c) \/ Swap(c) \/ Vanished(c)

Next ==
  \/ \E w \in Writer : AppendCommit(w) \/ RestartWriter(w)
  \/ \E c \in Client :
       UpdateStep(c) \/ Initialize(c) \/ RebuildFromScratch(c) \/ Fail(c) \/ Interrupt(c)
  \/ BuildStart \/ BuildCommit \/ BuildPut \/ BuildFails
  \/ ListSnapshots \/ ListVictims \/ ListCommits \/ GCEnds
  \/ \E n \in Number : DeleteSnapshot(n) \/ DeleteCommit(n)

Spec == Init /\ [][Next]_vars

(* The loop of the updater goes on polling. *)
FairSpec == Spec /\ \A c \in Client : WF_vars(UpdateStep(c))

-----------------------------------------------------------------------------

(* Every variable has its type, and a replay has a file to write to. *)
TypeOK ==
  /\ IsFiniteSet(DOMAIN log) /\ DOMAIN log \subseteq Number /\ Range(log) \subseteq Number
  /\ DOMAIN snapshots \subseteq Number /\ Range(snapshots) \subseteq File
  /\ acks \in Seq(Number)
  /\ tail \in [Writer -> Number \cup {NoTail}]
  /\ db \in [Client -> File \cup {NoFile}]
  /\ new \in [Client -> File \cup {NoFile}]
  /\ job \in [Client -> JobRecord]
  /\ \A c \in Client : job[c].pc = "replay" => new[c] /= NoFile
  /\ resumed \subseteq Client
  /\ upsets \in 0..MaxUpsets
  /\ builder \in File \cup {NoFile}
  /\ gc \in [pc : {"idle", "listed", "snapshots", "log"}, oldest : 0..MaxCommits,
             victims : SUBSET Number]

IsFold(file) == file.rows = [k \in 1..file.last |-> k]

(* As long as no number was used twice: every snapshot, and every projection *)
(* that no update built on the .new file of an interrupted one, is the       *)
(* result of applying the commits 1 to its last sequence, each once and in   *)
(* order, through all copies, bootstraps, prunes, failures and interruptions *)
(* (replay.py, projector.py, jobs/snapshot.py).                              *)
EveryFileIsAFold ==
  ~Renumbered =>
    /\ \A n \in DOMAIN snapshots : snapshots[n].last = n /\ IsFold(snapshots[n])
    /\ \A c \in Client \ resumed : db[c] /= NoFile => IsFold(db[c])

(* What a new client would make of the bucket if nothing else happened: the  *)
(* latest snapshot and the commits after it up to the first gap.             *)
Bootstrap ==
  LET base == Latest(DOMAIN snapshots)
      end == FreeAfter(base) - 1
      rows == IF base = 0 THEN <<>> ELSE snapshots[base].rows
  IN rows \o [i \in 1..end - base |-> log[base + i]]

(* A new client gets every acknowledged commit, once and in order: nothing   *)
(* outside the bucket is needed, whatever the jobs deleted.                  *)
NothingLost == Bootstrap = [k \in DOMAIN acks |-> k]

(* The same, as long as no number was used twice, at every step of builds    *)
(* and collections that overlap (jobs/gc.py, jobs/snapshot.py).              *)
Recoverable == ~Renumbered => NothingLost

(* Readers only see a projection that is an extension of the one before,     *)
(* also when the log is pruned under the update (projector.py 113-157).      *)
(* A rebuild, which removes the file first, is no such step.                 *)
OnlyForward ==
  [][\A c \in Client :
       db[c] /= NoFile /\ db'[c] /= NoFile =>
         /\ Len(db[c].rows) <= Len(db'[c].rows)
         /\ SubSeq(db'[c].rows, 1, Len(db[c].rows)) = db[c].rows]_vars

CaughtUp(c) == acks /= <<>> => db[c] /= NoFile /\ db[c].last = Len(acks)

(* The commit that the client needs next was pruned; nothing tells it. *)
Stranded(c) ==
  /\ db[c] /= NoFile /\ db[c].last /= 0
  /\ db[c].last < Latest(DOMAIN snapshots)
  /\ db[c].last + 1 \notin DOMAIN log

(* A client whose loop runs comes to show every acknowledged commit, unless  *)
(* its next commit was pruned or numbers were used twice (updater.py 80-108, *)
(* projector.py 113-157).                                                    *)
CatchesUp == \A c \in Client : []<>(CaughtUp(c) \/ Stranded(c) \/ Renumbered)

=============================================================================
