-------------------------- MODULE TransactionsProofs --------------------------
(***************************************************************************)
(* The transactions, for any number of managers, transactions, keys and    *)
(* recoveries, and under every fault of their Committers.                  *)
(***************************************************************************)
EXTENDS Transactions, CommitterPromiseProofs, WellFoundedInduction

txall == <<committers, txvars>>

(* The steps that a manager's Committer takes by itself.                     *)
Moves(m) ==
  \/ ProtocolStep(m) \/ (pc[m] = "revalidate" /\ RevalidateRecord(m))
  \/ Crash(m) \/ Straggle(m)

-----------------------------------------------------------------------------
(* The hook of a transaction log keeps a record or rejects it: what          *)
(* Committer leaves open is decided here, and every step is one of its.      *)
LEMMA SelectionsHave ==
  ASSUME NEW events \in Seq(Event)
  PROVE  <<>> \in Selections(events) /\ events \in Selections(events)
<1>1. DOMAIN events = 1..Len(events) /\ Len(events) \in Nat
  BY LenProperties
<1>2. \A n \in 0..Len(events) : \A f \in [1..n -> DOMAIN events] :
        (\A i, j \in 1..n : i < j => f[i] < f[j]) =>
          [i \in 1..n |-> events[f[i]]] \in Selections(events)
  <2>1. ASSUME NEW n \in 0..Len(events), NEW f \in [1..n -> DOMAIN events],
               \A i, j \in 1..n : i < j => f[i] < f[j]
        PROVE  [i \in 1..n |-> events[f[i]]] \in Selections(events)
    <3> DEFINE G(k) == {g \in [1..k -> DOMAIN events] : \A i, j \in 1..k : i < j => g[i] < g[j]}
               S(k) == {[i \in 1..k |-> events[g[i]]] : g \in G(k)}
    <3>1. f \in G(n)
      BY <2>1
    <3>2. [i \in 1..n |-> events[f[i]]] \in S(n)
      BY <3>1
    <3>3. Selections(events) = UNION {S(k) : k \in 0..Len(events)}
      BY DEF Selections
    <3> HIDE DEF S
    <3>4. QED
      BY <3>2, <3>3
  <2>2. QED
    BY <2>1
<1>3. <<>> \in Selections(events)
  <2> DEFINE f == [i \in 1..0 |-> 1]
  <2>1. 1..0 = {} /\ 0 \in 0..Len(events)
    BY <1>1
  <2>2. f \in [1..0 -> DOMAIN events] /\ \A i, j \in 1..0 : i < j => f[i] < f[j]
    BY <2>1
  <2> DEFINE s == [i \in 1..0 |-> events[f[i]]]
  <2>3. s \in Selections(events)
    BY <1>2, <2>1, <2>2
  <2>4. s \in Seq(Event)
    BY <2>3, SelectionTypes
  <2>5. DOMAIN s = 1..0 /\ DOMAIN s = 1..Len(s) /\ Len(s) \in Nat
    BY <2>4, LenProperties
  <2>6. s = <<>>
    BY <2>4, <2>5, EmptySeq
  <2>7. QED
    BY <2>3, <2>6
<1>4. events \in Selections(events)
  <2> DEFINE f == [i \in 1..Len(events) |-> i]
  <2>1. /\ f \in [1..Len(events) -> DOMAIN events] /\ Len(events) \in 0..Len(events)
        /\ \A i, j \in 1..Len(events) : i < j => f[i] < f[j]
    BY <1>1
  <2>2. [i \in 1..Len(events) |-> events[f[i]]] \in Selections(events)
    BY <1>2, <2>1
  <2>3. [i \in 1..Len(events) |-> events[f[i]]] = [i \in 1..Len(events) |-> events[i]]
    OBVIOUS
  <2>4. events = [i \in 1..Len(events) |-> events[i]]
    BY <1>1, LenProperties
  <2>5. QED
    BY <2>2, <2>3, <2>4
<1>5. QED
  BY <1>3, <1>4

LEMMA FirstOfWork ==
  ASSUME TypeOK, Places, NEW m \in Writer, pc[m] \in Busy \cup {"inflight"}
  PROVE  /\ work[m][1] \in Event /\ work[m][1] \in Range(work[m])
         /\ Range(work[m]) = {work[m][1]} /\ Len(work[m]) = 1
<1>1. work[m] # <<>> /\ Len(work[m]) <= 1 /\ Len(work[m]) \in Nat
  BY WorkTypes, TxLogAssumption DEF Places, Staged, Sized
<1>2. work[m] \in Seq(Event) /\ DOMAIN work[m] = 1..Len(work[m])
  BY WorkTypes
<1>3. Len(work[m]) # 0
  BY <1>1, <1>2, EmptySeq
<1>4. DOMAIN work[m] = {1}
  BY <1>1, <1>2, <1>3
<1>5. 1 \in 1..Len(work[m])
  BY <1>1, <1>3
<1>6. work[m][1] \in Event
  BY <1>2, <1>5, ElementOfSeq
<1>7. Len(work[m]) = 1
  <2>1. \A x \in Nat : x <= 1 /\ x # 0 => x = 1
    OBVIOUS
  <2>2. QED
    BY <1>1, <1>3, <2>1
<1>8. Range(work[m]) = {work[m][1]}
  BY <1>4 DEF Range
<1>9. QED
  BY <1>6, <1>7, <1>8

LEMMA MovesAreSteps ==
  ASSUME TypeOK, Places, NEW m \in Writer, Moves(m)
  PROVE  FlusherStep(m) \/ Crash(m) \/ Straggle(m)
<1>1. CASE pc[m] = "revalidate" /\ RevalidateRecord(m)
  <2> DEFINE t == work[m][1]
  <2>1. {t} \in SUBSET Range(work[m])
    BY <1>1, FirstOfWork DEF Busy
  <2>2. <<>> \in Selections(work[m]) /\ work[m] \in Selections(work[m])
    BY SelectionsHave, WorkTypes
  <2>3. RevalidateTo(m, <<>>) \/ RejectCancelled(m, {t}) \/ RevalidateTo(m, work[m])
    BY <1>1 DEF RevalidateRecord
  <2> HIDE DEF t
  <2>4. QED
    BY <2>1, <2>2, <2>3 DEF FlusherStep, Revalidate, RevalidateCancelled
<1>2. QED
  BY <1>1 DEF Moves, FlusherStep

(* The step of a transaction that concerns its Committer, or not.            *)
LEMMA TxForms ==
  ASSUME [TxNext]_txall
  PROVE  \/ \E m \in Writer : Moves(m) /\ UNCHANGED txvars
         \/ \E t \in Event : AppendRecord(t) \/ CancelTransaction(t)
         \/ /\ UNCHANGED committers
            /\ \/ \E m \in Writer : Recover(m) \/ RecoverCommit(m) \/ EndRecovery(m)
               \/ \E p \in Process : ApplyOp(p) \/ Mark(p) \/ StopApplying(p) \/ ApplyAgain(p)
               \/ \E t \in Event : \/ Enter(t) \/ BeginCommit(t) \/ CommitNothing(t)
                                   \/ \E k \in Key : Get(t, k)
                                   \/ \E k \in Key : ValidateRead(t, k)
                                   \/ BeginScan(t) \/ ScanCommit(t)
                                   \/ AppendReturns(t) \/ AppendFails(t)
               \/ UNCHANGED txvars
<1>1. CASE UNCHANGED txall
  BY <1>1 DEF txall
<1>2. ASSUME NEW m \in Writer, CommitterStep(m) \/ ManagerCrash(m)
      PROVE  Moves(m) /\ UNCHANGED txvars
  BY <1>2 DEF CommitterStep, ManagerCrash, Moves
<1>3. ASSUME NEW m \in Writer, RecoveryStep(m)
      PROVE  /\ UNCHANGED committers
             /\ \/ Recover(m) \/ RecoverCommit(m) \/ EndRecovery(m)
                \/ \E p \in Process : ApplyOp(p) \/ Mark(p)
  BY <1>3 DEF RecoveryStep, Recover, RecoverCommit, EndRecovery, ApplyStep, ApplyOp, Mark, Process
<1>4. ASSUME NEW t \in Event, CommitStep(t) \/ Enter(t) \/ BeginCommit(t) \/ CommitNothing(t)
                                            \/ (\E k \in Key : Get(t, k))
      PROVE  \/ AppendRecord(t)
             \/ /\ UNCHANGED committers
                /\ \/ Enter(t) \/ BeginCommit(t) \/ CommitNothing(t) \/ \E k \in Key : Get(t, k)
                   \/ \E k \in Key : ValidateRead(t, k)
                   \/ BeginScan(t) \/ ScanCommit(t)
                   \/ AppendReturns(t) \/ AppendFails(t)
                   \/ \E p \in Process : ApplyOp(p) \/ Mark(p)
  BY <1>4 DEF CommitStep, Enter, BeginCommit, CommitNothing, Get, ValidateRead, BeginScan,
              ScanCommit, AppendReturns, AppendFails, ApplyStep, ApplyOp, Mark, Process
<1>5. ASSUME NEW p \in Process, StopApplying(p) \/ ApplyAgain(p) PROVE UNCHANGED committers
  BY <1>5 DEF StopApplying, ApplyAgain
<1>6. CASE Settled
  BY <1>6 DEF Settled
<1>7. QED
  BY <1>1, <1>2, <1>3, <1>4, <1>5, <1>6 DEF TxNext

LEMMA TxStepIsStep ==
  ASSUME TypeOK, Places, [TxNext]_txall
  PROVE  [Next]_vars
<1>1. ASSUME NEW m \in Writer, Moves(m) PROVE Next
  BY <1>1, MovesAreSteps DEF Next
<1>2. ASSUME NEW t \in Event, AppendRecord(t) PROVE Next
  <2>1. AppendMany(ManagerOf[t], t) /\ ManagerOf[t] \in Writer /\ t \in Call
    BY <1>2, TransactionAssumption, TxLogAssumption DEF AppendRecord
  <2>2. QED
    BY <2>1 DEF Next
<1>3. ASSUME NEW t \in Event, CancelTransaction(t) PROVE Next \/ UNCHANGED vars
  <2>1. (CancelAppend(t) \/ UNCHANGED committers) /\ t \in Call
    BY <1>3, TxLogAssumption DEF CancelTransaction
  <2>2. QED
    BY <2>1 DEF Next, committers
<1>4. QED
  BY <1>1, <1>2, <1>3, TxForms DEF committers

Base == IInv /\ Places /\ Recorded

LEMMA AlwaysBase == TxSpec => []Base
<1>1. TxInit => Base
  <2>1. ASSUME TxInit PROVE Init
    BY <2>1 DEF TxInit
  <2>2. Init => Recorded
    BY EmptySeq DEF Init, Recorded
  <2>3. QED
    BY <2>1, <2>2, InitIInv, InitPlaces DEF Base
<1>2. Base /\ [TxNext]_txall => Base'
  <2> SUFFICES ASSUME Base, [TxNext]_txall PROVE Base'
    OBVIOUS
  <2>1. TypeOK /\ IInv /\ Places /\ Recorded
    BY DEF Base, IInv
  <2>2. [Next]_vars
    BY <2>1, TxStepIsStep
  <2>3. IInv' /\ TypeOK'
    BY <2>1, <2>2, StepIInv DEF IInv
  <2>4. QED
    BY <2>1, <2>2, <2>3, StepPlaces, StepRecorded DEF Base
<1>3. QED
  BY <1>1, <1>2, PTL DEF TxSpec, txall

(* The Committers of the managers are those of Committer: whatever holds for *)
(* them there holds here.                                                    *)
THEOREM Composition == TxSpec => Spec
<1>1. TxInit => Init
  BY DEF TxInit
<1>2. Base /\ [TxNext]_txall => [Next]_vars
  BY TxStepIsStep DEF Base, IInv
<1>3. QED
  BY <1>1, <1>2, AlwaysBase, PTL DEF TxSpec, Spec, txall

-----------------------------------------------------------------------------
(* The end of the log, and the first commit that has no marker.              *)
End == Cardinality(DOMAIN log)

LEMMA EndIs ==
  ASSUME TypeOK, DenseLog
  PROVE  /\ End \in Nat /\ DOMAIN log = 1..End /\ UpTo(End)
         /\ (IF DOMAIN log = {} THEN 0 ELSE Max(DOMAIN log)) = End
<1>1. End \in Nat /\ DOMAIN log = 1..End
  BY FS_CardinalityType DEF TypeOK, DenseLog, End
<1> HIDE DEF End
<1>2. CASE DOMAIN log = {}
  BY <1>1, <1>2 DEF UpTo
<1>3. CASE DOMAIN log # {}
  <2>1. End \in 1..End /\ \A n \in 1..End : End >= n
    BY <1>1, <1>3
  <2>2. \A x \in 1..End : (\A y \in 1..End : x >= y) => x = End
    BY <1>1, <2>1
  <2>3. Max(1..End) = End
    BY <2>1, <2>2 DEF Max
  <2>4. QED
    BY <1>1, <1>3, <2>3 DEF UpTo
<1>4. QED
  BY <1>2, <1>3

(* A set of numbers that is not empty has a least one, because the intervals *)
(* that end there are finite.                                                *)
LEMMA LeastNatural ==
  ASSUME NEW T \in SUBSET Nat, T # {}
  PROVE  \E n \in T : \A m \in T : n <= m
<1> DEFINE Below == {1..n : n \in T}
<1>1. Below # {} /\ Below \in SUBSET FiniteSubsetsOf(Nat)
  <2>1. \A n \in T : IsFiniteSet(1..n) /\ 1..n \subseteq Nat
    BY FS_Interval
  <2>2. QED
    BY <2>1 DEF FiniteSubsetsOf
<1> HIDE DEF Below
<1>2. PICK I \in Below : \A J \in Below : ~(<<J, I>> \in StrictSubsetOrdering(Nat))
  BY <1>1, FS_StrictSubsetOrderingWellFounded, WFMin
<1>3. PICK n \in T : I = 1..n
  BY <1>2 DEF Below
<1>4. ASSUME NEW m \in T, ~(n <= m) PROVE FALSE
  <2>1. m \in Nat /\ n \in Nat /\ m < n
    BY <1>4
  <2>2. 1..m \subseteq 1..n /\ n \in 1..n /\ n \notin 1..m
    BY <2>1
  <2>3. 1..m \in Below
    BY DEF Below
  <2>4. 1..m \subseteq Nat /\ 1..n \subseteq Nat
    BY <2>1
  <2>5. <<1..m, 1..n>> \in StrictSubsetOrdering(Nat)
    BY <2>2, <2>4 DEF StrictSubsetOrdering
  <2>6. QED
    BY <1>2, <1>3, <2>3, <2>5
<1>5. QED
  BY <1>4

LEMMA FirstUnmarkedIs ==
  ASSUME markers \subseteq Nat, IsFiniteSet(markers)
  PROVE  /\ FirstUnmarked \in Nat \ {0} /\ FirstUnmarked \notin markers
         /\ 1..FirstUnmarked - 1 \subseteq markers
<1> DEFINE c == Cardinality(markers)
           T == {n \in 1..c + 1 : n \notin markers}
<1>1. c \in Nat
  BY FS_CardinalityType
<1> HIDE DEF c
<1>2. T # {}
  <2>1. SUFFICES ASSUME 1..c + 1 \subseteq markers PROVE FALSE
    OBVIOUS
  <2>2. Cardinality(1..c + 1) <= c
    BY <2>1, FS_Subset DEF c
  <2>3. Cardinality(1..c + 1) = IF 1 > c + 1 THEN 0 ELSE c + 1 - 1 + 1
    BY <1>1, FS_Interval
  <2>4. QED
    BY <1>1, <2>2, <2>3
<1>3. PICK n \in T : \A y \in T : n <= y
  <2>1. T \subseteq Nat
    BY <1>1
  <2>2. QED
    BY <1>2, <2>1, LeastNatural
<1>4. \A y \in T : ~(y < n)
  BY <1>1, <1>3
<1>5. 1..n - 1 \subseteq markers
  BY <1>1, <1>4
<1>6. \E x \in 1..c + 1 : x \notin markers /\ 1..x - 1 \subseteq markers
  BY <1>5
<1>7. QED
  BY <1>1, <1>6 DEF FirstUnmarked, c

-----------------------------------------------------------------------------
(* Types.  Of reads and listed, TxTypeOK says only what their values are.    *)
Shapes ==
  /\ DOMAIN reads = Event /\ DOMAIN listed = Writer /\ IsFiniteSet(markers)

LEMMA OpsAtIs ==
  ASSUME NEW n, NEW i \in DOMAIN OpsAt(n)
  PROVE  /\ log[n][1] \in Event /\ OpsAt(n) = OpsOf[log[n][1]]
         /\ OpsAt(n)[i].key \in Key /\ OpsAt(n)[i].value \in {log[n][1], NoObject}
         /\ i \in Nat \ {0}
<1>1. log[n][1] \in Event /\ OpsAt(n) = OpsOf[log[n][1]]
  <2>1. CASE log[n][1] \notin Event
    BY <2>1, EmptySeq DEF OpsAt
  <2>2. QED
    BY <2>1 DEF OpsAt
<1> DEFINE t == log[n][1]
           S == [key : Key, value : {t, NoObject}]
<1>2. OpsOf[t] \in Seq(S)
  BY <1>1, TransactionAssumption
<1>3. i \in 1..Len(OpsOf[t]) /\ Len(OpsOf[t]) \in Nat
  BY <1>1, <1>2, LenProperties
<1>4. OpsOf[t][i] \in S
  BY <1>2, <1>3, ElementOfSeq
<1>5. QED
  BY <1>1, <1>3, <1>4

LEMMA ApplyTypes ==
  ASSUME TypeOK', TxTypeOK, Shapes, UNCHANGED committers, NEW p \in Process,
         ApplyOp(p) \/ Mark(p) \/ StopApplying(p) \/ ApplyAgain(p)
  PROVE  TxTypeOK' /\ Shapes'
<1>1. applying \in [Process -> [commit : Nat, op : Nat]] /\ Idle \in [commit : Nat, op : Nat]
  BY DEF TxTypeOK, Idle
<1>2. applying[p] \in [commit : Nat, op : Nat]
  BY <1>1
<1>3. ASSUME WriteObject(p)
      PROVE  store' \in [Key -> Event \cup {NoObject}] /\ UNCHANGED markers
  <2> DEFINE n == applying[p].commit
             i == applying[p].op
  <2>1. i \in DOMAIN OpsAt(n) /\ UNCHANGED markers
        /\ store' = [store EXCEPT ![OpsAt(n)[i].key] = OpsAt(n)[i].value]
    BY <1>3 DEF WriteObject
  <2> HIDE DEF n, i
  <2>2. OpsAt(n)[i].value \in Event \cup {NoObject}
    BY <2>1, OpsAtIs
  <2>3. QED
    BY <2>1, <2>2 DEF TxTypeOK
<1>4. ASSUME WriteMarker(p)
      PROVE  markers' \subseteq Nat /\ IsFiniteSet(markers') /\ UNCHANGED store
  <2>1. markers' = markers \cup {applying[p].commit} /\ UNCHANGED store
    BY <1>4 DEF WriteMarker
  <2>2. QED
    BY <1>2, <2>1, FS_AddElement DEF TxTypeOK, Shapes
<1>5. /\ store' \in [Key -> Event \cup {NoObject}]
      /\ markers' \subseteq Nat /\ IsFiniteSet(markers')
  BY <1>3, <1>4 DEF ApplyOp, ApplyAgain, Mark, StopApplying, TxTypeOK, Shapes
<1>6. applying' \in [Process -> [commit : Nat, op : Nat]]
  <2>1. CASE ApplyOp(p)
    <3>1. applying' = [applying EXCEPT ![p].op = @ + 1]
      BY <2>1 DEF ApplyOp
    <3>2. [applying[p] EXCEPT !.op = @ + 1] \in [commit : Nat, op : Nat]
      BY <1>2
    <3>3. QED
      BY <1>1, <3>1, <3>2
  <2>2. CASE Mark(p) \/ StopApplying(p) \/ ApplyAgain(p)
    BY <1>1, <2>2 DEF Mark, StopApplying, ApplyAgain
  <2>3. QED
    BY <2>1, <2>2
<1>7. txpc' \in [Event -> TxPhase]
  BY DEF ApplyOp, ApplyAgain, Mark, StopApplying, TxTypeOK, TxPhase
<1>8. UNCHANGED <<begin, reads, todo, scan, warm, calm, lock, listed, next>>
  BY DEF ApplyOp, ApplyAgain, Mark, StopApplying
<1>9. QED
  BY <1>5, <1>6, <1>7, <1>8 DEF TxTypeOK, Shapes

LEMMA RecoveryTypes ==
  ASSUME TypeOK', TxTypeOK, Shapes, NEW m \in Writer,
         Recover(m) \/ RecoverCommit(m) \/ EndRecovery(m)
  PROVE  TxTypeOK' /\ Shapes'
<1>1. FirstUnmarked \in Nat
  BY FirstUnmarkedIs DEF TxTypeOK, Shapes
<1>2. next' \in [Writer -> Nat]
  BY <1>1 DEF Recover, RecoverCommit, EndRecovery, TxTypeOK
<1>3. DOMAIN listed' = Writer /\ \A d \in Writer : listed'[d] \subseteq Nat
  BY DEF Recover, RecoverCommit, EndRecovery, TxTypeOK, Shapes
<1>4. applying' \in [Process -> [commit : Nat, op : Nat]]
  <2>1. CASE RecoverCommit(m)
    <3>1. [commit |-> next[m], op |-> 1] \in [commit : Nat, op : Nat]
          /\ Idle \in [commit : Nat, op : Nat]
      BY DEF TxTypeOK, Idle
    <3>2. QED
      BY <2>1, <3>1 DEF RecoverCommit, TxTypeOK, Process
  <2>2. CASE Recover(m) \/ EndRecovery(m)
    BY <2>2 DEF Recover, EndRecovery, TxTypeOK
  <2>3. QED
    BY <2>1, <2>2
<1>5. UNCHANGED <<store, markers, txpc, begin, reads, todo, scan, warm, calm, lock>>
  BY DEF Recover, RecoverCommit, EndRecovery
<1>6. QED
  BY <1>2, <1>3, <1>4, <1>5 DEF TxTypeOK, Shapes

LEMMA CommitTypes ==
  ASSUME TypeOK', TxTypeOK, Shapes, DenseLog, NEW t \in Event,
         \/ Enter(t) \/ BeginCommit(t) \/ CommitNothing(t) \/ (\E k \in Key : Get(t, k))
         \/ (\E k \in Key : ValidateRead(t, k)) \/ BeginScan(t) \/ ScanCommit(t)
         \/ AppendReturns(t) \/ AppendFails(t)
  PROVE  TxTypeOK' /\ Shapes'
<1>1. UNCHANGED <<store, markers, warm, listed, next>>
  BY DEF Enter, BeginCommit, CommitNothing, Get, ValidateRead, BeginScan, ScanCommit,
         AppendReturns, AppendFails
<1>2. ReadsOf \in [Event -> SUBSET Key] /\ ManagerOf \in [Event -> Writer]
  BY TransactionAssumption
<1>3. \A r : Raised(r) \in TxPhase
  BY DEF Raised, TxPhase
<1>4. txpc' \in [Event -> TxPhase]
  <2>1. CASE AppendFails(t)
    BY <1>3, <2>1 DEF AppendFails, Become, TxTypeOK
  <2>2. CASE ~AppendFails(t)
    BY <2>2 DEF Enter, BeginCommit, CommitNothing, Get, ValidateRead, BeginScan, ScanCommit,
                AppendReturns, Become, TxTypeOK, TxPhase
  <2>3. QED
    BY <2>1, <2>2
<1>5. begin' \in [Event -> Nat]
  <2>1. CASE Enter(t)
    <3>1. (IF DOMAIN log = {} THEN 0 ELSE Max(DOMAIN log)) \in Nat
      BY EndIs DEF TxTypeOK
    <3>2. QED
      BY <2>1, <3>1 DEF Enter, TxTypeOK
  <2>2. CASE ~Enter(t)
    BY <2>2 DEF BeginCommit, CommitNothing, Get, ValidateRead, BeginScan, ScanCommit,
                AppendReturns, AppendFails, TxTypeOK
  <2>3. QED
    BY <2>1, <2>2
<1>6. /\ DOMAIN reads' = Event
      /\ \A e \in Event : /\ DOMAIN reads'[e] \subseteq ReadsOf[e]
                          /\ \A k \in DOMAIN reads'[e] : reads'[e][k] \in Event \cup {NoObject}
  <2>1. ASSUME NEW k \in Key, Get(t, k)
        PROVE  /\ DOMAIN reads' = Event
               /\ \A e \in Event : /\ DOMAIN reads'[e] \subseteq ReadsOf[e]
                                   /\ \A j \in DOMAIN reads'[e] : reads'[e][j] \in Event \cup {NoObject}
    <3> DEFINE r == [j \in DOMAIN reads[t] \cup {k} |-> IF j = k THEN store[k] ELSE reads[t][j]]
    <3>1. reads' = [reads EXCEPT ![t] = r] /\ k \in ReadsOf[t] /\ DOMAIN reads = Event
      BY <2>1 DEF Get, Shapes
    <3>2. store[k] \in Event \cup {NoObject}
      BY DEF TxTypeOK
    <3>3. DOMAIN r \subseteq ReadsOf[t] /\ \A j \in DOMAIN r : r[j] \in Event \cup {NoObject}
      BY <3>1, <3>2 DEF TxTypeOK
    <3> HIDE DEF r
    <3>4. reads'[t] = r /\ DOMAIN reads' = Event /\ \A e \in Event \ {t} : reads'[e] = reads[e]
      BY <3>1
    <3>5. QED
      BY <3>3, <3>4 DEF TxTypeOK
  <2>2. CASE ~(\E k \in Key : Get(t, k))
    <3>1. UNCHANGED reads
      BY <2>2 DEF Enter, BeginCommit, CommitNothing, ValidateRead, BeginScan, ScanCommit,
                  AppendReturns, AppendFails
    <3>2. QED
      BY <3>1 DEF TxTypeOK, Shapes
  <2>3. QED
    BY <2>1, <2>2
<1>7. todo' \in [Event -> SUBSET Key]
  <2>1. todo \in [Event -> SUBSET Key] /\ \A k : todo[t] \ {k} \in SUBSET Key
    BY DEF TxTypeOK
  <2>2. UNCHANGED todo \/ \E s \in SUBSET Key : todo' = [todo EXCEPT ![t] = s]
    <3>1. CASE BeginCommit(t)
      BY <1>2, <3>1 DEF BeginCommit
    <3>2. ASSUME NEW k \in Key, ValidateRead(t, k)
          PROVE  todo' = [todo EXCEPT ![t] = todo[t] \ {k}] \/ todo' = [todo EXCEPT ![t] = {}]
      BY <3>2 DEF ValidateRead
    <3>3. QED
      BY <2>1, <3>1, <3>2 DEF Enter, CommitNothing, Get, BeginScan, ScanCommit, AppendReturns,
                              AppendFails
  <2>3. QED
    BY <2>1, <2>2
<1>8. scan' \in [Event -> Nat]
  <2>1. scan \in [Event -> Nat] /\ scan[t] + 1 \in Nat /\ begin[t] + 1 \in Nat
    BY DEF TxTypeOK
  <2>2. UNCHANGED scan \/ \E n \in Nat : scan' = [scan EXCEPT ![t] = n]
    <3>1. ASSUME NEW k \in Key, ValidateRead(t, k) PROVE UNCHANGED scan
      BY <3>1 DEF ValidateRead
    <3>2. CASE ScanCommit(t)
      BY <2>1, <3>2 DEF ScanCommit
    <3>3. QED
      BY <2>1, <3>1, <3>2 DEF Enter, BeginCommit, CommitNothing, Get, BeginScan, AppendReturns,
                              AppendFails
  <2>3. QED
    BY <2>1, <2>2
<1>9. calm' \in [Event -> BOOLEAN]
  <2>1. CASE Enter(t)
    <3>1. Calm \in BOOLEAN
      BY DEF Calm
    <3> HIDE DEF Calm
    <3>2. calm' = [calm EXCEPT ![t] = Calm] /\ calm \in [Event -> BOOLEAN]
      BY <2>1 DEF Enter, TxTypeOK
    <3>3. QED
      BY <3>1, <3>2, Zenon
  <2>2. CASE ~Enter(t)
    BY <2>2 DEF BeginCommit, CommitNothing, Get, ValidateRead, BeginScan, ScanCommit,
                AppendReturns, AppendFails, TxTypeOK
  <2>3. QED
    BY <2>1, <2>2
<1>10. lock' \in [Writer -> Event \cup {NoOne}]
  BY <1>2 DEF Enter, BeginCommit, CommitNothing, Get, ValidateRead, BeginScan, ScanCommit,
              AppendReturns, AppendFails, Unlock, TxTypeOK
<1>11. applying' \in [Process -> [commit : Nat, op : Nat]]
  <2>1. CASE AppendReturns(t)
    <3>1. UNCHANGED seq /\ applying' = [applying EXCEPT ![t] = [commit |-> seq[t].commit, op |-> 1]]
      BY <2>1 DEF AppendReturns, committers, vars, futures
    <3>2. seq'[t] \in SequenceNumber
      BY DEF TypeOK
    <3>3. [commit |-> seq[t].commit, op |-> 1] \in [commit : Nat, op : Nat]
      BY <3>1, <3>2 DEF SequenceNumber
    <3>4. QED
      BY <3>1, <3>3 DEF TxTypeOK
  <2>2. CASE ~AppendReturns(t)
    BY <2>2 DEF Enter, BeginCommit, CommitNothing, Get, ValidateRead, BeginScan, ScanCommit,
                AppendFails, TxTypeOK
  <2>3. QED
    BY <2>1, <2>2
<1>12. QED
  BY <1>1, <1>4, <1>5, <1>6, <1>7, <1>8, <1>9, <1>10, <1>11 DEF TxTypeOK, Shapes

LEMMA HandTypes ==
  ASSUME TypeOK', TxTypeOK, Shapes, NEW t \in Event, AppendRecord(t) \/ CancelTransaction(t)
  PROVE  TxTypeOK' /\ Shapes'
<1>1. UNCHANGED <<store, markers, begin, reads, scan, calm, applying, listed, next>>
  BY DEF AppendRecord, CancelTransaction
<1>2. txpc' \in [Event -> TxPhase]
  BY DEF AppendRecord, CancelTransaction, Become, TxTypeOK, TxPhase
<1>3. lock' \in [Writer -> Event \cup {NoOne}] /\ todo' \in [Event -> SUBSET Key]
  BY DEF AppendRecord, CancelTransaction, Unlock, TxTypeOK
<1>4. warm' \in [Event -> BOOLEAN]
  <2>1. CASE AppendRecord(t)
    <3> DEFINE w == tail[ManagerOf[t]] # NoTail /\ HeldBy(ManagerOf[t]) = {}
    <3>1. w \in BOOLEAN
      OBVIOUS
    <3>2. warm' = [warm EXCEPT ![t] = w] /\ warm \in [Event -> BOOLEAN]
      BY <2>1 DEF AppendRecord, TxTypeOK
    <3> HIDE DEF w
    <3>3. QED
      BY <3>1, <3>2, Zenon
  <2>2. CASE CancelTransaction(t)
    BY <2>2 DEF CancelTransaction, TxTypeOK
  <2>3. QED
    BY <2>1, <2>2
<1>5. QED
  BY <1>1, <1>2, <1>3, <1>4 DEF TxTypeOK, Shapes

Types == TxTypeOK /\ Shapes

LEMMA AlwaysTypes == TxSpec => [](Base /\ Types)
<1>1. TxInit => Types
  <2>1. ASSUME TxInit PROVE Types
    <3>1. TypeOK
      BY <2>1, InitIInv DEF TxInit, IInv
    <3>2. IsFiniteSet({})
      BY FS_EmptySet
    <3>3. reads = [t \in Event |-> <<>>] /\ listed = [m \in Writer |-> {}] /\ markers = {}
      BY <2>1 DEF TxInit
    <3>4. Shapes
      BY <3>2, <3>3 DEF Shapes
    <3>5. \A t \in Event : DOMAIN reads[t] = {}
      BY <3>3, EmptySeq
    <3>6. QED
      BY <2>1, <3>1, <3>3, <3>4, <3>5 DEF TxInit, Types, TxTypeOK, TxPhase, Idle
  <2>2. QED
    BY <2>1
<1>2. Base /\ Types /\ Base' /\ [TxNext]_txall => Types'
  <2> SUFFICES ASSUME Base, Types, Base', [TxNext]_txall PROVE Types'
    OBVIOUS
  <2>1. TypeOK /\ DenseLog /\ TypeOK' /\ TxTypeOK /\ Shapes
    BY DEF Base, IInv, Types
  <2>2. CASE UNCHANGED txvars
    BY <2>1, <2>2 DEF txvars, Types, TxTypeOK, Shapes
  <2>3. QED
    BY <2>1, <2>2, TxForms, ApplyTypes, RecoveryTypes, CommitTypes, HandTypes DEF Types
<1>3. QED
  BY <1>1, <1>2, AlwaysBase, PTL DEF TxSpec, txall

(* Every variable of the transactions stays in its range, in whatever order  *)
(* the steps of managers, recoveries and crashes come.                       *)
THEOREM TxTypeCorrect == TxSpec => []TxTypeOK
<1>1. Base /\ Types => TxTypeOK
  BY DEF Types
<1>2. QED
  BY <1>1, AlwaysTypes, PTL

-----------------------------------------------------------------------------
(* The objects and the markers, by who writes them.                          *)
StartsOwn(t) ==
  /\ t \in Event /\ txpc[t] = "append" /\ status[t] = "ok" /\ Alive(ManagerOf[t])
  /\ applying'[t] = [commit |-> seq[t].commit, op |-> 1]

StartsNext(m) ==
  /\ m \in Writer /\ next[m] # 0 /\ next[m] \in DOMAIN log /\ next[m] \notin listed[m]
  /\ applying'[m] = [commit |-> next[m], op |-> 1]

Quiet(p) == applying'[p] = applying[p] \/ applying'[p] = Idle \/ StartsOwn(p) \/ StartsNext(p)

Writes(p) ==
  /\ applying[p] # Idle /\ UNCHANGED committers
  /\ \A q \in Process \ {p} : applying'[q] = applying[q]
  /\ \/ /\ WriteObject(p)
        /\ \/ applying'[p] \in {applying[p], Idle}
           \/ applying'[p] = [commit |-> applying[p].commit, op |-> applying[p].op + 1]
     \/ WriteMarker(p) /\ applying'[p] = Idle

LEMMA StoreForms ==
  ASSUME TxTypeOK, [TxNext]_txall
  PROVE  \/ UNCHANGED <<store, markers>> /\ \A p \in Process : Quiet(p)
         \/ \E p \in Process : Writes(p)
<1>1. applying \in [Process -> [commit : Nat, op : Nat]] /\ Writer \subseteq Process /\ Event \subseteq Process
  BY DEF TxTypeOK, Process
<1>2. ASSUME NEW p \in Process, ApplyOp(p) PROVE Writes(p)
  <2>1. /\ applying' = [applying EXCEPT ![p].op = @ + 1]
        /\ applying[p] # Idle /\ UNCHANGED committers /\ WriteObject(p)
    BY <1>2 DEF ApplyOp
  <2>2. applying[p] \in [commit : Nat, op : Nat]
    BY <1>1
  <2>3. [applying[p] EXCEPT !.op = @ + 1] = [commit |-> applying[p].commit, op |-> applying[p].op + 1]
    BY <2>2
  <2>4. /\ applying'[p] = [applying[p] EXCEPT !.op = @ + 1]
        /\ \A q \in Process \ {p} : applying'[q] = applying[q]
    BY <1>1, <2>1
  <2>5. QED
    BY <2>1, <2>3, <2>4 DEF Writes
<1>3. ASSUME NEW p \in Process, ApplyAgain(p) PROVE Writes(p)
  <2>1. UNCHANGED applying /\ applying[p] # Idle /\ UNCHANGED committers /\ WriteObject(p)
    BY <1>3 DEF ApplyAgain
  <2>2. QED
    BY <2>1 DEF Writes
<1>4. ASSUME NEW p \in Process, Mark(p) PROVE Writes(p)
  <2>1. /\ applying' = [applying EXCEPT ![p] = Idle]
        /\ applying[p] # Idle /\ UNCHANGED committers /\ WriteMarker(p)
    BY <1>4 DEF Mark
  <2>2. QED
    BY <1>1, <2>1 DEF Writes
<1>5. ASSUME NEW p \in Process, StopApplying(p)
      PROVE  Writes(p) \/ (UNCHANGED <<store, markers>> /\ \A q \in Process : Quiet(q))
  <2>1. /\ applying' = [applying EXCEPT ![p] = Idle]
        /\ applying[p] # Idle /\ UNCHANGED committers
        /\ WriteObject(p) \/ WriteMarker(p) \/ UNCHANGED <<store, markers>>
    BY <1>5 DEF StopApplying
  <2>2. applying'[p] = Idle /\ \A q \in Process \ {p} : applying'[q] = applying[q]
    BY <1>1, <2>1
  <2>3. \A q \in Process : Quiet(q)
    BY <2>2 DEF Quiet
  <2>4. QED
    BY <2>1, <2>2, <2>3 DEF Writes
<1>6. ASSUME NEW t \in Event, AppendReturns(t)
      PROVE  UNCHANGED <<store, markers>> /\ \A q \in Process : Quiet(q)
  <2>1. /\ applying' = [applying EXCEPT ![t] = [commit |-> seq[t].commit, op |-> 1]]
        /\ UNCHANGED <<store, markers>> /\ At(t, "append") /\ status[t] = "ok"
    BY <1>6 DEF AppendReturns
  <2>2. StartsOwn(t) /\ \A q \in Process \ {t} : applying'[q] = applying[q]
    BY <1>1, <2>1 DEF StartsOwn, At
  <2>3. QED
    BY <2>1, <2>2 DEF Quiet
<1>7. ASSUME NEW m \in Writer, RecoverCommit(m)
      PROVE  UNCHANGED <<store, markers>> /\ \A q \in Process : Quiet(q)
  <2> DEFINE a == IF next[m] \in listed[m] THEN Idle ELSE [commit |-> next[m], op |-> 1]
  <2>1. /\ applying' = [applying EXCEPT ![m] = a]
        /\ UNCHANGED <<store, markers>> /\ next[m] # 0 /\ next[m] \in DOMAIN log
    BY <1>7 DEF RecoverCommit
  <2>2. applying'[m] = a /\ \A q \in Process \ {m} : applying'[q] = applying[q]
    BY <1>1, <2>1
  <2>3. Quiet(m)
    BY <2>1, <2>2 DEF Quiet, StartsNext
  <2>4. QED
    BY <2>1, <2>2, <2>3 DEF Quiet
<1>8. ASSUME UNCHANGED <<store, markers, applying>>
      PROVE  UNCHANGED <<store, markers>> /\ \A q \in Process : Quiet(q)
  BY <1>8 DEF Quiet
<1>9. ASSUME NEW m \in Writer, Recover(m) \/ EndRecovery(m) PROVE UNCHANGED <<store, markers, applying>>
  BY <1>9 DEF Recover, EndRecovery
<1>10. ASSUME NEW t \in Event,
             \/ AppendRecord(t) \/ CancelTransaction(t) \/ Enter(t) \/ BeginCommit(t)
             \/ CommitNothing(t)
             \/ (\E k \in Key : Get(t, k)) \/ (\E k \in Key : ValidateRead(t, k))
             \/ BeginScan(t) \/ ScanCommit(t) \/ AppendFails(t)
      PROVE  UNCHANGED <<store, markers, applying>>
  BY <1>10 DEF AppendRecord, CancelTransaction, Enter, BeginCommit, CommitNothing, Get,
              ValidateRead, BeginScan, ScanCommit, AppendFails
<1>11. CASE UNCHANGED txvars
  BY <1>8, <1>11 DEF txvars
<1>12. QED
  BY <1>2, <1>4, <1>5, <1>6, <1>7, <1>8, <1>9, <1>10, <1>11, <1>3, TxForms

LEMMA TxLogGrows ==
  ASSUME Base, [TxNext]_txall
  PROVE  /\ DenseLog' /\ DOMAIN log \subseteq DOMAIN log'
         /\ \A n \in DOMAIN log : log'[n] = log[n]
<1>1. TypeOK /\ DenseLog /\ KnownPrefix /\ Places
  BY DEF Base, IInv
<1>2. QED
  BY <1>1, TxStepIsStep, LogGrows

-----------------------------------------------------------------------------
(* What is in the objects comes from the log.                                *)
Wrote(j, k, v) ==
  j \in DOMAIN log /\ \E i \in DOMAIN OpsAt(j) : OpsAt(j)[i].key = k /\ OpsAt(j)[i].value = v

Written(k) == \E j \in DOMAIN log : Wrote(j, k, store[k])

Behind(p) ==
  applying[p] # Idle =>
    /\ applying[p].commit \in DOMAIN log /\ applying[p].op >= 1
    /\ \A i \in DOMAIN OpsAt(applying[p].commit) :
         i < applying[p].op => Written(OpsAt(applying[p].commit)[i].key)

Done(n) == n \in DOMAIN log /\ \A i \in DOMAIN OpsAt(n) : Written(OpsAt(n)[i].key)

Effects == (\A p \in Process : Behind(p)) /\ \A n \in markers : Done(n)

LEMMA OpsStay ==
  ASSUME NEW n \in DOMAIN log, DOMAIN log \subseteq DOMAIN log', log'[n] = log[n]
  PROVE  /\ OpsAt(n)' = OpsAt(n)
         /\ \A k, v : Wrote(n, k, v) => Wrote(n, k, v)'
<1>1. OpsAt(n)' = OpsAt(n)
  BY DEF OpsAt
<1>2. QED
  BY <1>1 DEF Wrote

LEMMA WriteObjectIs ==
  ASSUME TxTypeOK, NEW p \in Process, WriteObject(p)
  PROVE  LET n == applying[p].commit  i == applying[p].op
         IN /\ i \in DOMAIN OpsAt(n) /\ OpsAt(n)[i].key \in Key
            /\ store' = [store EXCEPT ![OpsAt(n)[i].key] = OpsAt(n)[i].value]
            /\ store'[OpsAt(n)[i].key] = OpsAt(n)[i].value
            /\ \A k \in Key \ {OpsAt(n)[i].key} : store'[k] = store[k]
            /\ UNCHANGED markers
<1> DEFINE n == applying[p].commit
           i == applying[p].op
<1>1. /\ i \in DOMAIN OpsAt(n) /\ UNCHANGED markers
      /\ store' = [store EXCEPT ![OpsAt(n)[i].key] = OpsAt(n)[i].value]
  BY DEF WriteObject
<1> HIDE DEF n, i
<1>2. OpsAt(n)[i].key \in Key
  BY <1>1, OpsAtIs
<1>3. store \in [Key -> Event \cup {NoObject}]
  BY DEF TxTypeOK
<1>4. QED
  BY <1>1, <1>2, <1>3 DEF n, i

LEMMA StepWritten ==
  ASSUME Base, TxTypeOK, Effects, [TxNext]_txall, NEW k \in Key
  PROVE  /\ Written(k) => Written(k)'
         /\ \A p \in Process :
              Writes(p) /\ WriteObject(p) /\ k = OpsAt(applying[p].commit)[applying[p].op].key =>
                Written(k)'
<1>1. ASSUME Written(k), store'[k] = store[k] PROVE Written(k)'
  <2>1. PICK j \in DOMAIN log : Wrote(j, k, store[k])
    BY <1>1 DEF Written
  <2>2. PICK v : v = store[k]
    OBVIOUS
  <2>3. j \in DOMAIN log' /\ Wrote(j, k, v)'
    BY <2>1, <2>2, TxLogGrows, OpsStay
  <2>4. v = store'[k]
    BY <1>1, <2>2
  <2>5. QED
    BY <2>3, <2>4 DEF Written, Wrote
<1>2. ASSUME NEW p \in Process, Writes(p), WriteObject(p)
      PROVE  IF k = OpsAt(applying[p].commit)[applying[p].op].key
             THEN Written(k)' ELSE store'[k] = store[k]
  <2>1. PICK n, i : n = applying[p].commit /\ i = applying[p].op
    OBVIOUS
  <2>2. /\ i \in DOMAIN OpsAt(n) /\ store'[OpsAt(n)[i].key] = OpsAt(n)[i].value
        /\ \A x \in Key \ {OpsAt(n)[i].key} : store'[x] = store[x]
    BY <1>2, <2>1, WriteObjectIs
  <2>3. n \in DOMAIN log /\ UNCHANGED log
    BY <1>2, <2>1 DEF Writes, Effects, Behind, committers, vars
  <2>4. OpsAt(n)' = OpsAt(n)
    BY <2>3 DEF OpsAt
  <2>5. CASE k = OpsAt(n)[i].key
    <3>1. n \in DOMAIN log' /\ i \in DOMAIN OpsAt(n)' /\ OpsAt(n)'[i].key = k
          /\ OpsAt(n)'[i].value = store'[k]
      BY <2>2, <2>3, <2>4, <2>5
    <3>2. Written(k)'
      BY <3>1 DEF Written, Wrote
    <3>3. QED
      BY <2>1, <2>5, <3>2
  <2>6. QED
    BY <2>1, <2>2, <2>5
<1>3. CASE \E p \in Process : Writes(p) /\ WriteObject(p)
  BY <1>1, <1>2, <1>3
<1>4. CASE ~\E p \in Process : Writes(p) /\ WriteObject(p)
  <2>1. UNCHANGED store
    BY <1>4, StoreForms DEF Writes, WriteMarker
  <2>2. QED
    BY <1>1, <1>4, <2>1
<1>5. QED
  BY <1>3, <1>4

LEMMA StepEffects ==
  ASSUME Base, TxTypeOK, Effects, [TxNext]_txall
  PROVE  Effects'
<1>1. ASSUME NEW n \in DOMAIN log
      PROVE  /\ n \in DOMAIN log' /\ OpsAt(n)' = OpsAt(n)
             /\ \A i \in DOMAIN OpsAt(n) :
                  OpsAt(n)[i].key \in Key /\ (Written(OpsAt(n)[i].key) => \A k : k = OpsAt(n)[i].key => Written(k)')
  <2>1. n \in DOMAIN log' /\ OpsAt(n)' = OpsAt(n)
    BY TxLogGrows, OpsStay
  <2>2. \A i \in DOMAIN OpsAt(n) : OpsAt(n)[i].key \in Key
    BY OpsAtIs
  <2>3. \A k \in Key : Written(k) => Written(k)'
    BY StepWritten
  <2>4. QED
    BY <2>1, <2>2, <2>3
<1>2. ASSUME NEW p \in Process, applying'[p] = applying[p] PROVE Behind(p)'
  <2>1. PICK n, o : n = applying[p].commit /\ o = applying[p].op
    OBVIOUS
  <2>2. CASE applying[p] # Idle
    <3>1. n \in DOMAIN log /\ o >= 1 /\ \A i \in DOMAIN OpsAt(n) : i < o => Written(OpsAt(n)[i].key)
      BY <2>1, <2>2 DEF Effects, Behind
    <3>2. /\ n \in DOMAIN log' /\ OpsAt(n)' = OpsAt(n)
          /\ \A i \in DOMAIN OpsAt(n) : i < o => \A k : k = OpsAt(n)[i].key => Written(k)'
      BY <1>1, <3>1
    <3>3. applying'[p].commit = n /\ applying'[p].op = o
      BY <1>2, <2>1
    <3>4. QED
      BY <3>1, <3>2, <3>3 DEF Behind
  <2>3. QED
    BY <1>2, <2>2 DEF Behind
<1>3. ASSUME NEW p \in Process, Quiet(p) PROVE Behind(p)'
  <2>1. ASSUME NEW n \in DOMAIN log, applying'[p] = [commit |-> n, op |-> 1] PROVE Behind(p)'
    <3>1. n \in DOMAIN log' /\ applying'[p].commit = n /\ applying'[p].op = 1
      BY <1>1, <2>1
    <3>2. \A i \in DOMAIN OpsAt(n)' : ~(i < 1)
      BY <1>1, OpsAtIs
    <3>3. QED
      BY <3>1, <3>2 DEF Behind
  <2>2. CASE StartsOwn(p)
    <3>1. seq[p].commit \in DOMAIN log
      BY <2>2 DEF StartsOwn, Base, IInv, AckedDurably
    <3>2. QED
      BY <2>1, <2>2, <3>1 DEF StartsOwn
  <2>3. CASE StartsNext(p)
    BY <2>1, <2>3 DEF StartsNext
  <2>4. CASE applying'[p] = Idle
    BY <2>4 DEF Behind
  <2>5. QED
    BY <1>2, <1>3, <2>2, <2>3, <2>4 DEF Quiet
<1>4. ASSUME NEW n \in markers PROVE Done(n)'
  <2>1. n \in DOMAIN log /\ \A i \in DOMAIN OpsAt(n) : Written(OpsAt(n)[i].key)
    BY DEF Effects, Done
  <2>2. n \in DOMAIN log' /\ OpsAt(n)' = OpsAt(n)
        /\ \A i \in DOMAIN OpsAt(n) : \A k : k = OpsAt(n)[i].key => Written(k)'
    BY <1>1, <2>1
  <2>3. QED
    BY <2>2 DEF Done
<1>5. CASE UNCHANGED <<store, markers>> /\ \A p \in Process : Quiet(p)
  BY <1>3, <1>4, <1>5 DEF Effects
<1>6. ASSUME NEW p \in Process, Writes(p) PROVE Effects'
  <2>1. PICK n, o : n = applying[p].commit /\ o = applying[p].op
    OBVIOUS
  <2>2. /\ n \in DOMAIN log /\ o >= 1 /\ o \in Nat
        /\ \A i \in DOMAIN OpsAt(n) : i < o => Written(OpsAt(n)[i].key)
    BY <1>6, <2>1 DEF Writes, Effects, Behind, TxTypeOK
  <2>3. /\ n \in DOMAIN log' /\ OpsAt(n)' = OpsAt(n)
        /\ \A i \in DOMAIN OpsAt(n) : i < o => \A k : k = OpsAt(n)[i].key => Written(k)'
    BY <1>1, <2>2
  <2>4. \A q \in Process \ {p} : Behind(q)'
    BY <1>2, <1>6 DEF Writes
  <2>5. CASE WriteObject(p)
    <3>1. OpsAt(n)[o].key \in Key /\ o \in DOMAIN OpsAt(n) /\ UNCHANGED markers
      BY <2>1, <2>5, WriteObjectIs
    <3>2. \A k : k = OpsAt(n)[o].key => Written(k)'
      BY <1>6, <2>1, <2>5, <3>1, StepWritten
    <3>3. \A i \in DOMAIN OpsAt(n) : i \in Nat
      BY OpsAtIs
    <3>4. \A i \in DOMAIN OpsAt(n)' : i < o + 1 => \A k : k = OpsAt(n)'[i].key => Written(k)'
      <4>1. \A i \in Nat : i < o + 1 => i < o \/ i = o
        BY <2>2
      <4>2. QED
        BY <2>3, <3>2, <3>3, <4>1
    <3>5. \/ applying'[p] = Idle
          \/ applying'[p].commit = n /\ applying'[p].op \in {o, o + 1}
      BY <1>6, <2>1, <2>5 DEF Writes, WriteMarker, WriteObject, AppliedAll
    <3>6. Behind(p)'
      <4>1. o + 1 >= 1 /\ \A i \in DOMAIN OpsAt(n)' : i < o => i < o + 1
        BY <2>2, <2>3, <3>3
      <4>2. QED
        BY <2>2, <2>3, <3>4, <3>5, <4>1 DEF Behind
    <3>7. QED
      BY <1>4, <2>4, <3>1, <3>6 DEF Effects
  <2>6. CASE WriteMarker(p)
    <3>1. o \notin DOMAIN OpsAt(n) /\ markers' = markers \cup {n} /\ applying'[p] = Idle
      BY <1>6, <2>1, <2>6 DEF Writes, WriteMarker, WriteObject, AppliedAll
    <3>2. Behind(p)'
      BY <3>1 DEF Behind
    <3>3. \A i \in DOMAIN OpsAt(n) : i < o
      <4>1. CASE OpsAt(n) = <<>>
        BY <4>1, EmptySeq
      <4>2. CASE OpsAt(n) # <<>>
        <5>1. log[n][1] \in Event /\ OpsAt(n) = OpsOf[log[n][1]]
          BY <4>2 DEF OpsAt
        <5>2. DOMAIN OpsAt(n) = 1..Len(OpsAt(n)) /\ Len(OpsAt(n)) \in Nat
          BY <5>1, TransactionAssumption, LenProperties
        <5>3. QED
          BY <2>2, <3>1, <5>2
      <4>3. QED
        BY <4>1, <4>2
    <3>4. Done(n)'
      BY <2>3, <3>3 DEF Done
    <3>5. QED
      BY <1>4, <2>4, <3>1, <3>2, <3>4 DEF Effects
  <2>7. QED
    BY <1>6, <2>5, <2>6 DEF Writes
<1>7. QED
  BY <1>5, <1>6, StoreForms

LEMMA AlwaysEffects == TxSpec => [](Base /\ Types /\ Effects)
<1>1. TxInit => Effects
  BY DEF TxInit, Effects, Behind
<1>2. Base /\ Types /\ Effects /\ [TxNext]_txall => Effects'
  BY StepEffects DEF Types
<1>3. QED
  BY <1>1, <1>2, AlwaysTypes, PTL DEF TxSpec, txall

(* A marker tells the truth, under all faults: its commit is in the log, and *)
(* every key its record wrote holds the value of some operation of a         *)
(* committed record on that key (_apply_commit, 251-272).                    *)
THEOREM MarkedIsWritten == TxSpec => [](\A n \in markers : Done(n))
<1>1. Base /\ Types /\ Effects => \A n \in markers : Done(n)
  BY DEF Effects
<1>2. QED
  BY <1>1, AlwaysEffects, PTL

(* A record that stages a key twice has that key hold the first of the two   *)
(* values for a while, and again when somebody applies it once more.         *)
OneWriteEach ==
  \A t \in Event : \A i, j \in DOMAIN OpsOf[t] : OpsOf[t][i].key = OpsOf[t][j].key => i = j

LEMMA OnlyWriteIsLast ==
  ASSUME OneWriteEach, NEW t \in Event, NEW i \in DOMAIN OpsOf[t]
  PROVE  LastWrite(t, OpsOf[t][i].key) = OpsOf[t][i].value
<1> DEFINE S == {j \in DOMAIN OpsOf[t] : OpsOf[t][j].key = OpsOf[t][i].key}
<1>1. S = {i}
  BY DEF OneWriteEach
<1>2. i \in Nat
  <2> DEFINE V == [key : Key, value : {t, NoObject}]
  <2>1. OpsOf[t] \in Seq(V)
    BY TransactionAssumption
  <2>2. QED
    BY <2>1, LenProperties
<1>3. Max(S) = i
  BY <1>1, <1>2 DEF Max
<1>4. QED
  BY <1>3 DEF LastWrite

(* If no record stages a key twice, every key that a marked record wrote has *)
(* the value which some committed record left there: MarkedIsApplied.        *)
THEOREM MarkersAreTrue ==
  ASSUME OneWriteEach
  PROVE  TxSpec => []MarkedIsApplied
<1>1. ASSUME Effects PROVE MarkedIsApplied
  <2>1. ASSUME NEW n \in markers, NEW k \in WriteSet(log[n][1])
        PROVE  \E j \in DOMAIN log : k \in WriteSet(log[j][1]) /\ store[k] = LastWrite(log[j][1], k)
    <3>1. PICK i \in DOMAIN OpsAt(n) : OpsAt(n)[i].key = k
      BY <2>1 DEF WriteSet, OpsAt
    <3>2. Written(k)
      BY <1>1, <3>1 DEF Effects, Done
    <3>3. PICK j \in DOMAIN log : Wrote(j, k, store[k])
      BY <3>2 DEF Written
    <3>4. PICK x \in DOMAIN OpsAt(j) : OpsAt(j)[x].key = k /\ OpsAt(j)[x].value = store[k]
      BY <3>3 DEF Wrote
    <3>5. log[j][1] \in Event /\ OpsAt(j) = OpsOf[log[j][1]]
      BY <3>4, OpsAtIs
    <3>6. LastWrite(log[j][1], k) = store[k] /\ k \in WriteSet(log[j][1])
      BY <3>4, <3>5, OnlyWriteIsLast DEF WriteSet
    <3>7. QED
      BY <3>6
  <2>2. QED
    BY <1>1, <2>1 DEF MarkedIsApplied, Effects, Done
<1>2. Effects => MarkedIsApplied
  BY <1>1
<1>3. QED
  BY <1>2, AlwaysEffects, PTL

-----------------------------------------------------------------------------
(* A transaction and the future of its only append.                          *)
LEMMA MoveForms ==
  ASSUME TypeOK, Places, NEW m \in Writer, Moves(m)
  PROVE  Takes(m) \/ Proceeds(m) \/ Stores(m) \/ Ends(m) \/ Retries(m)
BY MovesAreSteps, FlusherForms, CallForms

LEMMA OwnRecord ==
  ASSUME NEW t \in Event
  PROVE  t \in Call /\ EventsOf[t] = <<t>> /\ Range(EventsOf[t]) = {t} /\ ManagerOf[t] \in Writer
<1>1. t \in Call /\ EventsOf[t] = <<t>> /\ ManagerOf[t] \in Writer
  BY TxLogAssumption, TransactionAssumption
<1>2. DOMAIN <<t>> = {1} /\ <<t>>[1] = t
  OBVIOUS
<1>3. QED
  BY <1>1, <1>2 DEF Range

LEMMA StatusSteps ==
  ASSUME TypeOK, Places, [TxNext]_txall, NEW e \in Event
  PROVE  \/ status'[e] = status[e]
         \/ status[e] = "pending" /\ status'[e] # "new"
         \/ AppendRecord(e) /\ status[e] = "new" /\ status'[e] = "pending"
<1>1. ASSUME NEW m \in Writer, Moves(m)
      PROVE  status'[e] = status[e] \/ (status[e] = "pending" /\ status'[e] # "new")
  <2>1. CASE Takes(m) \/ Stores(m)
    BY <2>1 DEF Takes, Stores
  <2>2. CASE Proceeds(m)
    BY <2>2 DEF Proceeds, Loses
  <2>3. CASE Ends(m)
    BY <2>3 DEF Ends, Decided
  <2>4. CASE Retries(m)
    BY <2>4 DEF Retries
  <2>5. QED
    BY <1>1, <2>1, <2>2, <2>3, <2>4, MoveForms
<1>2. ASSUME NEW t \in Event, AppendRecord(t)
      PROVE  \/ status'[e] = status[e]
             \/ AppendRecord(e) /\ status[e] = "new" /\ status'[e] = "pending"
  <2>1. /\ status' = [x \in Event |-> IF x \in {t} THEN "pending" ELSE status[x]]
        /\ status[t] = "new"
    BY <1>2, OwnRecord DEF AppendRecord, AppendMany
  <2>2. QED
    BY <1>2, <2>1
<1>3. ASSUME NEW t \in Event, CancelTransaction(t)
      PROVE  status'[e] = status[e] \/ (status[e] = "pending" /\ status'[e] # "new")
  <2>1. CASE CancelAppend(t)
    BY <2>1 DEF CancelAppend
  <2>2. CASE UNCHANGED committers
    BY <2>2 DEF committers, vars, futures
  <2>3. QED
    BY <1>3, <2>1, <2>2 DEF CancelTransaction
<1>4. UNCHANGED committers => status'[e] = status[e]
  BY DEF committers, vars, futures
<1>5. QED
  BY <1>1, <1>2, <1>3, <1>4, TxForms

Early == {"new", "open", "validate", "scan"}

(* Only an append that was made changes the future, and only one that was    *)
(* rejected, or a check before it, makes a conflict.                         *)
Reported ==
  /\ \A t \in Event : txpc[t] \in Early => status[t] = "new"
  /\ \A t \in Event : txpc[t] = "conflict" => status[t] \in {"new", "rejected"}
  /\ \A k \in Key : store[k] = NoObject \/ Written(k)

LEMMA PhaseSteps ==
  ASSUME TxTypeOK, [TxNext]_txall, NEW e \in Event
  PROVE  /\ txpc'[e] \in Early => txpc[e] \in Early /\ ~AppendRecord(e)
         /\ txpc'[e] = "conflict" =>
              txpc[e] \in Early \cup {"conflict"} \/ (txpc[e] = "append" /\ status[e] = "rejected")
         /\ AppendRecord(e) => txpc'[e] = "append"
<1>1. txpc \in [Event -> TxPhase]
  BY DEF TxTypeOK
<1>2. ASSUME NEW t \in Event, AppendFails(t)
      PROVE  /\ txpc' = [txpc EXCEPT ![t] = Raised(status[t])] /\ txpc[t] = "append"
             /\ Raised(status[t]) \in {"conflict", "failed"}
             /\ Raised(status[t]) = "conflict" => status[t] = "rejected"
  BY <1>2 DEF AppendFails, At, Become, Raised
<1>3. ASSUME NEW t \in Event,
             \/ Enter(t) \/ BeginCommit(t) \/ CommitNothing(t) \/ (\E k \in Key : Get(t, k))
             \/ (\E k \in Key : ValidateRead(t, k)) \/ BeginScan(t) \/ ScanCommit(t)
      PROVE  /\ txpc[t] \in Early
             /\ UNCHANGED txpc \/ \E x \in Early \cup {"conflict", "done"} : txpc' = [txpc EXCEPT ![t] = x]
  BY <1>3 DEF Enter, BeginCommit, CommitNothing, Get, ValidateRead, BeginScan, ScanCommit, At,
              Become, Early
<1>4. ASSUME NEW t \in Event, AppendRecord(t) PROVE txpc' = [txpc EXCEPT ![t] = "append"]
  BY <1>4 DEF AppendRecord, Become
<1>5. ASSUME NEW t \in Event, AppendReturns(t) \/ CancelTransaction(t)
      PROVE  \E x \in {"apply", "cancelled"} : txpc' = [txpc EXCEPT ![t] = x]
  BY <1>5 DEF AppendReturns, CancelTransaction, Become
<1>6. ASSUME NEW m \in Writer, Recover(m) \/ RecoverCommit(m) \/ EndRecovery(m) PROVE UNCHANGED txpc
  BY <1>6 DEF Recover, RecoverCommit, EndRecovery
<1>7. ASSUME NEW p \in Process, ApplyOp(p) \/ Mark(p) \/ StopApplying(p) \/ ApplyAgain(p)
      PROVE  txpc'[e] = txpc[e] \/ txpc'[e] = "done"
  BY <1>7 DEF ApplyOp, ApplyAgain, Mark, StopApplying
<1>8. UNCHANGED txvars => UNCHANGED txpc
  BY DEF txvars
<1>9. AppendRecord(e) => txpc'[e] = "append"
  BY <1>1, <1>4
<1> USE <1>1 DEF Early
<1>10. QED
  BY <1>2, <1>3, <1>4, <1>5, <1>6, <1>7, <1>8, <1>9, TxForms

LEMMA StepReported ==
  ASSUME Base, TxTypeOK, Effects, Reported, [TxNext]_txall
  PROVE  Reported'
<1>1. TypeOK /\ Places
  BY DEF Base, IInv
<1>2. ASSUME NEW t \in Event, txpc'[t] \in Early PROVE status'[t] = "new"
  <2>1. txpc[t] \in Early /\ ~AppendRecord(t)
    BY <1>2, PhaseSteps
  <2>2. status[t] = "new"
    BY <2>1 DEF Reported
  <2>3. QED
    BY <1>1, <2>1, <2>2, StatusSteps
<1>3. ASSUME NEW t \in Event, txpc'[t] = "conflict" PROVE status'[t] \in {"new", "rejected"}
  <2>1. /\ txpc[t] \in Early \cup {"conflict"} \/ (txpc[t] = "append" /\ status[t] = "rejected")
        /\ ~AppendRecord(t)
    BY <1>3, PhaseSteps
  <2>2. status[t] \in {"new", "rejected"}
    BY <2>1 DEF Reported
  <2>3. QED
    BY <1>1, <2>1, <2>2, StatusSteps
<1>4. ASSUME NEW k \in Key PROVE store'[k] = NoObject \/ Written(k)'
  <2>1. CASE \E p \in Process : Writes(p) /\ WriteObject(p)
    <3>1. PICK p \in Process : Writes(p) /\ WriteObject(p)
      BY <2>1
    <3>2. CASE k = OpsAt(applying[p].commit)[applying[p].op].key
      BY <3>1, <3>2, StepWritten
    <3>3. CASE k # OpsAt(applying[p].commit)[applying[p].op].key
      <4>1. store'[k] = store[k]
        BY <3>1, <3>3, WriteObjectIs
      <4>2. QED
        BY <4>1, StepWritten DEF Reported
    <3>4. QED
      BY <3>2, <3>3
  <2>2. CASE ~\E p \in Process : Writes(p) /\ WriteObject(p)
    <3>1. UNCHANGED store
      BY <2>2, StoreForms DEF Writes, WriteMarker
    <3>2. QED
      BY <3>1, StepWritten DEF Reported
  <2>3. QED
    BY <2>1, <2>2
<1>5. QED
  BY <1>2, <1>3, <1>4 DEF Reported

LEMMA AlwaysReported == TxSpec => [](Base /\ Types /\ Effects /\ Reported)
<1>1. TxInit => Reported
  <2>1. ASSUME TxInit PROVE Reported
    <3>1. Init
      BY <2>1 DEF TxInit
    <3>2. \A t \in Event : status[t] = "new"
      BY <3>1 DEF Init
    <3>3. \A t \in Event : txpc[t] = "new"
      BY <2>1 DEF TxInit
    <3>4. \A k \in Key : store[k] = NoObject
      BY <2>1 DEF TxInit
    <3>5. QED
      BY <3>2, <3>3, <3>4 DEF Reported
  <2>2. QED
    BY <2>1
<1>2. Base /\ Types /\ Effects /\ Reported /\ [TxNext]_txall => Reported'
  BY StepReported DEF Types
<1>3. QED
  BY <1>1, <1>2, AlwaysEffects, PTL DEF TxSpec, txall

(* A transaction that raised TransactionConflict has left nothing in the     *)
(* log, so that nobody ever applies it, and nothing in an object (commit,    *)
(* 174-201), under every fault but a resent put that was stored.             *)
THEOREM ConflictsLeaveNoTrace ==
  ASSUME NoResend
  PROVE  TxSpec => []ConflictLeavesNoTrace
<1>1. ASSUME Base, Types, Reported, FailedNotCommitted PROVE ConflictLeavesNoTrace
  <2>1. ASSUME NEW t \in Event, txpc[t] = "conflict" PROVE ~Committed(t)
    <3>1. CASE status[t] = "new"
      BY <1>1, <3>1, NewNotCommitted DEF Base, IInv
    <3>2. CASE status[t] = "rejected"
      BY <1>1, <3>2 DEF FailedNotCommitted
    <3>3. QED
      BY <1>1, <2>1, <3>1, <3>2 DEF Reported
  <2>2. ASSUME NEW t \in Event, NEW k \in Key, store[k] = t PROVE Committed(t)
    <3>1. Written(k)
      BY <1>1, <2>2, TransactionAssumption DEF Reported
    <3>2. PICK j \in DOMAIN log : Wrote(j, k, t)
      BY <2>2, <3>1 DEF Written
    <3>3. PICK i \in DOMAIN OpsAt(j) : OpsAt(j)[i].value = t
      BY <3>2 DEF Wrote
    <3>4. log[j][1] = t
      BY <3>3, OpsAtIs, TransactionAssumption
    <3>5. log[j] # <<>> /\ log[j] \in Seq(Event \cup {OldEvent})
      BY <1>1 DEF Base, Recorded, IInv, TypeOK
    <3>6. 1 \in DOMAIN log[j]
      BY <3>5, LenProperties, EmptySeq
    <3>7. QED
      BY <3>4, <3>6 DEF Committed, Range
  <2>3. QED
    BY <2>1, <2>2 DEF ConflictLeavesNoTrace
<1>2. Base /\ Types /\ Reported /\ FailedNotCommitted => ConflictLeavesNoTrace
  BY <1>1
<1>3. Honest
  BY TxLogAssumption DEF Honest
<1>4. Spec => []FailedNotCommitted
  BY <1>3, FailuresAreTrue
<1>5. QED
  BY <1>2, <1>4, AlwaysReported, Composition, PTL

-----------------------------------------------------------------------------
(* What the steps of the others leave of a transaction.                      *)
OwnStep(t) ==
  \/ Enter(t) \/ BeginCommit(t) \/ CommitNothing(t) \/ (\E k \in Key : Get(t, k))
  \/ (\E k \in Key : ValidateRead(t, k)) \/ BeginScan(t) \/ ScanCommit(t)
  \/ AppendRecord(t) \/ AppendReturns(t) \/ AppendFails(t) \/ CancelTransaction(t)

Same(t) ==
  /\ begin'[t] = begin[t] /\ reads'[t] = reads[t] /\ todo'[t] = todo[t] /\ scan'[t] = scan[t]
  /\ warm'[t] = warm[t] /\ calm'[t] = calm[t]

LEMMA OwnForms ==
  ASSUME TxTypeOK, Shapes, [TxNext]_txall, NEW t \in Event
  PROVE  OwnStep(t) \/ (Same(t) /\ txpc'[t] \in {txpc[t], "done"})
<1>1. /\ DOMAIN txpc = Event /\ DOMAIN begin = Event /\ DOMAIN reads = Event /\ DOMAIN todo = Event
      /\ DOMAIN scan = Event /\ DOMAIN warm = Event /\ DOMAIN calm = Event
  BY DEF TxTypeOK, Shapes
<1>2. ASSUME NEW u \in Event, u # t,
             \/ Enter(u) \/ BeginCommit(u) \/ CommitNothing(u) \/ (\E k \in Key : Get(u, k))
             \/ BeginScan(u) \/ ScanCommit(u)
      PROVE  Same(t) /\ txpc'[t] = txpc[t]
  BY <1>1, <1>2 DEF Enter, BeginCommit, CommitNothing, Get, BeginScan, ScanCommit, Become, Same
<1>3. ASSUME NEW u \in Event, u # t,
             \/ AppendRecord(u) \/ AppendReturns(u) \/ AppendFails(u) \/ CancelTransaction(u)
             \/ (\E k \in Key : ValidateRead(u, k))
      PROVE  Same(t) /\ txpc'[t] = txpc[t]
  BY <1>1, <1>3 DEF AppendRecord, AppendReturns, AppendFails, CancelTransaction, ValidateRead, Become, Same
<1>4. ASSUME NEW m \in Writer, Recover(m) \/ RecoverCommit(m) \/ EndRecovery(m)
      PROVE  Same(t) /\ txpc'[t] = txpc[t]
  BY <1>4 DEF Recover, RecoverCommit, EndRecovery, Same
<1>5. ASSUME NEW p \in Process, ApplyOp(p) \/ Mark(p) \/ StopApplying(p) \/ ApplyAgain(p)
      PROVE  Same(t) /\ txpc'[t] \in {txpc[t], "done"}
  BY <1>5 DEF ApplyOp, ApplyAgain, Mark, StopApplying, Same
<1>6. UNCHANGED txvars => Same(t) /\ txpc'[t] = txpc[t]
  BY DEF txvars, Same
<1>7. QED
  BY <1>2, <1>3, <1>4, <1>5, <1>6, TxForms DEF OwnStep

-----------------------------------------------------------------------------
(* The commits that a transaction has been compared with.                    *)
Compared(t, b) == ~Overwritten(t, begin[t] + 1, b)

LEMMA ComparedStays ==
  ASSUME Base, TxTypeOK, [TxNext]_txall, NEW t \in Event, begin'[t] = begin[t],
         NEW b, UpTo(b), Compared(t, b)
  PROVE  Compared(t, b)'
<1>1. \A n \in begin[t] + 1 .. b : n \in DOMAIN log
  <2>1. begin[t] \in Nat
    BY DEF TxTypeOK
  <2>2. \A n \in begin[t] + 1 .. b : n \in 1..b
    BY <2>1
  <2>3. QED
    BY <2>2 DEF UpTo
<1>2. \A n \in begin[t] + 1 .. b : OpsAt(n)' = OpsAt(n)
  BY <1>1, TxLogGrows, OpsStay
<1>3. QED
  BY <1>2 DEF Compared, Overwritten

LEMMA WrittenInHas ==
  ASSUME NEW a, NEW b, NEW n \in a..b \cap DOMAIN log, NEW i \in DOMAIN OpsAt(n)
  PROVE  OpsAt(n)[i].key \in WrittenIn(a, b)
<1>1. OpsAt(n)[i].key \in WriteSet(log[n][1])
  BY OpsAtIs DEF WriteSet
<1>2. QED
  BY <1>1 DEF WrittenIn

(* One more comparison, or several, that found nothing.                      *)
LEMMA ComparedFurther ==
  ASSUME TxTypeOK, NEW t \in Event, NEW a \in Nat \ {0}, NEW b \in Nat, UpTo(b),
         Compared(t, a - 1), ~Overlaps(t, WrittenIn(a, b))
  PROVE  Compared(t, b)
<1>1. ASSUME NEW n \in begin[t] + 1 .. b, NEW i \in DOMAIN OpsAt(n), OpsAt(n)[i].key \in ReadsOf[t]
      PROVE  FALSE
  <2>1. begin[t] \in Nat
    BY DEF TxTypeOK
  <2>2. n \in begin[t] + 1 .. a - 1 \/ n \in a..b
    BY <2>1
  <2>3. n \in 1..b
    BY <2>1
  <2>4. CASE n \in begin[t] + 1 .. a - 1
    BY <1>1, <2>4 DEF Compared, Overwritten
  <2>5. CASE n \in a..b
    <3>1. n \in a..b \cap DOMAIN log
      BY <2>3, <2>5 DEF UpTo
    <3>2. QED
      BY <1>1, <3>1, WrittenInHas DEF Overlaps
  <2>6. QED
    BY <2>2, <2>4, <2>5
<1>2. QED
  BY <1>1 DEF Compared, Overwritten

Scanned(t) ==
  /\ UpTo(begin[t])
  /\ txpc[t] \in Early => ~warm[t]
  /\ txpc[t] = "scan" =>
       scan[t] >= begin[t] + 1 /\ UpTo(scan[t] - 1) /\ Compared(t, scan[t] - 1)

LEMMA StepScanned ==
  ASSUME Base, TxTypeOK, Shapes, [TxNext]_txall, NEW t \in Event, Scanned(t)
  PROVE  Scanned(t)'
<1>1. TypeOK /\ DenseLog /\ begin[t] \in Nat /\ scan[t] \in Nat /\ txpc[t] \in TxPhase
      /\ DOMAIN txpc = Event /\ DOMAIN begin = Event /\ DOMAIN scan = Event /\ DOMAIN warm = Event
  BY DEF Base, IInv, TxTypeOK
<1>2. ASSUME NEW b, UpTo(b) PROVE 1..b \subseteq DOMAIN log'
  BY <1>2, TxLogGrows DEF UpTo
<1>3. ASSUME begin'[t] = begin[t], scan'[t] = scan[t], warm'[t] = warm[t],
             txpc'[t] = txpc[t] \/ txpc'[t] \notin Early
                \/ (txpc[t] \in Early /\ txpc'[t] = "validate")
      PROVE  Scanned(t)'
  <2>1. UpTo(begin[t])'
    BY <1>2, <1>3 DEF Scanned, UpTo
  <2>2. txpc'[t] \in Early => ~warm'[t]
    BY <1>3 DEF Scanned
  <2>3. ASSUME txpc'[t] = "scan"
        PROVE  scan'[t] >= begin'[t] + 1 /\ UpTo(scan[t] - 1)' /\ Compared(t, scan[t] - 1)'
    <3>1. txpc[t] = "scan"
      BY <1>3, <2>3 DEF Early
    <3>2. PICK b : b = scan[t] - 1
      OBVIOUS
    <3>3. UpTo(b) /\ Compared(t, b)
      BY <3>1, <3>2 DEF Scanned
    <3>4. Compared(t, b)' /\ 1..b \subseteq DOMAIN log'
      BY <1>2, <1>3, <3>3, ComparedStays
    <3>5. b = scan'[t] - 1
      BY <1>3, <3>2
    <3>6. UpTo(scan[t] - 1)'
      BY <3>4, <3>5 DEF UpTo
    <3>7. Compared(t, scan[t] - 1)'
      BY <3>4, <3>5 DEF Compared, Overwritten
    <3>8. QED
      BY <1>3, <3>1, <3>6, <3>7 DEF Scanned
  <2>4. QED
    BY <2>1, <2>2, <2>3 DEF Scanned
<1>4. CASE Enter(t)
  <2>1. begin'[t] = End /\ txpc'[t] = "open" /\ warm'[t] = warm[t] /\ txpc[t] = "new" /\ UNCHANGED log
    BY <1>1, <1>4, EndIs DEF Enter, Become, At, committers, vars
  <2>2. UpTo(End)
    BY <1>1, EndIs
  <2>3. PICK b : b = End
    OBVIOUS
  <2>4. UpTo(begin[t])'
    BY <2>1, <2>2, <2>3 DEF UpTo
  <2>5. QED
    BY <2>1, <2>4 DEF Scanned, Early
<1>5. CASE BeginScan(t)
  <2>1. /\ scan'[t] = begin[t] + 1 /\ txpc'[t] = "scan" /\ warm'[t] = warm[t] /\ begin'[t] = begin[t]
        /\ txpc[t] = "validate" /\ UNCHANGED log
    BY <1>1, <1>5 DEF BeginScan, Become, At, committers, vars
  <2>2. scan'[t] - 1 = begin[t] /\ begin[t] + 1 .. begin[t] = {}
    BY <1>1, <2>1
  <2>3. UpTo(scan[t] - 1)' /\ UpTo(begin[t])'
    BY <2>1, <2>2 DEF Scanned, UpTo
  <2>4. Compared(t, scan[t] - 1)'
    BY <2>1, <2>2 DEF Compared, Overwritten
  <2>5. QED
    BY <1>1, <2>1, <2>3, <2>4 DEF Scanned, Early
<1>6. CASE ScanCommit(t)
  <2>1. /\ warm'[t] = warm[t] /\ begin'[t] = begin[t] /\ txpc[t] = "scan" /\ UNCHANGED log
        /\ scan[t] \in DOMAIN log
    BY <1>6 DEF ScanCommit, At, committers, vars
  <2>2. CASE Overlaps(t, WrittenIn(scan[t], scan[t]))
    BY <1>1, <1>3, <1>6, <2>1, <2>2 DEF ScanCommit, Become, Early
  <2>3. CASE ~Overlaps(t, WrittenIn(scan[t], scan[t]))
    <3>1. scan'[t] = scan[t] + 1 /\ UNCHANGED txpc
      BY <1>1, <1>6, <2>3 DEF ScanCommit
    <3>2. PICK b : b = scan[t]
      OBVIOUS
    <3>3. b \in Nat \ {0} /\ b >= begin[t] + 1 /\ UpTo(b - 1) /\ Compared(t, b - 1) /\ b \in DOMAIN log
      BY <1>1, <2>1, <3>2 DEF Scanned
    <3>4. UpTo(b)
      <4>1. \A n \in 1..b : n \in 1..(b - 1) \/ n = b
        BY <3>3
      <4>2. QED
        BY <3>3, <4>1 DEF UpTo
    <3>5. Compared(t, b)
      BY <2>3, <3>2, <3>3, <3>4, ComparedFurther
    <3>6. Compared(t, b)' /\ 1..b \subseteq DOMAIN log'
      BY <1>2, <2>1, <3>4, <3>5, ComparedStays
    <3>7. scan'[t] - 1 = b /\ scan'[t] >= begin'[t] + 1
      BY <1>1, <2>1, <3>1, <3>2, <3>3
    <3>8. UpTo(scan[t] - 1)' /\ UpTo(begin[t])'
      BY <1>2, <2>1, <3>6, <3>7 DEF UpTo, Scanned
    <3>9. Compared(t, scan[t] - 1)'
      BY <3>6, <3>7 DEF Compared, Overwritten
    <3>10. ~warm'[t]
      BY <2>1 DEF Scanned, Early
    <3>11. QED
      BY <3>7, <3>8, <3>9, <3>10 DEF Scanned
  <2>4. QED
    BY <2>2, <2>3
<1>7. CASE AppendRecord(t)
  <2>1. begin'[t] = begin[t] /\ txpc'[t] = "append"
    BY <1>1, <1>7 DEF AppendRecord, Become
  <2>2. UpTo(begin[t])'
    BY <1>2, <2>1 DEF Scanned, UpTo
  <2>3. QED
    BY <2>1, <2>2 DEF Scanned, Early
<1>8. ASSUME \/ BeginCommit(t) \/ CommitNothing(t) \/ (\E k \in Key : Get(t, k))
             \/ (\E k \in Key : ValidateRead(t, k))
             \/ AppendReturns(t) \/ AppendFails(t) \/ CancelTransaction(t)
      PROVE  /\ begin'[t] = begin[t] /\ scan'[t] = scan[t] /\ warm'[t] = warm[t]
             /\ txpc'[t] = txpc[t] \/ txpc'[t] \notin Early
                  \/ (txpc[t] \in Early /\ txpc'[t] = "validate")
  <2>1. UNCHANGED <<begin, scan, warm>>
    BY <1>8 DEF BeginCommit, CommitNothing, Get, ValidateRead, AppendReturns, AppendFails,
                CancelTransaction
  <2>2. txpc'[t] = txpc[t] \/ txpc'[t] \notin Early \/ (txpc[t] \in Early /\ txpc'[t] = "validate")
    BY <1>1, <1>8 DEF BeginCommit, CommitNothing, Get, ValidateRead, AppendReturns, AppendFails,
                      CancelTransaction, Become, At, Early, Raised
  <2>3. QED
    BY <2>1, <2>2
<1>9. QED
  BY <1>3, <1>4, <1>5, <1>6, <1>7, <1>8, OwnForms DEF OwnStep, Same, Early

-----------------------------------------------------------------------------
(* The Committer of a manager, by what it does to its tail: it takes a       *)
(* record, ends it, tries the number after its tail, reads on from there, or *)
(* comes to its end, with its last put stored or not.                        *)
Keeps(m) == work'[m] = work[m] /\ pending'[m] = pending[m]

MayStore(m) == UNCHANGED log \/ (Absent(number[m]) /\ Store(number[m], work[m]))

Finishes(m) ==
  /\ UNCHANGED log /\ pending'[m] = pending[m] /\ work'[m] = <<>>
  /\ pc[m] \in Busy /\ pc'[m] = "waiting"

Chooses(m) ==
  /\ UNCHANGED log /\ Keeps(m) /\ pc[m] = "number" /\ pc'[m] = "put"
  /\ tail'[m] # NoTail /\ number'[m] = tail'[m] + 1 /\ (tail[m] # NoTail => tail'[m] = tail[m])

Goes(m) ==
  /\ Keeps(m) /\ tail'[m] = tail[m] /\ number'[m] = number[m]
  /\ \/ pc[m] = "put" /\ pc'[m] = "reply" /\ MayStore(m)
     \/ /\ UNCHANGED log
        /\ \/ pc[m] = "put" /\ pc'[m] = "inflight"
           \/ pc[m] = "reply" /\ pc'[m] = "advance"
           \/ pc[m] = "advance" /\ pc'[m] = "advance"

GoesBack(m) ==
  /\ UNCHANGED log /\ Keeps(m) /\ tail'[m] = tail[m] /\ pc'[m] = "number"
  /\ \/ pc[m] = "advance"
     \/ pc[m] = "revalidate" /\ ~Overlaps(work[m][1], WrittenIn(number[m], cursor[m] - 1))

Finds(m) ==
  /\ UNCHANGED log /\ Keeps(m) /\ pc[m] = "advance" /\ pc'[m] = "revalidate"
  /\ tail'[m] = cursor[m] - 1 /\ cursor'[m] = cursor[m] /\ number'[m] = number[m]
  /\ cursor[m] # number[m]

Halts(m) ==
  /\ Keeps(m) /\ pc'[m] \in Ended /\ (pc'[m] = "crashed" \/ pc[m] = "waiting")
  /\ UNCHANGED log \/ (pc[m] = "inflight" /\ MayStore(m))

Other(m) ==
  \A d \in Writer \ {m} :
    /\ pending'[d] = pending[d] /\ work'[d] = work[d] /\ pc'[d] = pc[d]
    /\ number'[d] = number[d] /\ cursor'[d] = cursor[d] /\ tail'[d] = tail[d]

LEMMA EndBatchTail ==
  ASSUME TypeOK, NEW m \in Writer, NEW outcomes, EndBatch(m, outcomes), pc[m] \in Busy,
         UNCHANGED <<log, pending>>,
         UNCHANGED tail \/ tail' = [tail EXCEPT ![m] = number[m]]
            \/ tail' = [tail EXCEPT ![m] = ReachedTail(m)]
  PROVE  Finishes(m) /\ Other(m)
BY DEF EndBatch, ClearAttempt, Finishes, Other, TypeOK

LEMMA RetryTail ==
  ASSUME TypeOK, NEW m \in Writer, NEW outcomes, RetryOrGiveUp(m, work[m], outcomes),
         UNCHANGED <<log, pending, tail>>,
         \/ pc[m] = "advance"
         \/ pc[m] = "revalidate" /\ ~Overlaps(work[m][1], WrittenIn(number[m], cursor[m] - 1))
  PROVE  (Finishes(m) \/ GoesBack(m)) /\ Other(m)
<1>1. CASE LastAttempt(m)
  BY <1>1, EndBatchTail DEF RetryOrGiveUp, Busy
<1>2. CASE ~LastAttempt(m)
  <2>1. /\ work' = [work EXCEPT ![m] = work[m]] /\ pc' = [pc EXCEPT ![m] = "number"]
        /\ number' = [number EXCEPT ![m] = 0] /\ cursor' = [cursor EXCEPT ![m] = 0]
    BY <1>2 DEF RetryOrGiveUp, ClearAttempt
  <2>2. QED
    BY <2>1 DEF GoesBack, Keeps, Other, TypeOK
<1>3. QED
  BY <1>1, <1>2

LEMMA TailForms ==
  ASSUME TypeOK, DenseLog, UpTo(History), NEW m \in Writer, Moves(m)
  PROVE  /\ Other(m)
         /\ \/ Takes(m) /\ tail'[m] = tail[m]
            \/ Finishes(m) \/ Chooses(m) \/ Goes(m) \/ GoesBack(m) \/ Finds(m) \/ Halts(m)
<1>1. CASE TakeBatch(m)
  BY <1>1 DEF TakeBatch, Takes, Alike, Other, TypeOK, futures
<1>2. CASE Stop(m) \/ Crash(m) \/ Straggle(m)
  <2>1. UNCHANGED <<pending, work, number, cursor, tail>>
    BY <1>2 DEF Stop, Crash, Straggle
  <2>2. Other(m) /\ Keeps(m)
    BY <1>2, <2>1 DEF Stop, Crash, Straggle, Other, Keeps, TypeOK
  <2>3. CASE Crash(m)
    BY <2>1, <2>2, <2>3 DEF Crash, Goes, Halts, Ended, TypeOK
  <2>4. CASE Stop(m)
    BY <2>1, <2>2, <2>4 DEF Stop, Halts, Ended, TypeOK
  <2>5. CASE Straggle(m)
    BY <2>1, <2>2, <2>5 DEF Straggle, Halts, Ended, TypeOK, MayStore
  <2>6. QED
    BY <1>2, <2>2, <2>3, <2>4, <2>5
<1>3. CASE NextNumber(m)
  <2> DEFINE known == IF tail[m] = NoTail THEN ListedTail(TailHint[m]) ELSE tail[m]
  <2>1. /\ UNCHANGED <<log, pending, work, cursor>> /\ pc[m] = "number"
        /\ tail' = [tail EXCEPT ![m] = known] /\ number' = [number EXCEPT ![m] = known + 1]
        /\ pc' = [pc EXCEPT ![m] = "put"]
    BY <1>3 DEF NextNumber
  <2>2. known # NoTail
    <3>1. TailHint[m] \in Nat
      BY ConfigAssumption
    <3>2. ListedTail(TailHint[m]) \in Nat
      BY <3>1, ListedTailIs
    <3>3. QED
      BY <3>2, EventAssumption
  <2> HIDE DEF known
  <2>3. tail[m] # NoTail => known = tail[m]
    BY DEF known
  <2>4. QED
    BY <2>1, <2>2, <2>3 DEF Chooses, Keeps, Other, TypeOK
<1>4. CASE PutReturns(m)
  <2>1. /\ pc[m] = "put" /\ pc' = [pc EXCEPT ![m] = "reply"]
        /\ UNCHANGED <<pending, work, number, cursor, tail>> /\ MayStore(m)
    BY <1>4 DEF PutReturns, PutWins, PutLoses, PutConflicts, PutFails, PutRetried, Answer, MayStore
  <2> HIDE DEF MayStore
  <2>2. QED
    BY <2>1 DEF Goes, Keeps, Other, TypeOK
<1>5. CASE HandleWon(m)
  BY <1>5, EndBatchTail DEF HandleWon, Busy
<1>6. CASE HandleError(m)
  BY <1>6, EndBatchTail DEF HandleError, Busy
<1>7. CASE UnexpectedError(m)
  BY <1>7, EndBatchTail DEF UnexpectedError, Busy
<1>8. CASE HandleLost(m)
  BY <1>8 DEF HandleLost, Goes, Keeps, Other, TypeOK
<1>9. CASE ReadCommit(m)
  BY <1>9 DEF ReadCommit, Goes, Keeps, Other, TypeOK
<1>10. CASE BackOff(m)
  BY <1>10, RetryTail DEF BackOff
<1>11. CASE Advance(m)
  <2>1. m \in Revalidating
    BY TxLogAssumption
  <2>2. /\ tail' = [tail EXCEPT ![m] = cursor[m] - 1] /\ pc' = [pc EXCEPT ![m] = "revalidate"]
        /\ UNCHANGED <<log, pending, work, number, cursor>> /\ pc[m] = "advance"
        /\ cursor[m] # number[m]
    BY <1>11, <2>1 DEF Advance, ReachedTail
  <2>3. QED
    BY <2>2 DEF Finds, Keeps, Other, TypeOK
<1>12. CASE pc[m] = "revalidate" /\ RevalidateRecord(m)
  <2>1. CASE Overlaps(work[m][1], WrittenIn(number[m], cursor[m] - 1))
    <3>1. RevalidateTo(m, <<>>) \/ RejectCancelled(m, {work[m][1]})
      BY <1>12, <2>1 DEF RevalidateRecord
    <3>2. CASE RevalidateTo(m, <<>>)
      BY <3>2, EndBatchTail DEF RevalidateTo, Busy
    <3>3. CASE RejectCancelled(m, {work[m][1]})
      BY <3>3, EndBatchTail DEF RejectCancelled, Busy
    <3>4. QED
      BY <3>1, <3>2, <3>3
  <2>2. CASE ~Overlaps(work[m][1], WrittenIn(number[m], cursor[m] - 1))
    <3>1. RevalidateTo(m, work[m])
      BY <1>12, <2>2 DEF RevalidateRecord
    <3>2. CASE work[m] = <<>>
      BY <3>1, <3>2, EndBatchTail DEF RevalidateTo, Busy
    <3>3. CASE work[m] # <<>>
      BY <2>2, <3>1, <3>3, RetryTail DEF RevalidateTo, Kept
    <3>4. QED
      BY <3>2, <3>3
  <2>3. QED
    BY <2>1, <2>2
<1>13. QED
  BY <1>1, <1>2, <1>3, <1>4, <1>5, <1>6, <1>7, <1>8, <1>9, <1>10, <1>11, <1>12 DEF Moves, ProtocolStep

-----------------------------------------------------------------------------
(* Every manager has the records of its own transactions, ...                *)
Mine(m) == \A k \in DOMAIN arrivals[m] : ManagerOf[arrivals[m][k]] = m

(* ... tries the number after its tail, ...                                  *)
Told(m) ==
  /\ pc[m] \in {"put", "inflight", "reply", "advance"} => tail[m] # NoTail /\ number[m] = tail[m] + 1
  /\ pc[m] = "revalidate" =>
       tail[m] # NoTail /\ tail[m] = cursor[m] - 1 /\ number[m] >= 1 /\ number[m] < cursor[m]

(* ... and compares a record with every commit up to there.  A record that   *)
(* was appended to an idle Committer with a tail is the first of its queue.  *)
CheckedTo(m) == IF pc[m] = "revalidate" THEN number[m] - 1 ELSE tail[m]

First(m, t) == work[m] = <<>> /\ t = pending[m][1]

Guarded(m) ==
  \A t \in HeldBy(m) : warm[t] /\ pc[m] \notin Ended =>
    /\ tail[m] # NoTail /\ Compared(t, CheckedTo(m))
    /\ t \in Range(pending[m]) => First(m, t)

Watch ==
  /\ \A m \in Writer : Mine(m) /\ Told(m) /\ Guarded(m)
  /\ \A t \in Event : Scanned(t)
  /\ NoMissedConflictWhenWarm

LEMMA AppendOne ==
  ASSUME NEW s \in Seq(Event), NEW t \in Event
  PROVE  /\ Range(s \o <<t>>) = Range(s) \cup {t}
         /\ s # <<>> => (s \o <<t>>)[1] = s[1]
         /\ s = <<>> => (s \o <<t>>)[1] = t
<1>1. PICK u \in Seq(Event) : u = <<t>>
  <2>1. <<t>> \in Seq(Event)
    OBVIOUS
  <2>2. QED
    BY <2>1
<1>2. PICK v : v = s \o u
  OBVIOUS
<1>3. Len(u) = 1 /\ u[1] = t
  BY <1>1
<1>4. /\ Len(s) \in Nat /\ DOMAIN s = 1..Len(s) /\ DOMAIN v = 1..(Len(s) + 1)
      /\ \A i \in 1..Len(s) : v[i] = s[i]
      /\ v[Len(s) + 1] = t
  <2>1. /\ Len(s) \in Nat /\ DOMAIN s = 1..Len(s) /\ DOMAIN v = 1..(Len(s) + Len(u))
        /\ \A i \in 1..Len(s) : v[i] = s[i]
        /\ \A i \in 1..Len(u) : v[Len(s) + i] = u[i]
    BY <1>2, ConcatFacts
  <2>2. QED
    BY <1>3, <2>1
<1> DEFINE n == Len(s)
<1>5. n \in Nat /\ DOMAIN s = 1..n /\ DOMAIN v = 1..(n + 1) /\ v[n + 1] = t
      /\ \A i \in 1..n : v[i] = s[i]
  BY <1>4
<1>6. s = <<>> <=> n = 0
  BY EmptySeq
<1> HIDE DEF n
<1>7. Range(v) = Range(s) \cup {t}
  <2>1. \A i \in 1..(n + 1) : i \in 1..n \/ i = n + 1
    BY <1>5
  <2>2. \A i \in 1..n : i \in 1..(n + 1)
    BY <1>5
  <2>3. n + 1 \in 1..(n + 1)
    BY <1>5
  <2>4. QED
    BY <1>5, <2>1, <2>2, <2>3 DEF Range
<1>8. (s # <<>> => v[1] = s[1]) /\ (s = <<>> => v[1] = t)
  <2>1. CASE n = 0
    BY <1>5, <1>6, <2>1
  <2>2. CASE n # 0
    <3>1. 1 \in 1..n
      BY <1>5, <2>2
    <3>2. QED
      BY <1>5, <1>6, <2>2, <3>1
  <2>3. QED
    BY <2>1, <2>2
<1>9. QED
  BY <1>1, <1>2, <1>7, <1>8

LEMMA HeldMine ==
  ASSUME TypeOK, Places, NEW m \in Writer, Mine(m), NEW t \in HeldBy(m)
  PROVE  t \in Event /\ ManagerOf[t] = m /\ status[t] # "new"
<1>1. PICK k \in DOMAIN arrivals[m] : t = arrivals[m][k]
  <2>1. CASE t \in Range(pending[m])
    <3>1. PICK i \in 1..Len(pending[m]) : t = pending[m][i]
      BY <2>1, WorkTypes DEF Range
    <3>2. QED
      BY <3>1, TakenFacts
  <2>2. CASE t \in Range(work[m])
    <3>1. PICK i \in 1..Len(work[m]) : t = work[m][i]
      BY <2>2, WorkTypes DEF Range
    <3>2. PICK f \in [1..Len(work[m]) -> 1..Taken(m)] :
            \A x \in 1..Len(work[m]) : f[x] \in DOMAIN arrivals[m] /\ work[m][x] = arrivals[m][f[x]]
      BY BatchOrigin
    <3>3. f[i] \in DOMAIN arrivals[m] /\ t = arrivals[m][f[i]]
      BY <3>1, <3>2
    <3>4. QED
      BY <3>3
  <2>3. QED
    BY <2>1, <2>2 DEF HeldBy
<1>2. t \in Event
  BY <1>1, WorkTypes, ElementOfSeq
<1>3. QED
  BY <1>1, <1>2 DEF Mine, Places, Submitted

(* Nothing of a Committer changes but by its own steps and its appends.      *)
LEMMA QueueForms ==
  ASSUME Base, [TxNext]_txall, NEW m \in Writer
  PROVE  \/ Moves(m) /\ UNCHANGED txvars
         \/ \E t \in Event : AppendRecord(t) /\ ManagerOf[t] = m
         \/ /\ pending'[m] = pending[m] /\ work'[m] = work[m] /\ pc'[m] = pc[m]
            /\ number'[m] = number[m] /\ cursor'[m] = cursor[m] /\ tail'[m] = tail[m]
            /\ arrivals'[m] = arrivals[m]
<1>1. TypeOK /\ Places /\ DenseLog /\ UpTo(History)
  BY DEF Base, IInv
<1>2. ASSUME NEW d \in Writer, d # m, Moves(d)
      PROVE  /\ pending'[m] = pending[m] /\ work'[m] = work[m] /\ pc'[m] = pc[m]
             /\ number'[m] = number[m] /\ cursor'[m] = cursor[m] /\ tail'[m] = tail[m]
             /\ arrivals'[m] = arrivals[m]
  <2>1. Other(d)
    BY <1>1, <1>2, TailForms
  <2>2. Alike(d)
    BY <1>1, <1>2, MoveForms DEF Takes, Proceeds, Stores, Ends, Retries
  <2>3. QED
    BY <1>2, <2>1, <2>2 DEF Other, Alike
<1>3. ASSUME NEW t \in Event, AppendRecord(t), ManagerOf[t] # m
      PROVE  /\ pending'[m] = pending[m] /\ work'[m] = work[m] /\ pc'[m] = pc[m]
             /\ number'[m] = number[m] /\ cursor'[m] = cursor[m] /\ tail'[m] = tail[m]
             /\ arrivals'[m] = arrivals[m]
  <2>1. AppendMany(ManagerOf[t], t) /\ ManagerOf[t] \in Writer
    BY <1>3, OwnRecord DEF AppendRecord
  <2>2. QED
    BY <1>1, <1>3, <2>1 DEF AppendMany, TypeOK
<1>4. ASSUME NEW t \in Event, CancelTransaction(t)
      PROVE  /\ pending'[m] = pending[m] /\ work'[m] = work[m] /\ pc'[m] = pc[m]
             /\ number'[m] = number[m] /\ cursor'[m] = cursor[m] /\ tail'[m] = tail[m]
             /\ arrivals'[m] = arrivals[m]
  <2>1. CancelAppend(t) \/ UNCHANGED committers
    BY <1>4 DEF CancelTransaction
  <2>2. QED
    BY <2>1 DEF CancelAppend, committers, vars, flusher
<1>5. UNCHANGED committers =>
        /\ pending'[m] = pending[m] /\ work'[m] = work[m] /\ pc'[m] = pc[m]
        /\ number'[m] = number[m] /\ cursor'[m] = cursor[m] /\ tail'[m] = tail[m]
        /\ arrivals'[m] = arrivals[m]
  BY DEF committers, vars, flusher
<1>6. QED
  BY <1>2, <1>3, <1>4, <1>5, TxForms

LEMMA AppendedOne ==
  ASSUME Base, NEW t \in Event, AppendRecord(t), NEW m, m = ManagerOf[t]
  PROVE  /\ m \in Writer /\ pc[m] \notin Ended \cup {"inflight"} /\ status[t] = "new"
         /\ pc'[m] = (IF pc[m] = "unstarted" THEN "waiting" ELSE pc[m])
         /\ work'[m] = work[m] /\ number'[m] = number[m] /\ cursor'[m] = cursor[m]
         /\ tail'[m] = tail[m] /\ UNCHANGED log
         /\ pending'[m] = pending[m] \o <<t>> /\ arrivals'[m] = arrivals[m] \o <<t>>
<1>1. m \in Writer /\ EventsOf[t] = <<t>> /\ Range(EventsOf[t]) = {t}
  BY OwnRecord
<1>2. AppendMany(m, t) /\ TypeOK
  BY DEF AppendRecord, Base, IInv
<1>3. /\ pending' = [pending EXCEPT ![m] = @ \o <<t>>]
      /\ arrivals' = [arrivals EXCEPT ![m] = @ \o <<t>>]
      /\ pc' = [pc EXCEPT ![m] = IF @ = "unstarted" THEN "waiting" ELSE @]
      /\ pc[m] \notin Ended \cup {"inflight"} /\ status[t] = "new"
      /\ UNCHANGED <<log, work, number, cursor, tail>>
  BY <1>1, <1>2 DEF AppendMany
<1>4. QED
  BY <1>1, <1>2, <1>3 DEF TypeOK

LEMMA StepMine ==
  ASSUME Base, [TxNext]_txall, NEW m \in Writer, Mine(m)
  PROVE  Mine(m)'
<1>1. TypeOK /\ Places
  BY DEF Base, IInv
<1>2. CASE arrivals'[m] = arrivals[m]
  BY <1>2 DEF Mine
<1>3. ASSUME NEW t \in Event, AppendRecord(t), ManagerOf[t] = m PROVE Mine(m)'
  <2>1. arrivals'[m] = arrivals[m] \o <<t>>
    BY <1>3, AppendedOne
  <2>2. Range(arrivals'[m]) = Range(arrivals[m]) \cup {t}
    BY <1>1, <2>1, AppendOne, WorkTypes
  <2>3. \A e \in Range(arrivals[m]) : ManagerOf[e] = m
    BY DEF Mine, Range
  <2>4. QED
    BY <1>3, <2>2, <2>3 DEF Mine, Range
<1>4. CASE Moves(m)
  <2>1. arrivals'[m] = arrivals[m]
    BY <1>1, <1>4, MoveForms DEF Takes, Proceeds, Stores, Ends, Retries
  <2>2. QED
    BY <1>2, <2>1
<1>5. QED
  BY <1>2, <1>3, <1>4, QueueForms

LEMMA StepTold ==
  ASSUME Base, [TxNext]_txall, NEW m \in Writer, Told(m)
  PROVE  Told(m)'
<1>1. TypeOK /\ DenseLog /\ UpTo(History) /\ KnownTo(m)
  BY DEF Base, IInv, KnownPrefix
<1>2. number[m] \in Nat /\ cursor[m] \in Nat
  BY <1>1 DEF TypeOK
<1>3. CASE Moves(m)
  <2>1. CASE Finds(m)
    <3>1. /\ tail'[m] = cursor'[m] - 1 /\ cursor'[m] = cursor[m] /\ number'[m] = number[m]
          /\ pc'[m] = "revalidate" /\ number[m] <= cursor[m] /\ number[m] # cursor[m] /\ number[m] >= 1
      BY <1>1, <2>1 DEF Finds, KnownTo
    <3>2. tail'[m] \in Int /\ number'[m] < cursor'[m]
      BY <1>2, <3>1
    <3>3. QED
      BY <3>1, <3>2, EventAssumption DEF Told
  <2>2. CASE ~Finds(m)
    BY <1>1, <1>3, <2>2, TailForms DEF Takes, Finishes, Chooses, Goes, GoesBack, Halts, Told, Ended
  <2>3. QED
    BY <2>1, <2>2
<1>4. ASSUME NEW t \in Event, AppendRecord(t), ManagerOf[t] = m PROVE Told(m)'
  <2>1. /\ pc'[m] = (IF pc[m] = "unstarted" THEN "waiting" ELSE pc[m])
        /\ number'[m] = number[m] /\ cursor'[m] = cursor[m] /\ tail'[m] = tail[m]
    BY <1>4, AppendedOne
  <2>2. QED
    BY <2>1 DEF Told
<1>5. QED
  BY <1>3, <1>4, QueueForms DEF Told

LEMMA WarmStays ==
  ASSUME TxTypeOK, Shapes, [TxNext]_txall, NEW t \in Event, Scanned(t), warm'[t], ~AppendRecord(t)
  PROVE  warm[t] /\ begin'[t] = begin[t]
<1>1. warm'[t] = warm[t]
  <2>1. OwnStep(t) => UNCHANGED warm
    BY DEF OwnStep, Enter, BeginCommit, CommitNothing, Get, ValidateRead, BeginScan, ScanCommit,
           AppendReturns, AppendFails, CancelTransaction
  <2>2. QED
    BY <2>1, OwnForms DEF Same
<1>2. ~Enter(t)
  BY <1>1 DEF Enter, At, Scanned, Early
<1>3. OwnStep(t) => UNCHANGED begin
  BY <1>2 DEF OwnStep, BeginCommit, CommitNothing, Get, ValidateRead, BeginScan, ScanCommit,
         AppendReturns, AppendFails, CancelTransaction
<1>4. QED
  BY <1>1, <1>3, OwnForms DEF Same

(* What a Committer has compared its record with is in the log.              *)
LEMMA CheckedInLog ==
  ASSUME TypeOK, KnownPrefix, NEW m \in Writer, Told(m), tail[m] # NoTail
  PROVE  UpTo(CheckedTo(m)) /\ UpTo(tail[m])
<1>1. UpTo(tail[m])
  BY DEF KnownPrefix, KnownTo
<1>2. CASE pc[m] = "revalidate"
  <2>1. tail[m] = cursor[m] - 1 /\ number[m] < cursor[m] /\ number[m] \in Nat /\ cursor[m] \in Nat
    BY <1>2 DEF Told, TypeOK
  <2>2. 1..(number[m] - 1) \subseteq 1..(cursor[m] - 1)
    BY <2>1
  <2>3. QED
    BY <1>1, <1>2, <2>1, <2>2 DEF UpTo, CheckedTo
<1>3. QED
  BY <1>1, <1>2 DEF CheckedTo

LEMMA NothingHeld ==
  ASSUME TypeOK, Places, NEW m \in Writer, HeldBy(m) = {}
  PROVE  pending[m] = <<>> /\ work[m] = <<>> /\ pc[m] \notin Busy
<1>1. DOMAIN pending[m] = {} /\ DOMAIN work[m] = {}
  BY DEF HeldBy, Range
<1>2. pending[m] = <<>> /\ work[m] = <<>>
  <2>1. Len(pending[m]) \in Nat /\ Len(work[m]) \in Nat
        /\ DOMAIN pending[m] = 1..Len(pending[m]) /\ DOMAIN work[m] = 1..Len(work[m])
    BY WorkTypes
  <2>2. \A n \in Nat : 1..n = {} => n = 0
    OBVIOUS
  <2>3. Len(pending[m]) = 0 /\ Len(work[m]) = 0
    BY <1>1, <2>1, <2>2
  <2>4. QED
    BY <2>3, WorkTypes, EmptySeq
<1>3. QED
  BY <1>2 DEF Places, Staged

(* One step of a warm record in the hands of its Committer.                  *)
LEMMA GuardedStays ==
  ASSUME Base, TxTypeOK, [TxNext]_txall, NEW m \in Writer, Told(m), NEW t \in Event,
         begin'[t] = begin[t], tail[m] # NoTail, Compared(t, CheckedTo(m)),
         tail'[m] = tail[m], CheckedTo(m)' = CheckedTo(m)
  PROVE  Compared(t, CheckedTo(m))'
<1>1. PICK b : b = CheckedTo(m)
  OBVIOUS
<1>2. UpTo(b) /\ Compared(t, b)
  BY <1>1, CheckedInLog DEF Base, IInv
<1>3. Compared(t, b)'
  BY <1>2, ComparedStays
<1>4. CheckedTo(m)' = b
  BY <1>1
<1>5. QED
  BY <1>3, <1>4 DEF Compared, Overwritten

LEMMA MovesGuarded ==
  ASSUME Base, Base', TxTypeOK, [TxNext]_txall, NEW m \in Writer, Mine(m), Told(m), Guarded(m),
         Moves(m), UNCHANGED txvars
  PROVE  Guarded(m)'
<1>1. TypeOK /\ DenseLog /\ UpTo(History) /\ KnownTo(m) /\ Places /\ Staged(m) /\ TypeOK' /\ Places'
  BY DEF Base, IInv, KnownPrefix, Places
<1>2. warm' = warm /\ begin' = begin
  BY DEF txvars
<1>3. SUFFICES ASSUME NEW t \in HeldBy(m)', warm[t], pc'[m] \notin Ended
               PROVE  /\ tail'[m] # NoTail /\ Compared(t, CheckedTo(m))'
                      /\ t \in Range(pending'[m]) => First(m, t)'
  BY <1>2 DEF Guarded
<1>4. /\ number[m] \in Nat /\ cursor[m] \in Nat
      /\ pc[m] \in Busy => work[m] # <<>>
      /\ pc[m] = "waiting" => work[m] = <<>>
  BY <1>1 DEF TypeOK, Staged
<1>5. ASSUME Keeps(m)
      PROVE  /\ t \in HeldBy(m) /\ t \in Event
             /\ First(m, t)' <=> First(m, t)
             /\ t \in Range(pending'[m]) <=> t \in Range(pending[m])
  <2>1. t \in HeldBy(m)
    BY <1>3, <1>5 DEF Keeps, HeldBy
  <2>2. QED
    BY <1>1, <1>5, <2>1, HeldMine DEF Keeps, First
<1>6. ASSUME Keeps(m), pc[m] \notin Ended, tail[m] # NoTail => tail'[m] = tail[m],
             CheckedTo(m)' = CheckedTo(m) \/ tail[m] = NoTail
      PROVE  /\ tail'[m] # NoTail /\ Compared(t, CheckedTo(m))'
             /\ t \in Range(pending'[m]) => First(m, t)'
  <2>1. /\ tail[m] # NoTail /\ Compared(t, CheckedTo(m)) /\ t \in Event
        /\ t \in Range(pending[m]) => First(m, t)
    BY <1>3, <1>5, <1>6 DEF Guarded
  <2>2. Compared(t, CheckedTo(m))'
    BY <1>2, <1>6, <2>1, GuardedStays
  <2>3. QED
    BY <1>5, <1>6, <2>1, <2>2
<1>7. CASE Takes(m) /\ tail'[m] = tail[m]
  <2>1. /\ pc[m] = "waiting" /\ pc'[m] = "number" /\ pending[m] # <<>>
        /\ work'[m] = BatchOf(pending[m]) /\ pending'[m] = Rest(pending[m])
    BY <1>7 DEF Takes
  <2>2. PICK q \in Seq(Event) : q = pending[m] /\ q # <<>>
    BY <1>1, <2>1, WorkTypes
  <2>3. PICK size \in 1..Len(q) :
          /\ Len(q) \in Nat
          /\ Len(work'[m]) = size /\ Len(pending'[m]) = Len(q) - size
          /\ \A i \in 1..size : work'[m][i] = q[i]
          /\ \A i \in 1..(Len(q) - size) : pending'[m][i] = q[size + i]
    <3>1. \E size \in 1..Len(q) :
            /\ Len(q) \in Nat /\ size <= MaxEvents
            /\ Len(BatchOf(q)) = size /\ Len(Rest(q)) = Len(q) - size
            /\ \A i \in 1..size : BatchOf(q)[i] = q[i]
            /\ \A i \in 1..(Len(q) - size) : Rest(q)[i] = q[size + i]
      BY <2>2, BatchFacts
    <3>2. work'[m] = BatchOf(q) /\ pending'[m] = Rest(q)
      BY <2>1, <2>2
    <3>3. QED
      BY <3>1, <3>2
  <2>4. DOMAIN work'[m] = 1..Len(work'[m]) /\ DOMAIN pending'[m] = 1..Len(pending'[m])
        /\ DOMAIN q = 1..Len(q) /\ 1 \in 1..size
    BY <1>1, <2>2, <2>3, LenProperties DEF TypeOK
  <2>5. q[1] \in Range(work'[m])
    <3>1. 1 \in DOMAIN work'[m] /\ work'[m][1] = q[1]
      BY <2>3, <2>4
    <3>2. QED
      BY <3>1 DEF Range
  <2>6. t \in Range(q)
    <3>1. Range(work'[m]) \subseteq Range(q)
      <4>1. \A i \in 1..size : i \in 1..Len(q)
        BY <2>3
      <4>2. DOMAIN work'[m] = 1..size
        BY <2>3, <2>4
      <4>3. QED
        BY <2>3, <2>4, <4>1, <4>2 DEF Range
    <3>2. Range(pending'[m]) \subseteq Range(q)
      <4> DEFINE l == Len(q)
      <4>1. \A i \in 1..(l - size) : size + i \in 1..l
        BY <2>3
      <4>2. DOMAIN pending'[m] = 1..(l - size) /\ DOMAIN q = 1..l
            /\ \A i \in 1..(l - size) : pending'[m][i] = q[size + i]
        BY <2>3, <2>4
      <4> HIDE DEF l
      <4>3. QED
        BY <4>1, <4>2 DEF Range
    <3>3. QED
      BY <1>3, <3>1, <3>2 DEF HeldBy
  <2>7. t \in HeldBy(m) /\ t \in Range(pending[m]) /\ pc[m] \notin Ended
    BY <2>1, <2>2, <2>6 DEF HeldBy, Ended
  <2>8. tail[m] # NoTail /\ Compared(t, CheckedTo(m)) /\ First(m, t) /\ t \in Event
    BY <1>1, <1>3, <2>7, HeldMine DEF Guarded
  <2>9. t = q[1]
    BY <2>2, <2>8 DEF First
  <2>10. t \notin Range(pending'[m])
    <3> DEFINE l == Len(q)
    <3>1. ASSUME NEW i \in 1..(l - size), q[size + i] = q[1] PROVE FALSE
      <4>1. size + i \in 1..l /\ 1 \in 1..l /\ size + i # 1 /\ l \in Nat
        BY <2>3
      <4>2. /\ Taken(m) \in Nat
            /\ \A x \in 1..l : Taken(m) + x \in DOMAIN arrivals[m] /\ q[x] = arrivals[m][Taken(m) + x]
        BY <1>1, <2>2, TakenFacts
      <4>3. Taken(m) + (size + i) = Taken(m) + 1
        BY <1>1, <3>1, <4>1, <4>2 DEF Places, Once
      <4>4. QED
        BY <4>1, <4>2, <4>3
    <3>2. DOMAIN pending'[m] = 1..(l - size) /\ \A i \in 1..(l - size) : pending'[m][i] = q[size + i]
      BY <2>3, <2>4
    <3> HIDE DEF l
    <3>3. QED
      BY <2>9, <3>1, <3>2 DEF Range
  <2>11. CheckedTo(m)' = CheckedTo(m)
    BY <1>7, <2>1 DEF CheckedTo
  <2>12. Compared(t, CheckedTo(m))'
    BY <1>2, <1>7, <2>8, <2>11, GuardedStays
  <2>13. QED
    BY <1>7, <2>8, <2>10, <2>12
<1>8. CASE Finishes(m)
  <2>1. t \in Range(pending[m]) /\ pc[m] \in Busy
    BY <1>3, <1>8 DEF Finishes, HeldBy, Range
  <2>2. First(m, t)
    BY <1>3, <2>1 DEF Guarded, HeldBy, Busy, Ended
  <2>3. QED
    BY <1>4, <2>1, <2>2 DEF First
<1>9. CASE Chooses(m)
  BY <1>6, <1>9 DEF Chooses, CheckedTo, Ended
<1>10. CASE Goes(m)
  BY <1>6, <1>10 DEF Goes, CheckedTo, Ended
<1>11. CASE Finds(m)
  <2>1. /\ Keeps(m) /\ pc[m] = "advance" /\ pc'[m] = "revalidate"
        /\ number'[m] = number[m] /\ tail'[m] = cursor[m] - 1
    BY <1>11 DEF Finds
  <2>2. tail[m] # NoTail /\ Compared(t, CheckedTo(m)) /\ t \in Event
        /\ (t \in Range(pending[m]) => First(m, t))
    BY <1>3, <1>5, <2>1 DEF Guarded, Ended
  <2>3. number[m] = tail[m] + 1 /\ tail[m] \in Nat
    BY <1>1, <2>1, <2>2 DEF Told, TypeOK
  <2>4. CheckedTo(m)' = tail[m] /\ CheckedTo(m) = tail[m]
    BY <2>1, <2>3 DEF CheckedTo
  <2>5. PICK b : b = tail[m]
    OBVIOUS
  <2>6. UpTo(b) /\ Compared(t, b)
    BY <1>1, <2>2, <2>4, <2>5 DEF KnownTo
  <2>7. Compared(t, b)'
    BY <1>2, <2>2, <2>6, ComparedStays
  <2>8. Compared(t, CheckedTo(m))'
    BY <2>4, <2>5, <2>7 DEF Compared, Overwritten
  <2>9. tail'[m] \in Int
    BY <1>4, <2>1
  <2>10. QED
    BY <1>5, <2>1, <2>2, <2>8, <2>9, EventAssumption
<1>12. CASE GoesBack(m) /\ pc[m] = "advance"
  BY <1>6, <1>12 DEF GoesBack, CheckedTo, Ended
<1>13. CASE GoesBack(m) /\ pc[m] = "revalidate"
  <2>1. /\ Keeps(m) /\ tail'[m] = tail[m] /\ pc'[m] = "number" /\ UNCHANGED log
        /\ ~Overlaps(work[m][1], WrittenIn(number[m], cursor[m] - 1))
    BY <1>13 DEF GoesBack
  <2>2. tail[m] # NoTail /\ Compared(t, CheckedTo(m)) /\ t \in Event /\ t \in HeldBy(m)
        /\ (t \in Range(pending[m]) => First(m, t))
    BY <1>3, <1>5, <1>13, <2>1 DEF Guarded, Ended
  <2>3. work[m] # <<>> /\ pc[m] \in Busy
    BY <1>4, <1>13 DEF Busy
  <2>4. t \notin Range(pending[m])
    BY <2>2, <2>3 DEF First
  <2>5. t = work[m][1]
    <3>1. t \in Range(work[m])
      BY <2>2, <2>4 DEF HeldBy
    <3>2. QED
      BY <1>1, <2>3, <3>1, FirstOfWork
  <2>6. /\ tail[m] = cursor[m] - 1 /\ number[m] >= 1 /\ number[m] < cursor[m]
        /\ UpTo(tail[m]) /\ CheckedTo(m) = number[m] - 1
    BY <1>1, <1>13, <2>2 DEF Told, KnownTo, CheckedTo
  <2>7. PICK a, b : a = number[m] /\ b = cursor[m] - 1
    OBVIOUS
  <2>8. /\ a \in Nat \ {0} /\ b \in Nat /\ UpTo(b) /\ Compared(t, a - 1)
        /\ ~Overlaps(t, WrittenIn(a, b))
    <3>1. a \in Nat \ {0} /\ b \in Nat
      BY <1>4, <2>6, <2>7
    <3>2. QED
      BY <2>1, <2>2, <2>5, <2>6, <2>7, <3>1
  <2>9. Compared(t, b)
    BY <2>2, <2>8, ComparedFurther
  <2>10. Compared(t, b)'
    BY <1>2, <2>2, <2>8, <2>9, ComparedStays
  <2>11. CheckedTo(m)' = b
    BY <2>1, <2>6, <2>7 DEF CheckedTo
  <2>12. Compared(t, CheckedTo(m))'
    BY <2>10, <2>11 DEF Compared, Overwritten
  <2>13. QED
    BY <1>5, <2>1, <2>2, <2>4, <2>12
<1>14. CASE Halts(m)
  BY <1>3, <1>14 DEF Halts
<1>15. QED
  BY <1>1, <1>7, <1>8, <1>9, <1>10, <1>11, <1>12, <1>13, <1>14, TailForms DEF GoesBack

LEMMA JoinsGuarded ==
  ASSUME Base, TxTypeOK, [TxNext]_txall, NEW m \in Writer, Mine(m), Told(m), Guarded(m),
         NEW u \in Event, AppendRecord(u), ManagerOf[u] = m, Scanned(u)
  PROVE  Guarded(m)'
<1>1. TypeOK /\ DenseLog /\ KnownTo(m) /\ Places
  BY DEF Base, IInv, KnownPrefix
<1>2. /\ pc[m] \notin Ended /\ pc'[m] = (IF pc[m] = "unstarted" THEN "waiting" ELSE pc[m])
      /\ work'[m] = work[m] /\ number'[m] = number[m] /\ tail'[m] = tail[m] /\ UNCHANGED log
      /\ pending'[m] = pending[m] \o <<u>>
  BY <1>1, AppendedOne
<1>3. /\ begin' = begin /\ At(u, "scan") /\ scan[u] \notin DOMAIN log
      /\ \A t \in Event \ {u} : warm'[t] = warm[t]
      /\ warm'[u] => tail[m] # NoTail /\ HeldBy(m) = {}
  BY DEF AppendRecord, TxTypeOK
<1>4. CheckedTo(m)' = CheckedTo(m)
  BY <1>2 DEF CheckedTo
<1>5. pending[m] \in Seq(Event)
  BY <1>1, WorkTypes
<1>6. PICK q \in Seq(Event) : q = pending[m]
  BY <1>5
<1>7. /\ Range(pending'[m]) = Range(pending[m]) \cup {u}
      /\ pending[m] # <<>> => pending'[m][1] = pending[m][1]
      /\ pending[m] = <<>> => pending'[m][1] = u
  BY <1>2, <1>6, AppendOne
<1>8. SUFFICES ASSUME NEW t \in HeldBy(m)', warm'[t]
               PROVE  /\ tail'[m] # NoTail /\ Compared(t, CheckedTo(m))'
                      /\ t \in Range(pending'[m]) => First(m, t)'
  BY DEF Guarded
<1>9. CASE t = u
  <2>1. tail[m] # NoTail /\ pending[m] = <<>> /\ work[m] = <<>> /\ pc[m] \notin Busy
    BY <1>1, <1>3, <1>8, <1>9, NothingHeld
  <2>2. PICK s : s = scan[u] - 1
    OBVIOUS
  <2>3. UpTo(s) /\ Compared(u, s) /\ scan[u] \in Nat /\ scan[u] >= begin[u] + 1 /\ begin[u] \in Nat
    BY <1>3, <2>2 DEF Scanned, At, TxTypeOK
  <2>4. UpTo(tail[m]) /\ tail[m] \in Nat
    BY <1>1, <2>1 DEF KnownTo, TypeOK
  <2>5. tail[m] <= s
    <3>1. ~(scan[u] \in 1..tail[m])
      BY <1>3, <2>4 DEF UpTo
    <3>2. scan[u] >= 1
      BY <2>3
    <3>3. QED
      BY <2>2, <2>3, <2>4, <3>1, <3>2
  <2>6. PICK b : b = tail[m]
    OBVIOUS
  <2>7. Compared(u, b)
    <3>1. \A n \in begin[u] + 1 .. b : n \in begin[u] + 1 .. s
      BY <2>2, <2>3, <2>4, <2>5, <2>6
    <3>2. QED
      BY <2>3, <3>1 DEF Compared, Overwritten
  <2>8. Compared(u, b)'
    BY <1>3, <2>4, <2>6, <2>7, ComparedStays
  <2>9. CheckedTo(m)' = b
    BY <1>4, <2>1, <2>6 DEF CheckedTo, Busy
  <2>10. Compared(u, CheckedTo(m))'
    BY <2>8, <2>9 DEF Compared, Overwritten
  <2>11. First(m, u)'
    BY <1>2, <1>7, <2>1 DEF First
  <2>12. QED
    BY <1>2, <1>9, <2>1, <2>10, <2>11
<1>10. CASE t # u
  <2>1. t \in HeldBy(m)
    BY <1>2, <1>7, <1>8, <1>10 DEF HeldBy
  <2>2. t \in Event /\ warm[t]
    BY <1>1, <1>3, <1>8, <1>10, <2>1, HeldMine
  <2>3. /\ tail[m] # NoTail /\ Compared(t, CheckedTo(m))
        /\ t \in Range(pending[m]) => First(m, t)
    BY <1>2, <2>1, <2>2 DEF Guarded
  <2>4. Compared(t, CheckedTo(m))'
    BY <1>2, <1>3, <1>4, <2>2, <2>3, GuardedStays
  <2>5. ASSUME t \in Range(pending'[m]) PROVE First(m, t)'
    <3>1. t \in Range(pending[m])
      BY <1>7, <1>10, <2>5
    <3>2. work[m] = <<>> /\ t = pending[m][1] /\ pending[m] # <<>>
      BY <2>3, <3>1 DEF First, Range
    <3>3. QED
      BY <1>2, <1>7, <3>2 DEF First
  <2>6. QED
    BY <1>2, <2>3, <2>4, <2>5
<1>11. QED
  BY <1>9, <1>10

LEMMA StepGuarded ==
  ASSUME Base, Base', TxTypeOK, Shapes, [TxNext]_txall, Watch, NEW m \in Writer
  PROVE  Guarded(m)'
<1>1. TypeOK /\ Places /\ Mine(m) /\ Told(m) /\ Guarded(m) /\ \A t \in Event : Scanned(t)
  BY DEF Base, IInv, Watch
<1>2. CASE Moves(m) /\ UNCHANGED txvars
  BY <1>1, <1>2, MovesGuarded
<1>3. CASE \E u \in Event : AppendRecord(u) /\ ManagerOf[u] = m
  BY <1>1, <1>3, JoinsGuarded
<1>4. CASE /\ ~\E u \in Event : AppendRecord(u) /\ ManagerOf[u] = m
           /\ pending'[m] = pending[m] /\ work'[m] = work[m] /\ pc'[m] = pc[m]
           /\ number'[m] = number[m] /\ tail'[m] = tail[m]
  <2>1. SUFFICES ASSUME NEW t \in HeldBy(m)', warm'[t], pc'[m] \notin Ended
                 PROVE  /\ tail'[m] # NoTail /\ Compared(t, CheckedTo(m))'
                        /\ t \in Range(pending'[m]) => First(m, t)'
    BY DEF Guarded
  <2>2. t \in HeldBy(m)
    BY <1>4, <2>1 DEF HeldBy
  <2>3. t \in Event /\ ~AppendRecord(t)
    BY <1>1, <1>4, <2>2, HeldMine
  <2>4. warm[t] /\ begin'[t] = begin[t]
    BY <1>1, <2>1, <2>3, WarmStays
  <2>5. /\ tail[m] # NoTail /\ Compared(t, CheckedTo(m))
        /\ t \in Range(pending[m]) => First(m, t)
    BY <1>1, <1>4, <2>1, <2>2, <2>4 DEF Guarded
  <2>6. CheckedTo(m)' = CheckedTo(m)
    BY <1>4 DEF CheckedTo
  <2>7. Compared(t, CheckedTo(m))'
    BY <1>1, <1>4, <2>3, <2>4, <2>5, <2>6, GuardedStays
  <2>8. QED
    BY <1>4, <2>5, <2>7 DEF First
<1>5. QED
  BY <1>2, <1>3, <1>4, QueueForms

LEMMA CommitCompared ==
  ASSUME Base, TxTypeOK, Shapes, [TxNext]_txall, Watch,
         NEW n \in DOMAIN log', NEW t \in Event, Range(log'[n]) = {t}, warm'[t]
  PROVE  /\ warm[t] /\ begin'[t] = begin[t]
         /\ UpTo(n - 1) /\ Compared(t, n - 1)
<1>1. TypeOK /\ Places /\ DenseLog /\ KnownPrefix /\ Recorded /\ \A u \in Event : Scanned(u)
  BY DEF Base, IInv, Watch
<1>2. Range(log'[n]) = {t} /\ warm'[t]
  OBVIOUS
<1>3. UpTo(n - 1)
  <2>1. PICK k \in Nat : DOMAIN log = 1..k
    BY <1>1, DenseRange
  <2>2. CASE n \in DOMAIN log
    BY <2>1, <2>2 DEF UpTo
  <2>3. CASE n \notin DOMAIN log
    <3>1. ~UNCHANGED log
      BY <1>2, <2>3
    <3>2. PICK c \in Writer : pc[c] \in {"put", "inflight"} /\ Store(number[c], work[c])
      BY <1>1, <3>1, TxStepIsStep, LogSteps
    <3>3. n = number[c]
      BY <1>2, <2>3, <3>2 DEF Store
    <3>4. QED
      BY <1>1, <3>2, <3>3 DEF KnownPrefix, KnownTo
  <2>4. QED
    BY <2>2, <2>3
<1>4. ~AppendRecord(t) /\ Compared(t, n - 1)
  <2>1. CASE n \in DOMAIN log
    <3>1. log'[n] = log[n]
      BY <1>1, <2>1, TxLogGrows
    <3>2. Committed(t)
      BY <1>2, <2>1, <3>1 DEF Committed
    <3>3. ~AppendRecord(t)
      <4>1. status[t] # "new"
        BY <1>1, <3>2, NewNotCommitted
      <4>2. QED
        BY <4>1, AppendedOne
    <3>4. warm[t]
      BY <1>1, <1>2, <3>3, WarmStays
    <3>5. QED
      BY <1>2, <2>1, <3>1, <3>3, <3>4 DEF Watch, NoMissedConflictWhenWarm, Compared
  <2>2. CASE n \notin DOMAIN log
    <3>1. ~UNCHANGED log
      BY <1>2, <2>2
    <3>2. PICK c \in Writer : pc[c] \in {"put", "inflight"} /\ Store(number[c], work[c])
      BY <1>1, <3>1, TxStepIsStep, LogSteps
    <3>3. n = number[c] /\ log'[n] = work[c]
      BY <1>2, <2>2, <3>2 DEF Store
    <3>4. t \in HeldBy(c)
      BY <1>2, <3>3 DEF HeldBy
    <3>5. status[t] # "new" /\ Mine(c) /\ Told(c) /\ Guarded(c)
      BY <1>1, <3>4, HeldMine DEF Watch
    <3>6. ~AppendRecord(t)
      BY <3>5, AppendedOne
    <3>7. warm[t]
      BY <1>1, <1>2, <3>6, WarmStays
    <3>8. Compared(t, CheckedTo(c)) /\ tail[c] # NoTail
      BY <3>2, <3>4, <3>5, <3>7 DEF Guarded, Ended
    <3>9. CheckedTo(c) = tail[c] /\ number[c] = tail[c] + 1 /\ tail[c] \in Nat
      BY <1>1, <3>2, <3>5, <3>8 DEF CheckedTo, Told, TypeOK
    <3>10. n - 1 = tail[c]
      BY <3>3, <3>9
    <3>11. QED
      BY <3>6, <3>8, <3>9, <3>10
  <2>3. QED
    BY <2>1, <2>2
<1>5. warm[t] /\ begin'[t] = begin[t]
  BY <1>1, <1>2, <1>4, WarmStays
<1>6. QED
  BY <1>3, <1>4, <1>5

LEMMA StepNoMissed ==
  ASSUME Base, TxTypeOK, Shapes, [TxNext]_txall, Watch
  PROVE  NoMissedConflictWhenWarm'
<1>1. SUFFICES ASSUME NEW n \in DOMAIN log', NEW t \in Event, Range(log'[n]) = {t}, warm'[t]
               PROVE  Compared(t, n - 1)'
  BY DEF NoMissedConflictWhenWarm, Compared
<1>2. PICK b : b = n - 1
  OBVIOUS
<1>3. UpTo(b) /\ Compared(t, b) /\ begin'[t] = begin[t]
  BY <1>1, <1>2, CommitCompared
<1>4. Compared(t, b)'
  BY <1>3, ComparedStays
<1>5. QED
  BY <1>2, <1>4 DEF Compared, Overwritten

LEMMA AlwaysWatch == TxSpec => [](Base /\ Types /\ Watch)
<1>1. TxInit => Watch
  <2>1. ASSUME TxInit PROVE Watch
    <3>1. Init /\ \A t \in Event : warm[t] = FALSE /\ begin[t] = 0 /\ txpc[t] = "new"
      BY <2>1 DEF TxInit
    <3>2. \A m \in Writer : arrivals[m] = <<>> /\ pc[m] = "unstarted"
      BY <3>1 DEF Init
    <3>3. \A m \in Writer : DOMAIN arrivals[m] = {} /\ HeldBy(m) \subseteq Event
      <4>1. TypeOK
        BY <3>1, InitIInv DEF IInv
      <4>2. \A m \in Writer : Range(pending[m]) \subseteq Event
        BY <4>1, WorkTypes, ElementOfSeq DEF Range
      <4>3. QED
        BY <3>2, <4>1, <4>2, WorkTypes DEF HeldBy
    <3>4. \A m \in Writer : Mine(m) /\ Told(m) /\ Guarded(m)
      BY <3>1, <3>2, <3>3 DEF Mine, Told, Guarded
    <3>5. \A t \in Event : Scanned(t)
      BY <3>1 DEF Scanned, UpTo
    <3>6. NoMissedConflictWhenWarm
      BY <3>1 DEF NoMissedConflictWhenWarm
    <3>7. QED
      BY <3>4, <3>5, <3>6 DEF Watch
  <2>2. QED
    BY <2>1
<1>2. Base /\ Types /\ Base' /\ Watch /\ [TxNext]_txall => Watch'
  BY StepMine, StepTold, StepGuarded, StepScanned, StepNoMissed DEF Watch, Types
<1>3. QED
  BY <1>1, <1>2, AlwaysTypes, PTL DEF TxSpec, txall

(* No record is committed over one that wrote, after its transaction began,  *)
(* a key that the transaction read, under every fault of the Committers:     *)
(* the scan, and the hook at every number that the record loses, see all of  *)
(* the log in between (_check_committed_since and _revalidate).              *)
THEOREM NoConflictMissed == TxSpec => []NoMissedConflictWhenWarm
<1>1. Watch => NoMissedConflictWhenWarm
  BY DEF Watch
<1>2. QED
  BY <1>1, AlwaysWatch, PTL

-----------------------------------------------------------------------------
(* What commits leave in a key, which later commits do not change.           *)
LEMMA GreatestIs ==
  ASSUME NEW n \in Nat, NEW S \in SUBSET (1..n), S # {}
  PROVE  Max(S) \in S
<1> DEFINE T == {n - x : x \in S}
<1>1. PICK d \in T : \A y \in T : d <= y
  <2>1. \A x \in S : n - x \in Nat
    OBVIOUS
  <2>2. T # {} /\ T \in SUBSET Nat
    BY <2>1
  <2>3. QED
    BY <2>2, LeastNatural
<1>2. PICK x \in S : d = n - x
  BY <1>1
<1>3. \A y \in S : x >= y
  <2>1. \A y \in S : n - x <= n - y /\ y \in Nat /\ x \in Nat
    BY <1>1, <1>2
  <2>2. QED
    BY <2>1
<1>4. QED
  BY <1>3 DEF Max

FoldWriters(n, k) == {j \in 1..n : k \in WriteSet(log[j][1])}

LEMMA FoldedIs ==
  ASSUME NEW n, NEW k
  PROVE  Folded(n, k) = IF FoldWriters(n, k) = {} THEN NoObject
                        ELSE LastWrite(log[Max(FoldWriters(n, k))][1], k)
BY DEF Folded, FoldWriters

LEMMA FoldedStays ==
  ASSUME Base, [TxNext]_txall, NEW n \in Nat, UpTo(n), NEW k
  PROVE  Folded(n, k)' = Folded(n, k)
<1>1. \A j \in 1..n : log'[j] = log[j]
  BY TxLogGrows DEF UpTo
<1>2. PICK S : S = FoldWriters(n, k)
  OBVIOUS
<1>3. FoldWriters(n, k)' = S
  <2>1. \A j \in 1..n : WriteSet(log'[j][1]) = WriteSet(log[j][1])
    BY <1>1
  <2>2. QED
    BY <1>2, <2>1 DEF FoldWriters, WriteSet
<1>4. S # {} => log'[Max(S)] = log[Max(S)]
  <2>1. S \in SUBSET (1..n)
    BY <1>2 DEF FoldWriters
  <2>2. QED
    BY <1>1, <2>1, GreatestIs
<1>5. Folded(n, k) = IF S = {} THEN NoObject ELSE LastWrite(log[Max(S)][1], k)
  BY <1>2, FoldedIs
<1>6. Folded(n, k)' = IF S = {} THEN NoObject ELSE LastWrite(log'[Max(S)][1], k)
  BY <1>3 DEF Folded, FoldWriters
<1>7. QED
  BY <1>4, <1>5, <1>6

LEMMA FoldedFurther ==
  ASSUME NEW a \in Nat, NEW b \in Nat, a <= b, NEW k,
         \A j \in a + 1 .. b : k \notin WriteSet(log[j][1])
  PROVE  Folded(b, k) = Folded(a, k)
<1>1. FoldWriters(b, k) = FoldWriters(a, k)
  <2>1. \A j \in 1..b : j \in 1..a \/ j \in a + 1 .. b
    OBVIOUS
  <2>2. \A j \in 1..a : j \in 1..b
    OBVIOUS
  <2>3. QED
    BY <2>1, <2>2 DEF FoldWriters
<1>2. QED
  BY <1>1, FoldedIs

-----------------------------------------------------------------------------
(* A transaction that began when all was applied, in log order, is disturbed *)
(* by later commits only: nobody applies an earlier one any more, and where  *)
(* an object or an etag read is not what the log left before it, a later     *)
(* commit wrote the key.                                                     *)
Over(t, k) == \E j \in DOMAIN log : j > begin[t] /\ k \in WriteSet(log[j][1])

Stale(u, b) ==
  txpc[u] = "append" /\ Alive(ManagerOf[u]) => \A j \in DOMAIN log : u \in Range(log[j]) => j > b

NobodyBehind(t) ==
  /\ 1..begin[t] \subseteq markers
  /\ \A p \in Process : applying[p] # Idle => applying[p].commit > begin[t]
  /\ \A m \in Writer : next[m] # 0 => next[m] > begin[t]
  /\ \A u \in Event : Stale(u, begin[t])

Current(t, k, v) == v = Folded(begin[t], k) \/ Over(t, k)

Undisturbed(t) ==
  calm[t] =>
    /\ NobodyBehind(t)
    /\ \A k \in Key : Current(t, k, store[k])
    /\ \A k \in DOMAIN reads[t] : Current(t, k, reads[t][k])

ReadAll(t) ==
  /\ txpc[t] = "new" => DOMAIN reads[t] = {}
  /\ txpc[t] \in {"validate", "scan"} \/ warm[t] => DOMAIN reads[t] = ReadsOf[t]

Calmness ==
  /\ \A t \in Event : Undisturbed(t) /\ ReadAll(t)
  /\ SerializableWhenCalm

LEMMA StepReadAll ==
  ASSUME TxTypeOK, Shapes, [TxNext]_txall, NEW t \in Event, Scanned(t), ReadAll(t)
  PROVE  ReadAll(t)'
<1>1. /\ DOMAIN txpc = Event /\ DOMAIN reads = Event /\ DOMAIN warm = Event
  BY DEF TxTypeOK, Shapes
<1>2. CASE Same(t) /\ txpc'[t] \in {txpc[t], "done"}
  BY <1>2 DEF Same, ReadAll
<1>3. CASE AppendRecord(t)
  <2>1. txpc'[t] = "append" /\ reads'[t] = reads[t] /\ txpc[t] = "scan"
    BY <1>1, <1>3 DEF AppendRecord, Become, At
  <2>2. QED
    BY <2>1 DEF ReadAll
<1>4. CASE \E k \in Key : Get(t, k)
  <2>1. txpc[t] = "open" /\ txpc' = txpc /\ warm' = warm
    BY <1>4 DEF Get, At
  <2>2. ~warm[t]
    BY <2>1 DEF Scanned, Early
  <2>3. QED
    BY <2>1, <2>2 DEF ReadAll
<1>5. CASE BeginCommit(t)
  BY <1>1, <1>5 DEF BeginCommit, Become, At, ReadAll
<1>6. ASSUME \/ Enter(t) \/ (\E k \in Key : ValidateRead(t, k)) \/ BeginScan(t) \/ ScanCommit(t)
             \/ AppendReturns(t) \/ AppendFails(t) \/ CancelTransaction(t) \/ CommitNothing(t)
      PROVE  ReadAll(t)'
  <2>1. reads' = reads /\ warm' = warm
    BY <1>6 DEF Enter, CommitNothing, ValidateRead, BeginScan, ScanCommit, AppendReturns,
                AppendFails, CancelTransaction
  <2>2. /\ txpc'[t] # "new"
        /\ txpc'[t] \in {"validate", "scan"} => txpc[t] \in {"validate", "scan"}
    BY <1>1, <1>6 DEF Enter, CommitNothing, ValidateRead, BeginScan, ScanCommit, AppendReturns,
                      AppendFails, CancelTransaction, Become, At, Raised
  <2>3. QED
    BY <2>1, <2>2 DEF ReadAll
<1>7. QED
  BY <1>2, <1>3, <1>4, <1>5, <1>6, OwnForms DEF OwnStep

LEMMA CalmStays ==
  ASSUME TxTypeOK, Shapes, [TxNext]_txall, NEW t \in Event, ~Enter(t)
  PROVE  calm'[t] = calm[t] /\ begin'[t] = begin[t]
<1>1. OwnStep(t) => UNCHANGED calm /\ UNCHANGED begin
  BY DEF OwnStep, BeginCommit, CommitNothing, Get, ValidateRead, BeginScan, ScanCommit,
         AppendRecord, AppendReturns, AppendFails, CancelTransaction
<1>2. QED
  BY <1>1, OwnForms DEF Same

LEMMA AliveBefore ==
  ASSUME Base, [TxNext]_txall, NEW m \in Writer, Alive(m)'
  PROVE  Alive(m)
<1>1. TypeOK /\ DenseLog /\ UpTo(History)
  BY DEF Base, IInv
<1>2. pc'[m] \notin {"inflight", "crashed"}
  BY DEF Alive
<1>3. CASE Moves(m)
  <2>1. pc'[m] \in {"inflight", "crashed"} \/ pc[m] \notin {"inflight", "crashed"}
    BY <1>1, <1>3, TailForms DEF Takes, Finishes, Chooses, Goes, GoesBack, Finds, Halts, Busy
  <2>2. QED
    BY <1>2, <2>1 DEF Alive
<1>4. ASSUME NEW t \in Event, AppendRecord(t), ManagerOf[t] = m PROVE Alive(m)
  <2>1. pc[m] \notin Ended \cup {"inflight"}
    BY <1>4, AppendedOne
  <2>2. QED
    BY <2>1 DEF Alive, Ended
<1>5. CASE pc'[m] = pc[m]
  BY <1>2, <1>5 DEF Alive
<1>6. QED
  BY <1>3, <1>4, <1>5, QueueForms

LEMMA NextSteps ==
  ASSUME TxTypeOK, Shapes, [TxNext]_txall, NEW m \in Writer
  PROVE  \/ next'[m] = next[m] \/ next'[m] = 0
         \/ next'[m] = FirstUnmarked
         \/ next[m] # 0 /\ next'[m] = next[m] + 1
<1>1. next \in [Writer -> Nat]
  BY DEF TxTypeOK
<1>2. ASSUME NEW d \in Writer, Recover(d) \/ RecoverCommit(d) \/ EndRecovery(d)
      PROVE  \/ next'[m] = next[m] \/ next'[m] = 0
             \/ next'[m] = FirstUnmarked
             \/ next[m] # 0 /\ next'[m] = next[m] + 1
  BY <1>1, <1>2 DEF Recover, RecoverCommit, EndRecovery
<1>3. ASSUME NEW p \in Process, ApplyOp(p) \/ Mark(p) \/ StopApplying(p) \/ ApplyAgain(p) PROVE UNCHANGED next
  BY <1>3 DEF ApplyOp, ApplyAgain, Mark, StopApplying
<1>4. ASSUME NEW t \in Event, OwnStep(t) PROVE UNCHANGED next
  BY <1>4 DEF OwnStep, Enter, BeginCommit, CommitNothing, Get, ValidateRead, BeginScan,
              ScanCommit, AppendRecord, AppendReturns, AppendFails, CancelTransaction
<1>5. UNCHANGED txvars => UNCHANGED next
  BY DEF txvars
<1>6. QED
  BY <1>2, <1>3, <1>4, <1>5, TxForms DEF OwnStep

LEMMA AppendBefore ==
  ASSUME TxTypeOK, Shapes, [TxNext]_txall, NEW u \in Event, txpc'[u] = "append", ~AppendRecord(u)
  PROVE  txpc[u] = "append"
<1>1. DOMAIN txpc = Event
  BY DEF TxTypeOK
<1>2. ASSUME OwnStep(u) PROVE txpc'[u] # "append" \/ txpc'[u] = txpc[u]
  BY <1>1, <1>2 DEF OwnStep, Enter, BeginCommit, CommitNothing, Get, ValidateRead, BeginScan,
              ScanCommit, AppendReturns, AppendFails, CancelTransaction, Become, Raised
<1>3. QED
  BY <1>2, OwnForms

LEMMA OverStays ==
  ASSUME Base, [TxNext]_txall, NEW t \in Event, begin'[t] = begin[t], NEW k, Over(t, k)
  PROVE  Over(t, k)'
<1>1. PICK j \in DOMAIN log : j > begin[t] /\ k \in WriteSet(log[j][1])
  BY DEF Over
<1>2. j \in DOMAIN log' /\ log'[j] = log[j]
  BY TxLogGrows
<1>3. j > begin'[t] /\ k \in WriteSet(log'[j][1])
  BY <1>1, <1>2
<1>4. QED
  BY <1>2, <1>3 DEF Over, WriteSet

LEMMA CurrentStays ==
  ASSUME Base, TxTypeOK, [TxNext]_txall, NEW t \in Event, Scanned(t), begin'[t] = begin[t],
         NEW k, NEW v, Current(t, k, v)
  PROVE  Current(t, k, v)'
<1>1. PICK b \in Nat : b = begin[t]
  BY DEF TxTypeOK
<1>2. CASE v = Folded(b, k)
  <2>1. Folded(b, k)' = Folded(b, k)
    BY <1>1, FoldedStays DEF Scanned
  <2>2. v = Folded(b, k)' /\ begin'[t] = b
    BY <1>1, <1>2, <2>1
  <2>3. QED
    BY <2>2 DEF Current, Folded
<1>3. CASE Over(t, k)
  BY <1>3, OverStays DEF Current
<1>4. QED
  BY <1>1, <1>2, <1>3 DEF Current

LEMMA StaleStays ==
  ASSUME Base, TxTypeOK, Shapes, [TxNext]_txall, NEW b, UpTo(b), b \in Nat, NEW u \in Event, Stale(u, b)
  PROVE  Stale(u, b)'
<1>1. SUFFICES ASSUME txpc'[u] = "append", Alive(ManagerOf[u])', NEW j \in DOMAIN log', u \in Range(log'[j])
               PROVE  j > b
  BY DEF Stale
<1>2. TypeOK /\ Places /\ DenseLog /\ DenseLog' /\ Recorded
  BY TxLogGrows DEF Base, IInv
<1>3. CASE j \notin DOMAIN log
  <2>1. j \in Nat \ {0}
    <3>1. j \in 1..Cardinality(DOMAIN log')
      BY <1>1, <1>2 DEF DenseLog
    <3>2. PICK c : c = Cardinality(DOMAIN log')
      OBVIOUS
    <3>3. j \in 1..c
      BY <3>1, <3>2
    <3>4. QED
      BY <3>3
  <2>2. j \notin 1..b
    BY <1>3 DEF UpTo
  <2>3. QED
    BY <2>1, <2>2
<1>4. CASE j \in DOMAIN log
  <2>1. u \in Range(log[j])
    BY <1>1, <1>4, TxLogGrows
  <2>2. ~AppendRecord(u)
    <3>1. status[u] # "new"
      BY <1>2, <1>4, <2>1, NewNotCommitted DEF Committed
    <3>2. QED
      BY <3>1, AppendedOne
  <2>3. txpc[u] = "append"
    BY <1>1, <2>2, AppendBefore
  <2>4. Alive(ManagerOf[u])
    <3>1. PICK m \in Writer : m = ManagerOf[u]
      BY OwnRecord
    <3>2. Alive(m)'
      BY <1>1, <3>1 DEF Alive
    <3>3. QED
      BY <3>1, <3>2, AliveBefore
  <2>5. QED
    BY <1>4, <2>1, <2>3, <2>4 DEF Stale
<1>5. QED
  BY <1>3, <1>4

LEMMA NobodyBehindStays ==
  ASSUME Base, TxTypeOK, Shapes, [TxNext]_txall, NEW t \in Event, Scanned(t), begin'[t] = begin[t],
         NobodyBehind(t)
  PROVE  NobodyBehind(t)'
<1>1. PICK b \in Nat : b = begin[t]
  BY DEF TxTypeOK
<1>2. /\ UpTo(b) /\ 1..b \subseteq markers
      /\ \A p \in Process : applying[p] # Idle => applying[p].commit > b
      /\ \A m \in Writer : next[m] # 0 => next[m] > b
      /\ \A u \in Event : Stale(u, b)
  BY <1>1 DEF NobodyBehind, Scanned
<1>3. 1..b \subseteq markers'
  <2>1. markers \subseteq markers'
    BY StoreForms DEF Writes, WriteObject, WriteMarker
  <2>2. QED
    BY <1>2, <2>1
<1>4. ASSUME NEW p \in Process, applying'[p] # Idle PROVE applying'[p].commit > b
  <2>1. ASSUME Quiet(p) PROVE applying'[p].commit > b
    <3>1. CASE StartsOwn(p)
      <4>1. /\ p \in Event /\ status[p] = "ok" /\ Stale(p, b) /\ applying'[p].commit = seq[p].commit
            /\ txpc[p] = "append" /\ Alive(ManagerOf[p])
        BY <1>2, <3>1 DEF StartsOwn
      <4>2. seq[p].commit \in DOMAIN log /\ p \in Range(log[seq[p].commit])
        BY <4>1 DEF Base, IInv, AckedDurably, Range
      <4>3. QED
        BY <4>1, <4>2 DEF Stale
    <3>2. CASE StartsNext(p)
      BY <1>2, <3>2 DEF StartsNext
    <3>3. QED
      BY <1>2, <1>4, <2>1, <3>1, <3>2 DEF Quiet
  <2>2. ASSUME NEW q \in Process, Writes(q) PROVE applying'[p].commit > b
    BY <1>2, <1>4, <2>2 DEF Writes
  <2>3. QED
    BY <2>1, <2>2, StoreForms
<1>5. ASSUME NEW m \in Writer, next'[m] # 0 PROVE next'[m] > b
  <2>1. FirstUnmarked > b
    <3>1. FirstUnmarked \in Nat \ {0} /\ FirstUnmarked \notin markers
      BY FirstUnmarkedIs DEF TxTypeOK, Shapes
    <3>2. FirstUnmarked \notin 1..b
      BY <1>2, <3>1
    <3>3. QED
      BY <3>1, <3>2
  <2>2. next[m] \in Nat
    BY DEF TxTypeOK
  <2>3. next[m] > b => next[m] + 1 > b
    BY <2>2
  <2>4. QED
    BY <1>2, <1>5, <2>1, <2>3, NextSteps
<1>6. \A u \in Event : Stale(u, b)'
  BY <1>2, StaleStays
<1>7. begin'[t] = b
  BY <1>1
<1>8. \A u \in Event : Stale(u, begin[t])'
  BY <1>6, <1>7 DEF Stale
<1>9. QED
  BY <1>3, <1>4, <1>5, <1>7, <1>8 DEF NobodyBehind

(* The moment of calm itself: _begin_tail is the end of the log, all of it   *)
(* is applied, and nobody is at it or about to be.                           *)
LEMMA CalmBegins ==
  ASSUME Base, TxTypeOK, Shapes, Effects, NEW t \in Event, Enter(t), ReadAll(t), calm'[t]
  PROVE  Undisturbed(t)'
<1>1. TypeOK /\ DenseLog /\ AckedDurably
  BY DEF Base, IInv
<1>2. /\ begin'[t] = End /\ Calm
      /\ UNCHANGED <<log, store, markers, reads, applying, next, status, seq, pc>> /\ txpc[t] = "new"
      /\ txpc' = [txpc EXCEPT ![t] = "open"]
  <2>1. /\ begin' = [begin EXCEPT ![t] = IF DOMAIN log = {} THEN 0 ELSE Max(DOMAIN log)]
        /\ calm' = [calm EXCEPT ![t] = Calm]
        /\ UNCHANGED <<log, store, markers, reads, applying, next, status, seq, pc>> /\ txpc[t] = "new"
        /\ txpc' = [txpc EXCEPT ![t] = "open"]
    BY DEF Enter, Become, At, committers, vars, flusher, futures
  <2>2. calm'[t] = Calm
    BY <2>1, Zenon DEF TxTypeOK
  <2>3. begin'[t] = End
    BY <1>1, <2>1, EndIs DEF TxTypeOK
  <2>4. QED
    BY <2>1, <2>2, <2>3
<1>3. PICK b : b = End
  OBVIOUS
<1>4. /\ 1..b \subseteq markers /\ \A p \in Process : applying[p] = Idle
      /\ \A m \in Writer : next[m] = 0
      /\ \A k \in Key : store[k] = Folded(b, k)
      /\ \A u \in Event : txpc[u] = "append" /\ Alive(ManagerOf[u]) => ~Committed(u)
  BY <1>1, <1>2, <1>3, EndIs DEF Calm, AllApplied, InLogOrder, End
<1>5. begin'[t] = b
  BY <1>2, <1>3
<1>6. \A u \in Event : Stale(u, begin[t])'
  <2>1. ASSUME NEW u \in Event, txpc'[u] = "append", Alive(ManagerOf[u])',
               NEW j \in DOMAIN log', u \in Range(log'[j])
        PROVE  FALSE
    <3>1. txpc[u] = "append" /\ Alive(ManagerOf[u])
      BY <1>2, <2>1 DEF TxTypeOK, Alive
    <3>2. Committed(u)
      BY <1>2, <2>1 DEF Committed
    <3>3. QED
      BY <1>4, <3>1, <3>2
  <2>2. QED
    BY <2>1 DEF Stale
<1>7. NobodyBehind(t)'
  BY <1>2, <1>4, <1>5, <1>6 DEF NobodyBehind
<1>8. \A k \in Key : Current(t, k, store[k])'
  <2>1. ASSUME NEW k \in Key PROVE store'[k] = Folded(b, k)'
    <3>1. store'[k] = Folded(b, k)
      BY <1>2, <1>4
    <3>2. QED
      BY <1>2, <3>1 DEF Folded, WriteSet
  <2>2. QED
    BY <1>5, <2>1 DEF Current, Folded
<1>9. DOMAIN reads'[t] = {}
  BY <1>2 DEF ReadAll
<1>10. QED
  BY <1>7, <1>8, <1>9 DEF Undisturbed

LEMMA StoreCurrent ==
  ASSUME Base, TxTypeOK, Shapes, Effects, [TxNext]_txall, NEW t \in Event, Scanned(t),
         begin'[t] = begin[t], NobodyBehind(t), NEW k \in Key, Current(t, k, store[k])
  PROVE  Current(t, k, store[k])'
<1>1. CASE store'[k] = store[k]
  <2>1. PICK v : v = store[k]
    OBVIOUS
  <2>2. Current(t, k, v)'
    BY <2>1, CurrentStays
  <2>3. QED
    BY <1>1, <2>1, <2>2 DEF Current
<1>2. CASE store'[k] # store[k]
  <2>1. PICK p \in Process : Writes(p) /\ WriteObject(p)
    BY <1>2, StoreForms DEF Writes, WriteMarker
  <2>2. PICK n, i : n = applying[p].commit /\ i = applying[p].op
    OBVIOUS
  <2>3. i \in DOMAIN OpsAt(n) /\ \A x \in Key \ {OpsAt(n)[i].key} : store'[x] = store[x]
    BY <2>1, <2>2, WriteObjectIs
  <2>4. k = OpsAt(n)[i].key
    BY <1>2, <2>3
  <2>5. n \in DOMAIN log /\ n > begin[t]
    BY <2>1, <2>2 DEF Writes, Effects, Behind, NobodyBehind
  <2>6. k \in WriteSet(log[n][1])
    BY <2>3, <2>4, OpsAtIs DEF WriteSet
  <2>7. Over(t, k)
    BY <2>5, <2>6 DEF Over
  <2>8. QED
    BY <2>7, OverStays DEF Current
<1>3. QED
  BY <1>1, <1>2

LEMMA ReadsCurrentStay ==
  ASSUME Base, TxTypeOK, Shapes, [TxNext]_txall, NEW t \in Event, Scanned(t), begin'[t] = begin[t],
         \A k \in Key : Current(t, k, store[k]),
         \A k \in DOMAIN reads[t] : Current(t, k, reads[t][k]),
         NEW k \in DOMAIN reads'[t]
  PROVE  Current(t, k, reads[t][k])'
<1>1. \/ k \in DOMAIN reads[t] /\ reads'[t][k] = reads[t][k]
      \/ k \in Key /\ reads'[t][k] = store[k]
  <2>1. ASSUME NEW j \in Key, Get(t, j)
        PROVE  \/ k \in DOMAIN reads[t] /\ reads'[t][k] = reads[t][k]
               \/ k \in Key /\ reads'[t][k] = store[k]
    <3> DEFINE f == [x \in DOMAIN reads[t] \cup {j} |-> IF x = j THEN store[j] ELSE reads[t][x]]
    <3>1. reads'[t] = f
      BY <2>1 DEF Get, Shapes
    <3>2. k \in DOMAIN reads[t] \cup {j}
      BY <3>1
    <3>3. reads'[t][k] = IF k = j THEN store[j] ELSE reads[t][k]
      BY <3>1, <3>2
    <3>4. QED
      BY <3>2, <3>3
  <2>2. OwnStep(t) /\ ~(\E j \in Key : Get(t, j)) => UNCHANGED reads
    BY DEF OwnStep, Enter, BeginCommit, CommitNothing, ValidateRead, BeginScan, ScanCommit,
           AppendRecord, AppendReturns, AppendFails, CancelTransaction
  <2>3. QED
    BY <2>1, <2>2, OwnForms DEF Same
<1>2. PICK v : v = reads'[t][k]
  OBVIOUS
<1>3. Current(t, k, v)
  BY <1>1, <1>2
<1>4. Current(t, k, v)'
  BY <1>3, CurrentStays
<1>5. QED
  BY <1>2, <1>4 DEF Current

LEMMA StepUndisturbed ==
  ASSUME Base, TxTypeOK, Shapes, Effects, Watch, [TxNext]_txall, NEW t \in Event,
         Undisturbed(t), ReadAll(t)
  PROVE  Undisturbed(t)'
<1>1. Scanned(t)
  BY DEF Watch
<1>2. CASE Enter(t)
  <2>1. calm'[t] => Undisturbed(t)'
    BY <1>2, CalmBegins
  <2>2. QED
    BY <2>1 DEF Undisturbed
<1>3. CASE ~Enter(t)
  <2>1. calm'[t] = calm[t] /\ begin'[t] = begin[t]
    BY <1>3, CalmStays
  <2>2. CASE calm[t]
    <3>1. /\ NobodyBehind(t) /\ \A k \in Key : Current(t, k, store[k])
          /\ \A k \in DOMAIN reads[t] : Current(t, k, reads[t][k])
      BY <2>2 DEF Undisturbed
    <3>2. NobodyBehind(t)'
      BY <1>1, <2>1, <3>1, NobodyBehindStays
    <3>3. \A k \in Key : Current(t, k, store[k])'
      BY <1>1, <2>1, <3>1, StoreCurrent
    <3>4. \A k \in DOMAIN reads'[t] : Current(t, k, reads[t][k])'
      BY <1>1, <2>1, <3>1, ReadsCurrentStay
    <3>5. QED
      BY <3>2, <3>3, <3>4 DEF Undisturbed
  <2>3. QED
    BY <2>1, <2>2 DEF Undisturbed
<1>4. QED
  BY <1>2, <1>3

LEMMA StepSerializable ==
  ASSUME Base, TxTypeOK, Shapes, Watch, Calmness, [TxNext]_txall
  PROVE  SerializableWhenCalm'
<1>1. SUFFICES ASSUME NEW n \in DOMAIN log', NEW t \in Event, Range(log'[n]) = {t}, warm'[t], calm'[t],
                      NEW k \in ReadsOf[t]
               PROVE  reads'[t][k] = Folded(n - 1, k)'
  BY DEF SerializableWhenCalm, ReadsCurrent
<1>2. TypeOK /\ DenseLog /\ DenseLog' /\ Scanned(t)
  BY TxLogGrows DEF Base, IInv, Watch
<1>3. warm[t] /\ begin'[t] = begin[t] /\ UpTo(n - 1) /\ Compared(t, n - 1)
  BY <1>1, CommitCompared
<1>4. txpc[t] \notin Early
  BY <1>2, <1>3 DEF Scanned
<1>5. calm[t]
  <2>1. ~Enter(t)
    BY <1>4 DEF Enter, At, Early
  <2>2. QED
    BY <1>1, <2>1, CalmStays
<1>6. reads'[t] = reads[t]
  <2>1. ~(\E j \in Key : Get(t, j))
    BY <1>4 DEF Get, At, Early
  <2>2. OwnStep(t) => UNCHANGED reads
    BY <2>1 DEF OwnStep, Enter, BeginCommit, CommitNothing, ValidateRead, BeginScan, ScanCommit,
                AppendRecord, AppendReturns, AppendFails, CancelTransaction
  <2>3. QED
    BY <2>2, OwnForms DEF Same
<1>7. n \in Nat \ {0}
  <2>1. PICK c : c = Cardinality(DOMAIN log')
    OBVIOUS
  <2>2. n \in 1..c
    BY <1>1, <1>2, <2>1 DEF DenseLog
  <2>3. QED
    BY <2>2
<1>8. PICK l \in Nat : l = n - 1
  BY <1>7
<1>9. reads[t][k] = Folded(l, k)
  <2>1. CASE n \in DOMAIN log
    <3>1. Range(log[n]) = {t}
      BY <1>1, <2>1, TxLogGrows
    <3>2. QED
      BY <1>3, <1>5, <1>8, <2>1, <3>1 DEF Calmness, SerializableWhenCalm, ReadsCurrent
  <2>2. CASE n \notin DOMAIN log
    <3>1. PICK e \in Nat : DOMAIN log = 1..e
      BY <1>2, DenseRange
    <3>2. e <= l
      BY <1>7, <1>8, <2>2, <3>1
    <3>3. begin[t] \in Nat /\ begin[t] <= l
      <4>1. begin[t] \in Nat /\ UpTo(begin[t])
        BY <1>2 DEF TxTypeOK, Scanned
      <4>2. begin[t] <= e
        BY <3>1, <4>1 DEF UpTo
      <4>3. QED
        BY <3>2, <4>1, <4>2
    <3>4. ASSUME NEW j \in begin[t] + 1 .. l, k \in WriteSet(log[j][1]) PROVE FALSE
      <4>1. PICK i \in DOMAIN OpsAt(j) : OpsAt(j)[i].key = k
        BY <3>4 DEF WriteSet, OpsAt
      <4>2. QED
        BY <1>1, <1>3, <1>8, <4>1 DEF Compared, Overwritten
    <3>5. Folded(l, k) = Folded(begin[t], k)
      BY <3>3, <3>4, FoldedFurther
    <3>6. Current(t, k, reads[t][k])
      BY <1>3, <1>5 DEF Calmness, Undisturbed, ReadAll
    <3>7. ~Over(t, k)
      <4>1. ASSUME NEW j \in DOMAIN log, j > begin[t] PROVE j \in begin[t] + 1 .. l
        BY <3>1, <3>2, <3>3, <4>1
      <4>2. QED
        BY <3>4, <4>1 DEF Over
    <3>8. QED
      BY <3>5, <3>6, <3>7 DEF Current
  <2>3. QED
    BY <2>1, <2>2
<1>10. Folded(l, k)' = Folded(l, k)
  BY <1>3, <1>8, FoldedStays
<1>11. reads'[t][k] = Folded(l, k)'
  BY <1>6, <1>9, <1>10
<1>12. QED
  BY <1>8, <1>11 DEF Folded

LEMMA AlwaysCalmness == TxSpec => [](Base /\ Types /\ Effects /\ Watch /\ Calmness)
<1>1. TxInit => Calmness
  <2>1. ASSUME TxInit PROVE Calmness
    <3>1. \A t \in Event : warm[t] = FALSE /\ calm[t] = FALSE /\ txpc[t] = "new" /\ reads[t] = <<>>
      BY <2>1 DEF TxInit
    <3>2. \A t \in Event : DOMAIN reads[t] = {}
      BY <3>1, EmptySeq
    <3>3. QED
      BY <3>1, <3>2 DEF Calmness, Undisturbed, ReadAll, SerializableWhenCalm
  <2>2. QED
    BY <2>1
<1>2. Base /\ Types /\ Effects /\ Watch /\ Calmness /\ [TxNext]_txall => Calmness'
  <2> SUFFICES ASSUME Base, Types, Effects, Watch, Calmness, [TxNext]_txall PROVE Calmness'
    OBVIOUS
  <2>1. SerializableWhenCalm'
    BY StepSerializable DEF Types
  <2>2. ASSUME NEW t \in Event PROVE Undisturbed(t)' /\ ReadAll(t)'
    BY StepUndisturbed, StepReadAll DEF Types, Watch, Calmness
  <2>3. QED
    BY <2>1, <2>2 DEF Calmness
<1>3. QED
  BY <1>1, <1>2, AlwaysWatch, AlwaysEffects, PTL DEF TxSpec, txall

(* A committed transaction has read what the commits before it left: the     *)
(* transactions of a bucket are serializable, in log order, when the record  *)
(* was handed to an idle committer that knew its tail, and everything before *)
(* it had been applied, in log order, and nobody was at it, when it began.   *)
(* It holds under every fault, and however many managers and recoveries.     *)
THEOREM SerializableIfCalm == TxSpec => []SerializableWhenCalm
<1>1. Calmness => SerializableWhenCalm
  BY DEF Calmness
<1>2. QED
  BY <1>1, AlwaysCalmness, PTL
=============================================================================
