------------------------------ MODULE Filesystem ------------------------------
(***************************************************************************)
(* storage/filesystem.py.  Numbered objects are linked into place; objects *)
(* are replaced, appended to and deleted under a flock.  A temporary file  *)
(* is named after its process and thread and is invisible to everybody     *)
(* else: writing it belongs to the step that publishes it.  Readers take   *)
(* no lock: what they read from the file they opened is what the object    *)
(* was at some moment since.                                               *)
(***************************************************************************)
EXTENDS StorageCalls

OnFilesystem(c, labels) == provider = "filesystem" /\ At(c) \in labels

(* Mutant: the temporary file is renamed over the target. *)
LinkableMutant(c) == TRUE
Linkable(c) == object[Target(c)] = Absent

FsPutIfAbsent(c) ==
    /\ OnFilesystem(c, {"create"})
    /\ IF Linkable(c)
       THEN Store(c, Data(c)) /\ AfterPut(c, TRUE)
       ELSE AfterPut(c, FALSE) /\ UNCHANGED object
    /\ UNCHANGED <<setup, appendBlobs, holder>>

FsRead(c) ==
    /\ OnFilesystem(c, {"read"})
    /\ AfterGet(c, object[Target(c)])
    /\ UNCHANGED <<setup, object, appendBlobs, holder>>

FsGetObject(c) ==
    /\ OnFilesystem(c, {"get"})
    /\ AfterGet(c, object[Target(c)])
    /\ UNCHANGED <<setup, object, appendBlobs, holder>>

(***************************************************************************)
(* Under the lock.                                                         *)
(***************************************************************************)
(* Mutant: a put does not wait for the lock. *)
LockableMutant(c) == At(c) = "put" \/ holder[Target(c)] = Nobody
Lockable(c) == holder[Target(c)] = Nobody

FsLock(c) ==
    /\ OnFilesystem(c, {"put", "append", "delete"})
    /\ Lockable(c)
    /\ holder' = [holder EXCEPT ![Target(c)] = c]
    /\ Goto(c, CASE At(c) = "put" -> "check" [] At(c) = "append" -> "open" [] OTHER -> "unlink")
    /\ UNCHANGED <<setup, object, appendBlobs>>

(* Mutant: an early return does not unlock. *)
UnlockedMutant(c) == IF At(c) = "refused" THEN holder ELSE [holder EXCEPT ![Target(c)] = Nobody]
Unlocked(c) == [holder EXCEPT ![Target(c)] = Nobody]

FsUnlock(c) ==
    /\ OnFilesystem(c, {"refused", "replaced", "appended", "unlinked"})
    /\ holder' = Unlocked(c)
    /\ AfterPut(c, At(c) # "refused")
    /\ UNCHANGED <<setup, object, appendBlobs>>

FsCheck(c) ==
    /\ OnFilesystem(c, {"check"})
    /\ Goto(c, IF Meets(c) THEN "replace" ELSE "refused")
    /\ UNCHANGED <<setup, object, appendBlobs, holder>>

FsReplace(c) ==
    /\ OnFilesystem(c, {"replace"})
    /\ Store(c, New(c)) /\ Goto(c, "replaced")
    /\ UNCHANGED <<setup, appendBlobs, holder>>

\* open(target, "ab") creates the file; the write may reach it in parts.
FsOpen(c) ==
    /\ OnFilesystem(c, {"open"})
    /\ Store(c, IF object[Target(c)] = Absent THEN <<>> ELSE object[Target(c)])
    /\ Goto(c, "write")
    /\ UNCHANGED <<setup, appendBlobs, holder>>

FsWrite(c) ==
    /\ OnFilesystem(c, {"write", "half"})
    /\ \/ Store(c, Append(object[Target(c)], c)) /\ Goto(c, IF At(c) = "write" THEN "half" ELSE "appended")
       \/ /\ At(c) = "write"
          /\ Store(c, object[Target(c)] \o Data(c)) /\ Goto(c, "appended")
    /\ UNCHANGED <<setup, appendBlobs, holder>>

FsUnlink(c) ==
    /\ OnFilesystem(c, {"unlink"})
    /\ Store(c, Absent) /\ Goto(c, "unlinked")
    /\ UNCHANGED <<setup, appendBlobs, holder>>

(***************************************************************************)
(* iterdir, and rglob below a named log's prefix, list in any order.  The  *)
(* commits of a named log are deleted under the lock of each.              *)
(***************************************************************************)
FsList(c) ==
    /\ OnFilesystem(c, {"list"})
    /\ Listed(c) \/ \E n \in Number : Visit(c, n)

FsDeleteBefore(c) ==
    /\ OnFilesystem(c, {"sweep"})
    /\ Swept(c) \/ \E n \in Number : (namespaced => holder[n] = Nobody) /\ Remove(c, n)

\* The log and snapshot API calls these directly, without a thread.
FsStep(c) ==
    \/ FsPutIfAbsent(c) \/ FsRead(c) \/ FsGetObject(c) \/ FsLock(c) \/ FsUnlock(c) \/ FsCheck(c)
    \/ FsReplace(c) \/ FsOpen(c) \/ FsWrite(c) \/ FsUnlink(c) \/ FsList(c) \/ FsDeleteBefore(c)
==============================================================================
