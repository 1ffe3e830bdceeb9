------------------------------ MODULE CloudStores ------------------------------
(***************************************************************************)
(* storage/s3.py, storage/gcs.py and storage/azure.py.  A step is one      *)
(* request to the service, which executes it atomically.  The SDKs make a  *)
(* request again when its reply is lost, so it is executed twice, with     *)
(* what others do in between (SendAgain): a conditional one is refused by  *)
(* what it did itself, an unconditional put or a deletion takes effect     *)
(* again.  The blob types are Azure's.                                     *)
(*                                                                         *)
(* S3Step, GcsStep and AzureStep are the methods of the log and snapshot   *)
(* API: each makes one of the requests above it, delete_..._before a       *)
(* listing and then deletions.                                             *)
(***************************************************************************)
EXTENDS StorageCalls

On(service, c, labels) == provider = service /\ At(c) \in labels

(***************************************************************************)
(* Requests that the services have in common.                              *)
(***************************************************************************)
Accepted(c) ==
    /\ Meets(c) /\ Store(c, New(c))
    /\ AfterPut(c, TRUE) \/ SendAgain(c, Target(c))

Turned(c) == AfterPut(c, FALSE) /\ UNCHANGED object

Downloaded(c) == AfterGet(c, object[Target(c)]) /\ UNCHANGED object

DeleteObject(c) ==
    /\ Store(c, Absent)
    /\ Decide(c, Written) \/ SendAgain(c, Target(c))

Deleted(c, n) ==
    \/ Remove(c, n)
    \/ /\ At(c) = "sweep" /\ n \in call[c].seen
       /\ object' = [object EXCEPT ![n] = Absent] /\ SendAgain(c, n)
       /\ UNCHANGED <<setup, appendBlobs, holder>>

(***************************************************************************)
(* S3.  412 is a failed precondition, 409 a conflict with a write that is  *)
(* under way, 404 an If-Match on an object that is gone: all mean "lost".  *)
(***************************************************************************)
Conflicting(c) ==
    \E d \in Call \ {c} : Target(d) = Target(c) /\ At(d) \in {"put", "create", "delete"}

S3PutIfAbsent(c) ==
    /\ On("s3", c, {"create"})
    /\ Accepted(c) \/ ((~Meets(c) \/ Conflicting(c)) /\ Turned(c))
    /\ UNCHANGED <<setup, appendBlobs, holder>>

S3Put(c) ==
    /\ On("s3", c, {"put"})
    /\ Accepted(c) \/ (Expected(c) # Any /\ (~Meets(c) \/ Conflicting(c)) /\ Turned(c))
    /\ UNCHANGED <<setup, appendBlobs, holder>>

S3GetObject(c) ==
    /\ On("s3", c, {"read"}) /\ Downloaded(c)
    /\ UNCHANGED <<setup, appendBlobs, holder>>

S3Get(c) ==
    /\ On("s3", c, {"get"}) /\ Downloaded(c)
    /\ UNCHANGED <<setup, appendBlobs, holder>>

S3Delete(c) ==
    /\ On("s3", c, {"delete"}) /\ DeleteObject(c)
    /\ UNCHANGED <<setup, appendBlobs, holder>>

S3ListKeys(c) ==
    /\ On("s3", c, {"list"})
    /\ Listed(c) \/ \E n \in Number : Visit(c, n)

\* delete_objects, "Quiet", reports the keys it could not delete in a field
\* that nobody reads.  A named log deletes key by key.
S3DeleteKeys(c) ==
    /\ On("s3", c, {"sweep"})
    /\ \/ Swept(c)
       \/ \E n \in Number : Deleted(c, n)
       \/ \E n \in call[c].seen :
             /\ ~namespaced
             /\ call' = [call EXCEPT ![c].seen = @ \ {n}]
             /\ UNCHANGED <<setup, object, appendBlobs, holder>>

S3Step(c) ==
    \/ S3PutIfAbsent(c) \/ S3Put(c) \/ S3GetObject(c) \/ S3Get(c) \/ S3Delete(c)
    \/ S3ListKeys(c) \/ S3DeleteKeys(c)

(***************************************************************************)
(* GCS.  get_blob pins the generation, the download asks for that one.     *)
(***************************************************************************)
GcsPutIfAbsent(c) ==
    /\ On("gcs", c, {"create"})
    /\ Accepted(c) \/ (~Meets(c) /\ Turned(c))
    /\ UNCHANGED <<setup, appendBlobs, holder>>

GcsPut(c) ==
    /\ On("gcs", c, {"put"})
    /\ Accepted(c) \/ (~Meets(c) /\ Turned(c))
    /\ UNCHANGED <<setup, appendBlobs, holder>>

GcsGetObject(c) ==
    /\ On("gcs", c, {"read"}) /\ Downloaded(c)
    /\ UNCHANGED <<setup, appendBlobs, holder>>

GcsGetBlob(c) ==
    /\ On("gcs", c, {"get"})
    /\ IF object[Target(c)] = Absent
       THEN AfterGet(c, Absent)
       ELSE call' = [call EXCEPT ![c].read = object[Target(c)], ![c].pc = "pinned"]
    /\ UNCHANGED <<setup, object, appendBlobs, holder>>

GcsDownload(c) ==
    /\ On("gcs", c, {"pinned"})
    /\ AfterGet(c, IF object[Target(c)] = call[c].read THEN call[c].read ELSE Absent)
    /\ UNCHANGED <<setup, object, appendBlobs, holder>>

GcsDelete(c) ==
    /\ On("gcs", c, {"delete"}) /\ DeleteObject(c)
    /\ UNCHANGED <<setup, appendBlobs, holder>>

GcsListKeys(c) ==
    /\ On("gcs", c, {"list"})
    /\ Listed(c) \/ \E n \in Number : Visit(c, n)

GcsDeleteKeys(c) ==
    /\ On("gcs", c, {"sweep"})
    /\ Swept(c) \/ \E n \in Number : Deleted(c, n)

GcsStep(c) ==
    \/ GcsPutIfAbsent(c) \/ GcsPut(c) \/ GcsGetObject(c) \/ GcsGetBlob(c) \/ GcsDownload(c)
    \/ GcsDelete(c) \/ GcsListKeys(c) \/ GcsDeleteKeys(c)

(***************************************************************************)
(* Azure.  A put makes a block blob.  Over an append blob it is an         *)
(* InvalidBlobType, and _put_replacing_blob_type deletes and recreates.    *)
(***************************************************************************)
Retyped(c) == appendBlobs' = appendBlobs \ {Target(c)}
IsAppendBlob(c) == Target(c) \in appendBlobs

AzurePutIfAbsent(c) ==
    /\ On("azure", c, {"create"})
    /\ Accepted(c) \/ (~Meets(c) /\ Turned(c))
    /\ UNCHANGED <<setup, appendBlobs, holder>>

AzurePut(c) ==
    /\ On("azure", c, {"put"})
    /\ \/ Meets(c) /\ IsAppendBlob(c) /\ Goto(c, "retype") /\ UNCHANGED object
       \/ ~IsAppendBlob(c) /\ Accepted(c)
       \/ ~Meets(c) /\ Turned(c)
    /\ UNCHANGED <<setup, appendBlobs, holder>>

AzureRetype(c) ==
    /\ On("azure", c, {"retype"})
    /\ \/ /\ Meets(c) /\ Store(c, Absent) /\ Retyped(c)
          /\ Goto(c, "recreate") \/ SendAgain(c, Target(c))
       \/ ~Meets(c) /\ Turned(c) /\ UNCHANGED appendBlobs
    /\ UNCHANGED <<setup, holder>>

\* Conditional: put-if-absent.  Unconditional: a new append blob in the way is
\* an error.
(* Mutant: recreated over what has appeared. *)
StillVacantMutant(c) == TRUE
StillVacant(c) == object[Target(c)] = Absent

AzureRecreate(c) ==
    /\ On("azure", c, {"recreate"})
    /\ IF Expected(c) = Any
       THEN IF IsAppendBlob(c)
            THEN Decide(c, Raised) /\ UNCHANGED object
            ELSE Store(c, New(c)) /\ (AfterPut(c, TRUE) \/ SendAgain(c, Target(c)))
       ELSE \/ /\ StillVacant(c) /\ Store(c, New(c))
               /\ AfterPut(c, TRUE) \/ SendAgain(c, Target(c))
            \/ ~StillVacant(c) /\ Turned(c)
    /\ UNCHANGED <<setup, appendBlobs, holder>>

\* append_block, sent again, appends again.  A block blob is left to the loop
\* of the base class.
AzureAppendBlock(c) ==
    /\ On("azure", c, {"append"})
    /\ \/ /\ object[Target(c)] = Absent
          /\ Goto(c, "createblob") /\ UNCHANGED object
       \/ /\ object[Target(c)] # Absent /\ IsAppendBlob(c)
          /\ Store(c, object[Target(c)] \o Data(c))
          /\ Decide(c, Written) \/ SendAgain(c, Target(c))
       \/ /\ object[Target(c)] # Absent /\ ~IsAppendBlob(c)
          /\ call' = [call EXCEPT ![c].tries = 0, ![c].pc = "get"]
          /\ UNCHANGED object
    /\ UNCHANGED <<setup, appendBlobs, holder>>

\* Twice; then the blob has vanished, a StorageError.
AzureCreateAppendBlob(c) ==
    /\ On("azure", c, {"createblob"})
    /\ IF object[Target(c)] = Absent
       THEN Store(c, <<>>) /\ appendBlobs' = appendBlobs \union {Target(c)}
       ELSE UNCHANGED <<object, appendBlobs>>
    /\ IF call[c].tries = 1
       THEN Decide(c, Raised)
       ELSE call' = [call EXCEPT ![c].tries = 1, ![c].pc = "append"]
    /\ UNCHANGED <<setup, holder>>

AzureGetObject(c) ==
    /\ On("azure", c, {"read"}) /\ Downloaded(c)
    /\ UNCHANGED <<setup, appendBlobs, holder>>

AzureGet(c) ==
    /\ On("azure", c, {"get"}) /\ Downloaded(c)
    /\ UNCHANGED <<setup, appendBlobs, holder>>

AzureDelete(c) ==
    /\ On("azure", c, {"delete"}) /\ DeleteObject(c) /\ Retyped(c)
    /\ UNCHANGED <<setup, holder>>

AzureListKeys(c) ==
    /\ On("azure", c, {"list"})
    /\ Listed(c) \/ \E n \in Number : Visit(c, n)

AzureDeleteKeys(c) ==
    /\ On("azure", c, {"sweep"})
    /\ Swept(c) \/ \E n \in Number : Deleted(c, n)

AzureStep(c) ==
    \/ AzurePutIfAbsent(c) \/ AzurePut(c) \/ AzureRetype(c) \/ AzureRecreate(c)
    \/ AzureAppendBlock(c) \/ AzureCreateAppendBlob(c) \/ AzureGetObject(c) \/ AzureGet(c)
    \/ AzureDelete(c) \/ AzureListKeys(c) \/ AzureDeleteKeys(c)
==============================================================================
