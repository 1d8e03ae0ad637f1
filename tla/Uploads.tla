-------------------------------- MODULE Uploads --------------------------------
(***************************************************************************)
(* Uploaded files.  The client puts a file under a staging key of the      *)
(* object store; a later call copies it to its final key, which no client  *)
(* can write, checks it and commits the record that points at it.  The     *)
(* store is no part of the transaction, and the kinds of files differ in   *)
(* the lock they hold meanwhile and in what they clean up:                 *)
(*    service   attachments of service requests (machines/service_storage) *)
(*    log       documents of maintenance logs (maintenance)                *)
(*    photo     evidence of direct loans and of returns (hardware_requests)*)
(*    document  machine documents, receipts and warranty documents         *)
(*    image     the one image of a bookable space (bookings)               *)
(* Uploads go by presigned PUT (STORAGE_PRESIGN_METHOD = "put").           *)
(***************************************************************************)
EXTENDS Integers, FiniteSets, FiniteSetsExt

CONSTANTS
    Files,        \* the files one client or another uploads
    UploadCalls,  \* concurrent calls of the API
    MaxBytes,     \* MaxBytes[k]: the largest size the records of a kind accept
    StorageLimit, \* the makerspace's limit for stored bytes
    NoFile        \* the file of a call that has none

UploadKinds == {"service", "log", "photo", "document", "image"}

UploadsAssumption ==
    /\ IsFiniteSet(Files) /\ NoFile \notin Files
    /\ MaxBytes \in [UploadKinds -> Nat \ {0}] /\ StorageLimit \in Nat
ASSUME UploadsAssumption

VARIABLES
    kind,      \* the kind of the files of this behaviour
    staging,   \* staging[f]: size of the object under the staging key, 0 for none
    final,     \* final[f]: size of the object under the final key, 0 for none
    file,      \* file[f]: "none" before its URL is asked for, then "staged",
               \* "attached" to a record, or "deleted"
    recorded,  \* recorded[f]: the size it was charged with
    used,      \* Makerspace.storage_bytes_used
    call,      \* call[c]: the file a call works on, where it is, the size it read
    torn       \* history: files two calls met on, or whose deletion was cut off

uploadVars == <<kind, staging, final, file, recorded, used, call, torn>>

ObjectSizes == 0 .. MaxBytes[kind] + 1
Accepted(size) == 1 <= size /\ size <= MaxBytes[kind]

\* UploadKinds whose calls hold a row lock from the first check to the commit.
RowLocked == {"log", "photo"}

\* UploadKinds that count against the limit (limits.add_storage).
Metered == UploadKinds \ {"document"}

UploadSteps == {"idle", "head", "source", "copy", "sweep", "recheck", "validate",
          "attach", "failed", "cleanup", "cleanup_staging", "dispose", "commit"}

NoCall == [file |-> NoFile, at |-> "idle", size |-> 0]

UploadsTypeOK ==
    /\ kind \in UploadKinds
    /\ staging \in [Files -> ObjectSizes] /\ final \in [Files -> ObjectSizes]
    /\ file \in [Files -> {"none", "staged", "attached", "deleted"}]
    /\ recorded \in [Files -> ObjectSizes]
    /\ used \in 0 .. StorageLimit
    /\ call \in [UploadCalls -> [file : Files \union {NoFile}, at : UploadSteps, size : ObjectSizes]]
    /\ torn \subseteq Files

UploadsInit ==
    /\ kind \in UploadKinds
    /\ staging = [f \in Files |-> 0] /\ final = [f \in Files |-> 0]
    /\ file \in [Files -> {"none", "staged"}]
    /\ recorded = [f \in Files |-> 0]
    /\ used = 0
    /\ call = [c \in UploadCalls |-> NoCall]
    /\ torn = {}

-----------------------------------------------------------------------------
Goto(c, step) == call' = [call EXCEPT ![c].at = step]
Leave(c) == call' = [call EXCEPT ![c] = NoCall]

GotoWith(c, step, size) == call' = [call EXCEPT ![c].at = step, ![c].size = size]

At(c, step) == call[c].at = step

\* A call is at work on f.
BusyWith(c, f) == call[c].file = f

fileRecords == <<kind, file, recorded, used, torn>>

\* delete_object swallows the errors of the store: the object may stay.
Deleted(objects, f) == {objects, [objects EXCEPT ![f] = 0]}

\* A transaction that deletes the record of f has not committed: it keeps the
\* row, and the key, to itself.
BeingDeleted(f) == \E c \in UploadCalls : BusyWith(c, f) /\ At(c, "commit")

\* A call starts on f.  The lock of a kind that has one keeps all others out.
Enter(c, f, step) ==
    /\ At(c, "idle")
    /\ kind \in RowLocked => \A d \in UploadCalls : At(d, "idle")
    /\ call' = [call EXCEPT ![c] = [file |-> f, at |-> step, size |-> 0]]
    /\ torn' = IF \E d \in UploadCalls : BusyWith(d, f) THEN torn \union {f} ELSE torn

\* Fault: the client's URL writes the final key.
PutInPlace(f) ==
    /\ file[f] # "none"
    /\ final' \in {[final EXCEPT ![f] = size] : size \in ObjectSizes \ {0}}
    /\ UNCHANGED <<kind, staging, file, recorded, used, call, torn>>

\* The client uses its URL, again and at any moment before it expires.
put(f) ==
    /\ file[f] # "none"
    /\ staging' \in {[staging EXCEPT ![f] = size] : size \in ObjectSizes \ {0}}
    /\ UNCHANGED <<kind, final, file, recorded, used, call, torn>>

\* A finalize call begins: the file is not attached yet, as far as it can see.
finalize(c, f) ==
    /\ file[f] = "staged"
    /\ Enter(c, f, "head")
    /\ UNCHANGED <<kind, staging, final, file, recorded, used>>

-----------------------------------------------------------------------------
\* finalize_upload, one request to the store per step.
head_final(c) ==
    LET f == call[c].file
    IN /\ At(c, "head")
       /\ \/ /\ final[f] # 0
             /\ staging' \in Deleted(staging, f)
             /\ GotoWith(c, "validate", final[f])
          \/ final[f] = 0 /\ Goto(c, "source") /\ UNCHANGED staging
       /\ UNCHANGED <<fileRecords, final>>

head_staging(c) ==
    /\ At(c, "source")
    /\ Goto(c, IF Accepted(staging[call[c].file]) THEN "copy" ELSE "failed")
    /\ UNCHANGED <<fileRecords, staging, final>>

copy_object(c) ==
    LET f == call[c].file
    IN /\ At(c, "copy")
       /\ \/ staging[f] = 0 /\ Goto(c, "failed") /\ UNCHANGED final
          \/ /\ staging[f] # 0
             /\ final' = [final EXCEPT ![f] = staging[f]]
             /\ Goto(c, "sweep")
       /\ UNCHANGED <<fileRecords, staging>>

delete_staging(c) ==
    /\ At(c, "sweep")
    /\ staging' \in Deleted(staging, call[c].file)
    /\ Goto(c, IF kind = "log" THEN "validate" ELSE "recheck")
    /\ UNCHANGED <<fileRecords, final>>

\* What was copied may be larger than what was measured.
recheck(c) ==
    LET f == call[c].file
    IN /\ At(c, "recheck")
       /\ \/ Accepted(final[f]) /\ GotoWith(c, "validate", final[f]) /\ UNCHANGED final
          \/ ~Accepted(final[f]) /\ Goto(c, "failed") /\ final' \in Deleted(final, f)
       /\ UNCHANGED <<fileRecords, staging>>

\* The size is read again, but for images; photos and images are charged with
\* the size read before.  The content may not be what its name says.
validate_object(c) ==
    LET now == final[call[c].file]
        size == IF kind \in {"photo", "image"} THEN call[c].size ELSE now
    IN /\ At(c, "validate")
       /\ \/ /\ now # 0 /\ (kind # "image" => Accepted(now))
             /\ Accepted(size)
             /\ GotoWith(c, "attach", size)
          \/ GotoWith(c, "failed", 0)
       /\ UNCHANGED <<fileRecords, staging, final>>

\* The store does not answer, the limit is reached or another check refuses.
refused(c) ==
    /\ call[c].at \in {"head", "source", "copy", "recheck", "validate", "attach"}
    /\ GotoWith(c, "failed", 0)
    /\ UNCHANGED <<fileRecords, staging, final>>

-----------------------------------------------------------------------------
AttachedFiles == {f \in Files : file[f] = "attached"}

\* add_storage; its limit is a guard of attach.
AddStorage(size) ==
    IF kind \in Metered THEN used + size ELSE used

\* Fault: a file that goes, or is replaced, stays charged.
StayCharged(bytes, size) == bytes

\* free_storage, never below zero.
FreeStorage(bytes, size) ==
    IF kind \in Metered THEN Max({bytes - size, 0}) ELSE bytes

\* The image a space has: the next one takes its place.
Former(f) == IF kind = "image" THEN AttachedFiles \ {f} ELSE {}

\* The second look at the row, under its lock.
Unattached(f) == file[f] = "staged"

\* The transaction that points a record at the file: it is still unattached
\* (a row lock, or the key being unique) and fits in the limit.  A new image
\* releases what the old one takes up now, so the old one must be there.
attach(c) ==
    LET f == call[c].file
        size == call[c].size
        old == Former(f)
    IN /\ At(c, "attach")
       /\ ~BeingDeleted(f)
       /\ Unattached(f)
       /\ AddStorage(size) <= StorageLimit
       /\ \A g \in old : final[g] # 0
       /\ file' = [g \in Files |-> IF g = f THEN "attached"
                                   ELSE IF g \in old THEN "staged" ELSE file[g]]
       /\ recorded' = [g \in Files |-> IF g = f THEN size
                                       ELSE IF g \in old THEN 0 ELSE recorded[g]]
       /\ \/ /\ old = {}
             /\ used' = AddStorage(size)
             /\ Leave(c)
          \/ \E g \in old :
                /\ used' = FreeStorage(AddStorage(size), final[g])
                /\ call' = [call EXCEPT ![c] = [file |-> g, at |-> "dispose", size |-> 0]]
       /\ UNCHANGED <<kind, staging, final, torn>>

\* What a failed call does about the objects.  A service attachment is left
\* alone once it is attached, by a look at the row that locks nothing; an
\* image is looked at and deleted under the lock of its space.
failed(c) ==
    LET f == call[c].file
    IN /\ At(c, "failed")
       /\ \/ /\ kind \in {"photo", "document"} \/ (kind = "service" /\ file[f] # "staged")
             /\ Leave(c)
             /\ UNCHANGED <<staging, final>>
          \/ /\ kind = "log" \/ (kind = "service" /\ file[f] = "staged")
             /\ Goto(c, "cleanup")
             /\ UNCHANGED <<staging, final>>
          \/ /\ kind = "image"
             /\ IF file[f] = "attached" THEN UNCHANGED final ELSE final' \in Deleted(final, f)
             /\ staging' \in Deleted(staging, f)
             /\ Leave(c)
       /\ UNCHANGED fileRecords

cleanup_upload(c) ==
    LET f == call[c].file
    IN /\ \/ /\ At(c, "cleanup")
             /\ final' \in Deleted(final, f)
             /\ Goto(c, "cleanup_staging")
             /\ UNCHANGED staging
          \/ /\ At(c, "cleanup_staging")
             /\ staging' \in Deleted(staging, f)
             /\ Leave(c)
             /\ UNCHANGED final
       /\ UNCHANGED fileRecords

\* An object goes once the record that pointed at it is committed away.
dispose(c) ==
    /\ At(c, "dispose")
    /\ final' \in Deleted(final, call[c].file)
    /\ Leave(c)
    /\ UNCHANGED <<fileRecords, staging>>

-----------------------------------------------------------------------------
\* Staff drop a service attachment before it is attached.
delete_staged_file(c, f) ==
    /\ kind = "service" /\ file[f] = "staged"
    /\ Enter(c, f, "cleanup")
    /\ file' = [file EXCEPT ![f] = "deleted"]
    /\ UNCHANGED <<kind, staging, final, recorded, used>>

\* delete_log_document and remove_document delete the object first and
\* commit afterwards.
delete_document(c, f) ==
    /\ kind \in {"log", "document"} /\ file[f] = "attached"
    /\ ~BeingDeleted(f)
    /\ Enter(c, f, "commit")
    /\ final' \in Deleted(final, f)
    /\ UNCHANGED <<kind, staging, file, recorded, used>>

delete_document_commit(c) ==
    LET f == call[c].file
    IN /\ At(c, "commit")
       /\ file' = [file EXCEPT ![f] = "staged"]
       /\ used' = FreeStorage(used, recorded[f])
       /\ recorded' = [recorded EXCEPT ![f] = 0]
       /\ Leave(c)
       /\ UNCHANGED <<kind, staging, final, torn>>

\* The image of a space goes, if the store still has it.
remove_space_image(c, f) ==
    /\ kind = "image" /\ file[f] = "attached" /\ final[f] # 0
    /\ Enter(c, f, "dispose")
    /\ file' = [file EXCEPT ![f] = "staged"]
    /\ used' = FreeStorage(used, final[f])
    /\ recorded' = [recorded EXCEPT ![f] = 0]
    /\ UNCHANGED <<kind, staging, final>>

\* The process of a call dies: its transaction is rolled back, its locks are
\* released, and what it did in the store stays done.
dies(c) ==
    /\ ~At(c, "idle")
    /\ Leave(c)
    /\ torn' = IF At(c, "commit") THEN torn \union {call[c].file} ELSE torn
    /\ UNCHANGED <<kind, staging, final, file, recorded, used>>

UploadsNext ==
    \/ \E f \in Files : put(f)
    \/ \E c \in UploadCalls, f \in Files :
          \/ finalize(c, f) \/ delete_staged_file(c, f)
          \/ delete_document(c, f) \/ remove_space_image(c, f)
    \/ \E c \in UploadCalls :
          \/ head_final(c) \/ head_staging(c) \/ copy_object(c) \/ delete_staging(c)
          \/ recheck(c) \/ validate_object(c) \/ refused(c) \/ attach(c) \/ failed(c)
          \/ cleanup_upload(c) \/ dispose(c) \/ delete_document_commit(c) \/ dies(c)

UploadsSpec == UploadsInit /\ [][UploadsNext]_uploadVars

-----------------------------------------------------------------------------
\* What a record points at is in the store as it was measured, within the
\* limit, whatever the client puts under the staging key meanwhile, wherever
\* calls fail or die and however often they are repeated: without exception
\* for photos, which are used under their row lock, and for the other kinds
\* unless two calls met on the file or a deletion died before its commit.
AttachedIsStored ==
    \A f \in AttachedFiles \ torn :
        ~BeingDeleted(f) => Accepted(final[f]) /\ final[f] = recorded[f]

\* The bytes of the records that count, one by one.
BytesCharged ==
    IF kind \in Metered THEN UNION {{f} \X (1..recorded[f]) : f \in Files} ELSE {}

\* The bytes a makerspace is charged with are those of the files attached to
\* its records, however calls race, fail and repeat; of images, whose size is
\* read again when they go, unless two calls met on one.
UsageExplained ==
    (kind = "image" => torn = {}) => used = Cardinality(BytesCharged)

\* machines/service_storage.py:224-225: "Refuse an already-attached file before
\* touching object storage so a retry or concurrent finalize can never delete
\* the live object a committed record points at."
ServiceFilesStay ==
    kind = "service" => \A f \in AttachedFiles : final[f] # 0
=============================================================================
