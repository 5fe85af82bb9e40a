------------------------------ MODULE FileStore ------------------------------
(***************************************************************************)
(* The life of a file across the three stores the backend writes without a *)
(* common transaction: the object in MinIO, its key in Vault, its row in   *)
(* PostgreSQL (backend/app/services/crypto_proxy.py, backend/app/api/      *)
(* files.py, backend/app/core/minio_client.py, vault_client.py).           *)
(*                                                                         *)
(* One step per remote effect.  A call that raises may or may not have had *)
(* its effect (an answer lost on the way), and the process may stop before *)
(* any step.  Requests here have passed the ownership and permission       *)
(* checks; FileApi composes both.                                          *)
(*                                                                         *)
(* Operators named Bad... are mistakes the code does not make; they show   *)
(* that the properties would notice them, and nothing else uses them.      *)
(***************************************************************************)
EXTENDS Naturals, FiniteSets

CONSTANTS
    Workers,   \* backend processes
    FileIds,   \* identifiers uuid4 may draw
    Sites      \* deployments to look at

ASSUME SitesAssumption == Sites \subseteq [cascade : BOOLEAN, failures : BOOLEAN]

VARIABLES
    site,       \* the deployment, which never changes: whether deleting a row
                \* deletes the permissions that refer to it (init-db.sql) or not
                \* (models/permission.py), and whether calls fail
    objects,    \* files with an object in MinIO
    keys,       \* files with a key under secret/file-keys in Vault
    rows,       \* files with a row in the files table
    shared,     \* files some row of the permissions table refers to
    audit,      \* blocks [action, file] in audit_logs
    job,        \* the request each worker serves
    drawn,      \* history: identifiers already drawn
    acked,      \* history: files whose upload was answered 200
    attempted   \* history: files whose object a delete has tried to remove

vars == <<site, objects, keys, rows, shared, audit, job, drawn, acked, attempted>>
stores == <<objects, keys, rows, shared, audit>>
history == <<drawn, acked, attempted>>

Cascade == site.cascade
Failures == site.failures

Idle == [pc |-> "idle"]
UploadPc == {"putObject", "storeKey", "cleanup", "insertRow", "auditUpload", "reply"}
DeletePc == {"deleteObject", "deleteKey", "deleteRow", "auditDelete"}
DownloadPc == {"fetch", "auditDownload"}
Job == {Idle} \cup [pc : UploadPc \cup DeletePc \cup DownloadPc, file : FileIds]
Action == {"FILE_UPLOADED", "FILE_DOWNLOADED", "FILE_DELETED"}

TypeOK ==
    /\ site \in Sites
    /\ objects \subseteq FileIds /\ keys \subseteq FileIds
    /\ rows \subseteq FileIds /\ shared \subseteq FileIds
    /\ audit \subseteq [action : Action, file : FileIds]
    /\ job \in [Workers -> Job]
    /\ drawn \subseteq FileIds /\ acked \subseteq FileIds /\ attempted \subseteq FileIds

Init ==
    /\ site \in Sites
    /\ objects = {} /\ keys = {} /\ rows = {} /\ shared = {} /\ audit = {}
    /\ job = [w \in Workers |-> Idle]
    /\ drawn = {} /\ acked = {} /\ attempted = {}

At(w, pc) == job[w].pc = pc
Start(w, pc, f) == job[w] = Idle /\ job' = [job EXCEPT ![w] = [pc |-> pc, file |-> f]]
Goto(w, pc) == job' = [job EXCEPT ![w].pc = pc]
\* The file of the request before stays behind.
BadEnd(w) == job' = [job EXCEPT ![w].pc = "idle"]

End(w) == job' = [job EXCEPT ![w] = Idle]
Log(a, f) == audit' = audit \cup {[action |-> a, file |-> f]}
-----------------------------------------------------------------------------
(* Upload: upload_encrypted_file *)

BeginUpload(w, f) ==
    /\ f \notin drawn
    /\ Start(w, "putObject", f)
    /\ drawn' = drawn \cup {f}
    /\ UNCHANGED <<stores, acked, attempted>>

PutObject(w) ==
    /\ At(w, "putObject")
    /\ \/ objects' = objects \cup {job[w].file} /\ Goto(w, "storeKey")
       \/ /\ Failures
          /\ objects' \in {objects, objects \cup {job[w].file}}
          /\ End(w)
    /\ UNCHANGED <<keys, rows, shared, audit, history>>

\* A failed key is logged and the upload goes on.
BadStoreKey(w) ==
    /\ At(w, "storeKey")
    /\ keys' \in {keys, keys \cup {job[w].file}}
    /\ Goto(w, "insertRow")
    /\ UNCHANGED <<objects, rows, shared, audit, history>>

\* transit/encrypt, then the POST to the KV store.
StoreKey(w) ==
    /\ At(w, "storeKey")
    /\ \/ keys' = keys \cup {job[w].file} /\ Goto(w, "insertRow")
       \/ /\ Failures
          /\ keys' \in {keys, keys \cup {job[w].file}}
          /\ Goto(w, "cleanup")
    /\ UNCHANGED <<objects, rows, shared, audit, history>>

\* The object is taken back when its key could not be stored.
Cleanup(w) ==
    /\ At(w, "cleanup")
    /\ objects' \in {objects \ {job[w].file}, objects}
    /\ End(w)
    /\ UNCHANGED <<keys, rows, shared, audit, history>>

\* db.add, db.commit.  Nothing is taken back when the commit fails.
InsertRow(w) ==
    /\ At(w, "insertRow")
    /\ \/ rows' = rows \cup {job[w].file} /\ Goto(w, "auditUpload")
       \/ /\ Failures
          /\ rows' \in {rows, rows \cup {job[w].file}}
          /\ End(w)
    /\ UNCHANGED <<objects, keys, shared, audit, history>>

\* create_block.  After a failed INSERT the session refuses to reload
\* file_record and the handler answers 500 although the upload is complete.
AuditUpload(w) ==
    /\ At(w, "auditUpload")
    /\ \/ Log("FILE_UPLOADED", job[w].file) /\ Goto(w, "reply")
       \/ Failures /\ UNCHANGED audit /\ (Goto(w, "reply") \/ End(w))
    /\ UNCHANGED <<objects, keys, rows, shared, history>>

Reply(w) ==
    /\ At(w, "reply")
    /\ acked' = acked \cup {job[w].file}
    /\ End(w)
    /\ UNCHANGED <<stores, drawn, attempted>>
-----------------------------------------------------------------------------
(* Delete: delete_file *)

BeginDelete(w, f) ==
    /\ f \in rows
    /\ Start(w, "deleteObject", f)
    /\ UNCHANGED <<stores, history>>

\* A failure is logged and the deletion goes on, as it does for the key.
BadDeleteObject(w) ==
    /\ At(w, "deleteObject")
    /\ attempted' = attempted \cup {job[w].file}
    /\ objects' \in {objects, objects \ {job[w].file}}
    /\ Goto(w, "deleteKey")
    /\ UNCHANGED <<keys, rows, shared, audit, drawn, acked>>

\* remove_object succeeds on an object that is already gone.
DeleteObject(w) ==
    /\ At(w, "deleteObject")
    /\ attempted' = attempted \cup {job[w].file}
    /\ \/ objects' = objects \ {job[w].file} /\ Goto(w, "deleteKey")
       \/ /\ Failures
          /\ objects' \in {objects, objects \ {job[w].file}}
          /\ End(w)
    /\ UNCHANGED <<keys, rows, shared, audit, drawn, acked>>

\* A failure here is logged and the deletion goes on.
DeleteKey(w) ==
    /\ At(w, "deleteKey")
    /\ \/ keys' = keys \ {job[w].file}
       \/ Failures /\ keys' = keys
    /\ Goto(w, "deleteRow")
    /\ UNCHANGED <<objects, rows, shared, audit, history>>

\* The refused DELETE swallowed; and a DELETE refused in any schema.
BadDeleteSwallow(w) ==
    /\ At(w, "deleteRow")
    /\ rows' \in {rows, rows \ {job[w].file}}
    /\ shared' = shared \cap rows'
    /\ Goto(w, "auditDelete")
    /\ UNCHANGED <<objects, keys, audit, history>>
BadDeleteRestrict(w) ==
    /\ At(w, "deleteRow")
    /\ IF job[w].file \in shared
         THEN rows' = rows /\ End(w)
         ELSE rows' = rows \ {job[w].file} /\ Goto(w, "auditDelete")
    /\ UNCHANGED <<objects, keys, shared, audit, history>>

\* db.delete, db.commit.  A permission row that refers to the file and does not
\* cascade refuses the DELETE (IntegrityError), after the object and key went.
DeleteRow(w) ==
    /\ At(w, "deleteRow")
    /\ \/ /\ job[w].file \in shared /\ ~Cascade
          /\ UNCHANGED <<rows, shared>>
          /\ End(w)
       \/ /\ job[w].file \notin shared \/ Cascade
          /\ rows' = rows \ {job[w].file}
          /\ shared' = shared \ {job[w].file}
          /\ Goto(w, "auditDelete")
       \/ /\ Failures
          /\ UNCHANGED <<rows, shared>>
          /\ End(w)
    /\ UNCHANGED <<objects, keys, audit, history>>

\* A schema whose audit_logs.file_id refers to files (init-db.sql) refuses a
\* block about a row that is gone; the refusal is logged.
AuditDelete(w) ==
    /\ At(w, "auditDelete")
    /\ \/ Log("FILE_DELETED", job[w].file)
       \/ UNCHANGED audit
    /\ End(w)
    /\ UNCHANGED <<objects, keys, rows, shared, history>>
-----------------------------------------------------------------------------
(* Download: download_file and download_encrypted_file *)

BeginDownload(w, f) ==
    /\ f \in rows
    /\ Start(w, "fetch", f)
    /\ UNCHANGED <<stores, history>>

\* The proxy asks for the right and looks for the row again.
Refuse(w) ==
    /\ At(w, "fetch")
    /\ End(w)
    /\ UNCHANGED <<stores, history>>

Fetch(w) ==
    /\ At(w, "fetch")
    /\ \/ job[w].file \in objects /\ Goto(w, "auditDownload")
       \/ (Failures \/ job[w].file \notin objects) /\ End(w)
    /\ UNCHANGED <<stores, history>>

\* The bytes are in memory and the block is all that is stored.  Reading the name
\* after the commit may still fail (the row is gone, the INSERT failed): a 500
\* instead of the bytes, which no store tells apart.
AuditDownload(w) ==
    /\ At(w, "auditDownload")
    /\ \/ Log("FILE_DOWNLOADED", job[w].file)
       \/ (Failures \/ job[w].file \notin rows) /\ UNCHANGED audit
    /\ End(w)
    /\ UNCHANGED <<objects, keys, rows, shared, history>>
-----------------------------------------------------------------------------
\* grant_permission commits a row that refers to the file.
Share(f) ==
    /\ f \in rows
    /\ shared' = shared \cup {f}
    /\ UNCHANGED <<objects, keys, rows, audit, job, history>>

\* The process is killed, or another exception ends the handler.
Abort(w) ==
    /\ Failures
    /\ job[w] # Idle
    /\ End(w)
    /\ UNCHANGED <<stores, history>>

Next ==
    /\ \/ \E w \in Workers :
            \/ \E f \in FileIds :
                 BeginUpload(w, f) \/ BeginDelete(w, f) \/ BeginDownload(w, f)
            \/ PutObject(w) \/ StoreKey(w) \/ Cleanup(w) \/ InsertRow(w)
            \/ AuditUpload(w) \/ Reply(w)
            \/ DeleteObject(w) \/ DeleteKey(w) \/ DeleteRow(w) \/ AuditDelete(w)
            \/ Refuse(w) \/ Fetch(w) \/ AuditDownload(w)
            \/ Abort(w)
       \/ \E f \in FileIds : Share(f)
    /\ UNCHANGED site

Spec == Init /\ [][Next]_vars
-----------------------------------------------------------------------------
(* Properties *)

\* An upload that was answered, or that left a row, survives every failure: as
\* long as no delete has tried to remove the object, the row, the object and
\* the key are all there.
UploadDurable ==
    /\ \A f \in rows \ attempted : f \in objects /\ f \in keys
    /\ \A f \in acked \ attempted : f \in rows

\* Deletion gives up the object before the key, so a file that can still be
\* downloaded never lacks its key, even after a half-done delete.
DownloadableHasKey == rows \cap objects \subseteq keys

\* A FILE_DELETED block is never written for content that can still be served:
\* the row and the object are gone for good, however many deletes and
\* downloads raced.
DeletedIsGone ==
    \A f \in FileIds : [action |-> "FILE_DELETED", file |-> f] \in audit =>
        f \notin rows /\ f \notin objects

\* No row without content outside a running deletion.
RowsHaveObjects ==
    \A f \in rows : (\A w \in Workers : job[w].pc \in DeletePc => job[w].file # f)
                      => f \in objects

\* Where nothing fails and permissions go with their file, racing deletions,
\* uploads and shares leave no listed file without content.
ListedHasObject == Cascade /\ ~Failures => RowsHaveObjects
-----------------------------------------------------------------------------
(* Refinement *)

\* What three stores, each changed at its own time, amount to for file f.
Phase(f) ==
    IF f \in rows
      THEN IF f \notin objects THEN "broken" ELSE IF f \in keys THEN "served" ELSE "unreadable"
      ELSE IF f \in attempted /\ f \notin objects THEN "gone" ELSE "new"

Lifecycle == INSTANCE FileLifecycle WITH
    Files <- FileIds, phase <- [f \in FileIds |-> Phase(f)],
    asked <- attempted, promised <- acked, trail <- audit

\* Although no transaction spans the stores and anything may fail between two of
\* them, a file only ever moves forward, from new to served, broken and gone: it
\* is never listed before its content and key are stored nor with content that
\* has lost its key, nothing but a delete breaks it, and it is acknowledged or
\* logged only in a phase that bears it out.  (UploadDurable, DownloadableHasKey
\* and DeletedIsGone follow.)
StoreIsLifecycle == Lifecycle!Spec
=============================================================================
