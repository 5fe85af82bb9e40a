--------------------------- MODULE FileStoreProofs ---------------------------
(***************************************************************************)
(* Theorems about FileStore, for any number of workers and files, in every *)
(* deployment, whatever fails.                                             *)
(***************************************************************************)
EXTENDS FileStore, TLAPS

BusyPc == UploadPc \cup DeletePc \cup DownloadPc

\* What Start, Goto and End have in common: w is at pc, with file f unless idle.
Moved(w, pc, f) ==
    /\ job' \in [Workers -> Job]
    /\ job'[w].pc = pc
    /\ pc # "idle" => job'[w].file = f
    /\ \A v \in Workers \ {w} : job'[v] = job[v]

LEMMA BusyJob ==
    ASSUME TypeOK, NEW w \in Workers, job[w].pc # "idle"
    PROVE  job[w] \in [pc : BusyPc, file : FileIds] /\ job[w].file \in FileIds
BY DEF TypeOK, Job, Idle, BusyPc

LEMMA GotoMoves ==
    ASSUME TypeOK, NEW w \in Workers, NEW pc \in BusyPc, job[w].pc # "idle", Goto(w, pc)
    PROVE  Moved(w, pc, job[w].file)
<1>1. job[w] \in [pc : BusyPc, file : FileIds]
  BY BusyJob
<1>2. [job[w] EXCEPT !.pc = pc] \in Job
  BY <1>1 DEF Job, BusyPc
<1>3. [job[w] EXCEPT !.pc = pc].pc = pc /\ [job[w] EXCEPT !.pc = pc].file = job[w].file
  BY <1>1
<1>4. job' = [job EXCEPT ![w] = [job[w] EXCEPT !.pc = pc]]
  BY DEF Goto
<1>5. QED
  BY <1>2, <1>3, <1>4 DEF Moved, TypeOK

LEMMA EndMoves ==
    ASSUME TypeOK, NEW w \in Workers, NEW f, End(w)
    PROVE  Moved(w, "idle", f)
BY DEF TypeOK, End, Moved, Idle, Job

LEMMA StartMoves ==
    ASSUME TypeOK, NEW w \in Workers, NEW pc \in BusyPc, NEW f \in FileIds, Start(w, pc, f)
    PROVE  job[w].pc = "idle" /\ Moved(w, pc, f)
<1>1. [pc |-> pc, file |-> f] \in Job
  BY DEF Job, BusyPc
<1>2. job[w].pc = "idle"
  BY DEF Start, Idle
<1>3. job' = [job EXCEPT ![w] = [pc |-> pc, file |-> f]]
  BY DEF Start
<1>4. QED
  BY <1>1, <1>2, <1>3 DEF TypeOK, Moved
-----------------------------------------------------------------------------
(* The inductive invariant *)

Early == {"putObject", "storeKey", "cleanup", "insertRow"}

\* Everything is about identifiers that were drawn.
KnownFiles ==
    /\ rows \subseteq drawn /\ acked \subseteq drawn /\ attempted \subseteq drawn
    /\ \A w \in Workers : job[w].pc # "idle" => job[w].file \in drawn

\* Until its row is inserted a file is known to its upload alone.
UploadIsAlone ==
    \A w \in Workers : job[w].pc \in Early =>
        /\ job[w].file \notin rows \cup attempted \cup acked
        /\ \A v \in Workers \ {w} : job[v].pc # "idle" => job[v].file # job[w].file

\* What an upload has stored is there, until a delete comes.
UploadKeepsPace ==
    \A w \in Workers :
        /\ job[w].pc \in {"storeKey", "insertRow"} => job[w].file \in objects
        /\ job[w].pc = "insertRow" => job[w].file \in keys
        /\ job[w].pc \in {"auditUpload", "reply"} => job[w].file \in rows \cup attempted

\* A delete that went past the object or the row has removed it for good.
DeleteKeepsPace ==
    \A w \in Workers :
        /\ job[w].pc \in {"deleteKey", "deleteRow", "auditDelete"} =>
             job[w].file \in attempted \ objects
        /\ job[w].pc = "auditDelete" => job[w].file \notin rows

DeletedWasAttempted ==
    \A f \in FileIds : [action |-> "FILE_DELETED", file |-> f] \in audit => f \in attempted

\* Where nothing can stop it, a delete that was begun is still at work or done.
DeleteIsAtWork ==
    Cascade /\ ~Failures =>
        \A f \in rows \cap attempted :
            \E w \in Workers : job[w].pc \in DeletePc /\ job[w].file = f

StoreInv ==
    /\ TypeOK
    /\ KnownFiles /\ UploadIsAlone /\ UploadKeepsPace /\ DeleteKeepsPace
    /\ DeletedWasAttempted /\ DeletedIsGone
    /\ UploadDurable /\ DownloadableHasKey
    /\ DeleteIsAtWork
-----------------------------------------------------------------------------
(* Every step keeps it *)

LEMMA PutObjectKeeps ==
    ASSUME StoreInv, site' = site, NEW w \in Workers, PutObject(w)
    PROVE  StoreInv'
<1>1. job[w].pc = "putObject" /\ job[w].file \in FileIds
  BY BusyJob DEF PutObject, At, StoreInv
<1>2. \/ Moved(w, "storeKey", job[w].file) /\ job[w].file \in objects'
      \/ Moved(w, "idle", job[w].file)
  BY <1>1, GotoMoves, EndMoves DEF PutObject, StoreInv, BusyPc, UploadPc, DeletePc,
                                   DownloadPc
<1>3. TypeOK'
  BY <1>1, <1>2 DEF PutObject, Moved, StoreInv, TypeOK, Action, Log, stores, history
<1>4. KnownFiles'
  BY <1>1, <1>2 DEF PutObject, Moved, StoreInv, KnownFiles, TypeOK, stores, history
<1>5. UploadIsAlone'
  BY <1>1, <1>2 DEF PutObject, Moved, StoreInv, UploadIsAlone, KnownFiles, Early,
                    stores, history
<1>6. UploadKeepsPace'
  BY <1>1, <1>2 DEF PutObject, Moved, StoreInv, UploadKeepsPace, UploadIsAlone, Early,
                    stores, history
<1>7. DeleteKeepsPace'
  BY <1>1, <1>2 DEF PutObject, Moved, StoreInv, DeleteKeepsPace, UploadIsAlone, Early,
                    stores, history
<1>8. DeletedWasAttempted'
  BY <1>1, <1>2 DEF PutObject, Moved, StoreInv, DeletedWasAttempted, DeleteKeepsPace,
                    Log, stores, history
<1>9. DeletedIsGone'
  BY <1>1, <1>2 DEF PutObject, Moved, StoreInv, DeletedIsGone, DeletedWasAttempted,
                    UploadIsAlone, DeleteKeepsPace, Early, Log, stores, history
<1>10. UploadDurable'
  BY <1>1, <1>2 DEF PutObject, Moved, StoreInv, UploadDurable, UploadIsAlone,
                    UploadKeepsPace, DeleteKeepsPace, Early, TypeOK, stores, history
<1>11. DownloadableHasKey'
  BY <1>1, <1>2 DEF PutObject, Moved, StoreInv, DownloadableHasKey, UploadIsAlone,
                    UploadKeepsPace, DeleteKeepsPace, Early, stores, history
<1>12. DeleteIsAtWork'
  BY <1>1, <1>2 DEF PutObject, Moved, StoreInv, DeleteIsAtWork, UploadIsAlone,
                    DeleteKeepsPace, Early, DeletePc, Cascade, Failures, stores,
                    history
<1> QED
  BY <1>3, <1>4, <1>5, <1>6, <1>7, <1>8, <1>9, <1>10, <1>11, <1>12 DEF StoreInv

LEMMA StoreKeyKeeps ==
    ASSUME StoreInv, site' = site, NEW w \in Workers, StoreKey(w)
    PROVE  StoreInv'
<1>1. job[w].pc = "storeKey" /\ job[w].file \in FileIds
  BY BusyJob DEF StoreKey, At, StoreInv
<1>2. \/ Moved(w, "insertRow", job[w].file) /\ job[w].file \in keys'
      \/ Moved(w, "cleanup", job[w].file)
  BY <1>1, GotoMoves, EndMoves DEF StoreKey, StoreInv, BusyPc, UploadPc, DeletePc,
                                   DownloadPc
<1>3. TypeOK'
  BY <1>1, <1>2 DEF StoreKey, Moved, StoreInv, TypeOK, Action, Log, stores, history
<1>4. KnownFiles'
  BY <1>1, <1>2 DEF StoreKey, Moved, StoreInv, KnownFiles, TypeOK, stores, history
<1>5. UploadIsAlone'
  BY <1>1, <1>2 DEF StoreKey, Moved, StoreInv, UploadIsAlone, KnownFiles, Early,
                    stores, history
<1>6. UploadKeepsPace'
  BY <1>1, <1>2 DEF StoreKey, Moved, StoreInv, UploadKeepsPace, UploadIsAlone, Early,
                    stores, history
<1>7. DeleteKeepsPace'
  BY <1>1, <1>2 DEF StoreKey, Moved, StoreInv, DeleteKeepsPace, UploadIsAlone, Early,
                    stores, history
<1>8. DeletedWasAttempted'
  BY <1>1, <1>2 DEF StoreKey, Moved, StoreInv, DeletedWasAttempted, DeleteKeepsPace,
                    Log, stores, history
<1>9. DeletedIsGone'
  BY <1>1, <1>2 DEF StoreKey, Moved, StoreInv, DeletedIsGone, DeletedWasAttempted,
                    UploadIsAlone, DeleteKeepsPace, Early, Log, stores, history
<1>10. UploadDurable'
  BY <1>1, <1>2 DEF StoreKey, Moved, StoreInv, UploadDurable, UploadIsAlone,
                    UploadKeepsPace, DeleteKeepsPace, Early, TypeOK, stores, history
<1>11. DownloadableHasKey'
  BY <1>1, <1>2 DEF StoreKey, Moved, StoreInv, DownloadableHasKey, UploadIsAlone,
                    UploadKeepsPace, DeleteKeepsPace, Early, stores, history
<1>12. DeleteIsAtWork'
  BY <1>1, <1>2 DEF StoreKey, Moved, StoreInv, DeleteIsAtWork, UploadIsAlone,
                    DeleteKeepsPace, Early, DeletePc, Cascade, Failures, stores,
                    history
<1> QED
  BY <1>3, <1>4, <1>5, <1>6, <1>7, <1>8, <1>9, <1>10, <1>11, <1>12 DEF StoreInv

LEMMA CleanupKeeps ==
    ASSUME StoreInv, site' = site, NEW w \in Workers, Cleanup(w)
    PROVE  StoreInv'
<1>1. job[w].pc = "cleanup" /\ job[w].file \in FileIds
  BY BusyJob DEF Cleanup, At, StoreInv
<1>2. Moved(w, "idle", job[w].file)
  BY <1>1, GotoMoves, EndMoves DEF Cleanup, StoreInv, BusyPc, UploadPc, DeletePc,
                                   DownloadPc
<1>3. TypeOK'
  BY <1>1, <1>2 DEF Cleanup, Moved, StoreInv, TypeOK, Action, Log, stores, history
<1>4. KnownFiles'
  BY <1>1, <1>2 DEF Cleanup, Moved, StoreInv, KnownFiles, TypeOK, stores, history
<1>5. UploadIsAlone'
  BY <1>1, <1>2 DEF Cleanup, Moved, StoreInv, UploadIsAlone, KnownFiles, Early,
                    stores, history
<1>6. UploadKeepsPace'
  BY <1>1, <1>2 DEF Cleanup, Moved, StoreInv, UploadKeepsPace, UploadIsAlone, Early,
                    stores, history
<1>7. DeleteKeepsPace'
  BY <1>1, <1>2 DEF Cleanup, Moved, StoreInv, DeleteKeepsPace, UploadIsAlone, Early,
                    stores, history
<1>8. DeletedWasAttempted'
  BY <1>1, <1>2 DEF Cleanup, Moved, StoreInv, DeletedWasAttempted, DeleteKeepsPace,
                    Log, stores, history
<1>9. DeletedIsGone'
  BY <1>1, <1>2 DEF Cleanup, Moved, StoreInv, DeletedIsGone, DeletedWasAttempted,
                    UploadIsAlone, DeleteKeepsPace, Early, Log, stores, history
<1>10. UploadDurable'
  BY <1>1, <1>2 DEF Cleanup, Moved, StoreInv, UploadDurable, UploadIsAlone,
                    UploadKeepsPace, DeleteKeepsPace, Early, TypeOK, stores, history
<1>11. DownloadableHasKey'
  BY <1>1, <1>2 DEF Cleanup, Moved, StoreInv, DownloadableHasKey, UploadIsAlone,
                    UploadKeepsPace, DeleteKeepsPace, Early, stores, history
<1>12. DeleteIsAtWork'
  BY <1>1, <1>2 DEF Cleanup, Moved, StoreInv, DeleteIsAtWork, UploadIsAlone,
                    DeleteKeepsPace, Early, DeletePc, Cascade, Failures, stores,
                    history
<1> QED
  BY <1>3, <1>4, <1>5, <1>6, <1>7, <1>8, <1>9, <1>10, <1>11, <1>12 DEF StoreInv

LEMMA InsertRowKeeps ==
    ASSUME StoreInv, site' = site, NEW w \in Workers, InsertRow(w)
    PROVE  StoreInv'
<1>1. job[w].pc = "insertRow" /\ job[w].file \in FileIds
  BY BusyJob DEF InsertRow, At, StoreInv
<1>2. \/ Moved(w, "auditUpload", job[w].file) /\ job[w].file \in rows'
      \/ Moved(w, "idle", job[w].file)
  BY <1>1, GotoMoves, EndMoves DEF InsertRow, StoreInv, BusyPc, UploadPc, DeletePc,
                                   DownloadPc
<1>3. TypeOK'
  BY <1>1, <1>2 DEF InsertRow, Moved, StoreInv, TypeOK, Action, Log, stores, history
<1>4. KnownFiles'
  BY <1>1, <1>2 DEF InsertRow, Moved, StoreInv, KnownFiles, TypeOK, stores, history
<1>5. UploadIsAlone'
  BY <1>1, <1>2 DEF InsertRow, Moved, StoreInv, UploadIsAlone, KnownFiles, Early,
                    stores, history
<1>6. UploadKeepsPace'
  BY <1>1, <1>2 DEF InsertRow, Moved, StoreInv, UploadKeepsPace, UploadIsAlone, Early,
                    stores, history
<1>7. DeleteKeepsPace'
  BY <1>1, <1>2 DEF InsertRow, Moved, StoreInv, DeleteKeepsPace, UploadIsAlone, Early,
                    stores, history
<1>8. DeletedWasAttempted'
  BY <1>1, <1>2 DEF InsertRow, Moved, StoreInv, DeletedWasAttempted, DeleteKeepsPace,
                    Log, stores, history
<1>9. DeletedIsGone'
  BY <1>1, <1>2 DEF InsertRow, Moved, StoreInv, DeletedIsGone, DeletedWasAttempted,
                    UploadIsAlone, DeleteKeepsPace, Early, Log, stores, history
<1>10. UploadDurable'
  BY <1>1, <1>2 DEF InsertRow, Moved, StoreInv, UploadDurable, UploadIsAlone,
                    UploadKeepsPace, DeleteKeepsPace, Early, TypeOK, stores, history
<1>11. DownloadableHasKey'
  BY <1>1, <1>2 DEF InsertRow, Moved, StoreInv, DownloadableHasKey, UploadIsAlone,
                    UploadKeepsPace, DeleteKeepsPace, Early, stores, history
<1>12. DeleteIsAtWork'
  BY <1>1, <1>2 DEF InsertRow, Moved, StoreInv, DeleteIsAtWork, UploadIsAlone,
                    DeleteKeepsPace, Early, DeletePc, Cascade, Failures, stores,
                    history
<1> QED
  BY <1>3, <1>4, <1>5, <1>6, <1>7, <1>8, <1>9, <1>10, <1>11, <1>12 DEF StoreInv

LEMMA AuditUploadKeeps ==
    ASSUME StoreInv, site' = site, NEW w \in Workers, AuditUpload(w)
    PROVE  StoreInv'
<1>1. job[w].pc = "auditUpload" /\ job[w].file \in FileIds
  BY BusyJob DEF AuditUpload, At, StoreInv
<1>2. \/ Moved(w, "reply", job[w].file)
      \/ Moved(w, "idle", job[w].file)
  BY <1>1, GotoMoves, EndMoves DEF AuditUpload, StoreInv, BusyPc, UploadPc, DeletePc,
                                   DownloadPc
<1>3. TypeOK'
  BY <1>1, <1>2 DEF AuditUpload, Moved, StoreInv, TypeOK, Action, Log, stores, history
<1>4. KnownFiles'
  BY <1>1, <1>2 DEF AuditUpload, Moved, StoreInv, KnownFiles, TypeOK, stores, history
<1>5. UploadIsAlone'
  BY <1>1, <1>2 DEF AuditUpload, Moved, StoreInv, UploadIsAlone, KnownFiles, Early,
                    stores, history
<1>6. UploadKeepsPace'
  BY <1>1, <1>2 DEF AuditUpload, Moved, StoreInv, UploadKeepsPace, UploadIsAlone,
                    Early, stores, history
<1>7. DeleteKeepsPace'
  BY <1>1, <1>2 DEF AuditUpload, Moved, StoreInv, DeleteKeepsPace, UploadIsAlone,
                    Early, stores, history
<1>8. DeletedWasAttempted'
  BY <1>1, <1>2 DEF AuditUpload, Moved, StoreInv, DeletedWasAttempted,
                    DeleteKeepsPace, Log, stores, history
<1>9. DeletedIsGone'
  BY <1>1, <1>2 DEF AuditUpload, Moved, StoreInv, DeletedIsGone, DeletedWasAttempted,
                    UploadIsAlone, DeleteKeepsPace, Early, Log, stores, history
<1>10. UploadDurable'
  BY <1>1, <1>2 DEF AuditUpload, Moved, StoreInv, UploadDurable, UploadIsAlone,
                    UploadKeepsPace, DeleteKeepsPace, Early, TypeOK, stores, history
<1>11. DownloadableHasKey'
  BY <1>1, <1>2 DEF AuditUpload, Moved, StoreInv, DownloadableHasKey, UploadIsAlone,
                    UploadKeepsPace, DeleteKeepsPace, Early, stores, history
<1>12. DeleteIsAtWork'
  BY <1>1, <1>2 DEF AuditUpload, Moved, StoreInv, DeleteIsAtWork, UploadIsAlone,
                    DeleteKeepsPace, Early, DeletePc, Cascade, Failures, stores,
                    history
<1> QED
  BY <1>3, <1>4, <1>5, <1>6, <1>7, <1>8, <1>9, <1>10, <1>11, <1>12 DEF StoreInv

LEMMA ReplyKeeps ==
    ASSUME StoreInv, site' = site, NEW w \in Workers, Reply(w)
    PROVE  StoreInv'
<1>1. job[w].pc = "reply" /\ job[w].file \in FileIds
  BY BusyJob DEF Reply, At, StoreInv
<1>2. Moved(w, "idle", job[w].file)
  BY <1>1, GotoMoves, EndMoves DEF Reply, StoreInv, BusyPc, UploadPc, DeletePc,
                                   DownloadPc
<1>3. TypeOK'
  BY <1>1, <1>2 DEF Reply, Moved, StoreInv, TypeOK, Action, Log, stores, history
<1>4. KnownFiles'
  BY <1>1, <1>2 DEF Reply, Moved, StoreInv, KnownFiles, TypeOK, stores, history
<1>5. UploadIsAlone'
  BY <1>1, <1>2 DEF Reply, Moved, StoreInv, UploadIsAlone, KnownFiles, Early, stores,
                    history
<1>6. UploadKeepsPace'
  BY <1>1, <1>2 DEF Reply, Moved, StoreInv, UploadKeepsPace, UploadIsAlone, Early,
                    stores, history
<1>7. DeleteKeepsPace'
  BY <1>1, <1>2 DEF Reply, Moved, StoreInv, DeleteKeepsPace, UploadIsAlone, Early,
                    stores, history
<1>8. DeletedWasAttempted'
  BY <1>1, <1>2 DEF Reply, Moved, StoreInv, DeletedWasAttempted, DeleteKeepsPace, Log,
                    stores, history
<1>9. DeletedIsGone'
  BY <1>1, <1>2 DEF Reply, Moved, StoreInv, DeletedIsGone, DeletedWasAttempted,
                    UploadIsAlone, DeleteKeepsPace, Early, Log, stores, history
<1>10. UploadDurable'
  BY <1>1, <1>2 DEF Reply, Moved, StoreInv, UploadDurable, UploadIsAlone,
                    UploadKeepsPace, DeleteKeepsPace, Early, TypeOK, stores, history
<1>11. DownloadableHasKey'
  BY <1>1, <1>2 DEF Reply, Moved, StoreInv, DownloadableHasKey, UploadIsAlone,
                    UploadKeepsPace, DeleteKeepsPace, Early, stores, history
<1>12. DeleteIsAtWork'
  BY <1>1, <1>2 DEF Reply, Moved, StoreInv, DeleteIsAtWork, UploadIsAlone,
                    DeleteKeepsPace, Early, DeletePc, Cascade, Failures, stores,
                    history
<1> QED
  BY <1>3, <1>4, <1>5, <1>6, <1>7, <1>8, <1>9, <1>10, <1>11, <1>12 DEF StoreInv

LEMMA DeleteObjectKeeps ==
    ASSUME StoreInv, site' = site, NEW w \in Workers, DeleteObject(w)
    PROVE  StoreInv'
<1>1. job[w].pc = "deleteObject" /\ job[w].file \in FileIds
  BY BusyJob DEF DeleteObject, At, StoreInv
<1>2. \/ Moved(w, "deleteKey", job[w].file) /\ job[w].file \notin objects'
      \/ Moved(w, "idle", job[w].file) /\ Failures
  BY <1>1, GotoMoves, EndMoves DEF DeleteObject, StoreInv, BusyPc, UploadPc, DeletePc,
                                   DownloadPc
<1>3. TypeOK'
  BY <1>1, <1>2 DEF DeleteObject, Moved, StoreInv, TypeOK, Action, Log, stores, history
<1>4. KnownFiles'
  BY <1>1, <1>2 DEF DeleteObject, Moved, StoreInv, KnownFiles, TypeOK, stores, history
<1>5. UploadIsAlone'
  BY <1>1, <1>2 DEF DeleteObject, Moved, StoreInv, UploadIsAlone, KnownFiles, Early,
                    stores, history
<1>6. UploadKeepsPace'
  BY <1>1, <1>2 DEF DeleteObject, Moved, StoreInv, UploadKeepsPace, UploadIsAlone,
                    Early, stores, history
<1>7. DeleteKeepsPace'
  BY <1>1, <1>2 DEF DeleteObject, Moved, StoreInv, DeleteKeepsPace, UploadIsAlone,
                    Early, stores, history
<1>8. DeletedWasAttempted'
  BY <1>1, <1>2 DEF DeleteObject, Moved, StoreInv, DeletedWasAttempted,
                    DeleteKeepsPace, Log, stores, history
<1>9. DeletedIsGone'
  BY <1>1, <1>2 DEF DeleteObject, Moved, StoreInv, DeletedIsGone, DeletedWasAttempted,
                    UploadIsAlone, DeleteKeepsPace, Early, Log, stores, history
<1>10. UploadDurable'
  BY <1>1, <1>2 DEF DeleteObject, Moved, StoreInv, UploadDurable, UploadIsAlone,
                    UploadKeepsPace, DeleteKeepsPace, Early, TypeOK, stores, history
<1>11. DownloadableHasKey'
  BY <1>1, <1>2 DEF DeleteObject, Moved, StoreInv, DownloadableHasKey, UploadIsAlone,
                    UploadKeepsPace, DeleteKeepsPace, Early, stores, history
<1>12. DeleteIsAtWork'
  BY <1>1, <1>2 DEF DeleteObject, Moved, StoreInv, DeleteIsAtWork, UploadIsAlone,
                    DeleteKeepsPace, Early, DeletePc, Cascade, Failures, stores,
                    history
<1> QED
  BY <1>3, <1>4, <1>5, <1>6, <1>7, <1>8, <1>9, <1>10, <1>11, <1>12 DEF StoreInv

LEMMA DeleteKeyKeeps ==
    ASSUME StoreInv, site' = site, NEW w \in Workers, DeleteKey(w)
    PROVE  StoreInv'
<1>1. job[w].pc = "deleteKey" /\ job[w].file \in FileIds
  BY BusyJob DEF DeleteKey, At, StoreInv
<1>2. Moved(w, "deleteRow", job[w].file)
  BY <1>1, GotoMoves, EndMoves DEF DeleteKey, StoreInv, BusyPc, UploadPc, DeletePc,
                                   DownloadPc
<1>3. TypeOK'
  BY <1>1, <1>2 DEF DeleteKey, Moved, StoreInv, TypeOK, Action, Log, stores, history
<1>4. KnownFiles'
  BY <1>1, <1>2 DEF DeleteKey, Moved, StoreInv, KnownFiles, TypeOK, stores, history
<1>5. UploadIsAlone'
  BY <1>1, <1>2 DEF DeleteKey, Moved, StoreInv, UploadIsAlone, KnownFiles, Early,
                    stores, history
<1>6. UploadKeepsPace'
  BY <1>1, <1>2 DEF DeleteKey, Moved, StoreInv, UploadKeepsPace, UploadIsAlone, Early,
                    stores, history
<1>7. DeleteKeepsPace'
  BY <1>1, <1>2 DEF DeleteKey, Moved, StoreInv, DeleteKeepsPace, UploadIsAlone, Early,
                    stores, history
<1>8. DeletedWasAttempted'
  BY <1>1, <1>2 DEF DeleteKey, Moved, StoreInv, DeletedWasAttempted, DeleteKeepsPace,
                    Log, stores, history
<1>9. DeletedIsGone'
  BY <1>1, <1>2 DEF DeleteKey, Moved, StoreInv, DeletedIsGone, DeletedWasAttempted,
                    UploadIsAlone, DeleteKeepsPace, Early, Log, stores, history
<1>10. UploadDurable'
  BY <1>1, <1>2 DEF DeleteKey, Moved, StoreInv, UploadDurable, UploadIsAlone,
                    UploadKeepsPace, DeleteKeepsPace, Early, TypeOK, stores, history
<1>11. DownloadableHasKey'
  BY <1>1, <1>2 DEF DeleteKey, Moved, StoreInv, DownloadableHasKey, UploadIsAlone,
                    UploadKeepsPace, DeleteKeepsPace, Early, stores, history
<1>12. DeleteIsAtWork'
  BY <1>1, <1>2 DEF DeleteKey, Moved, StoreInv, DeleteIsAtWork, UploadIsAlone,
                    DeleteKeepsPace, Early, DeletePc, Cascade, Failures, stores,
                    history
<1> QED
  BY <1>3, <1>4, <1>5, <1>6, <1>7, <1>8, <1>9, <1>10, <1>11, <1>12 DEF StoreInv

LEMMA DeleteRowKeeps ==
    ASSUME StoreInv, site' = site, NEW w \in Workers, DeleteRow(w)
    PROVE  StoreInv'
<1>1. job[w].pc = "deleteRow" /\ job[w].file \in FileIds
  BY BusyJob DEF DeleteRow, At, StoreInv
<1>2. \/ Moved(w, "auditDelete", job[w].file) /\ job[w].file \notin rows'
      \/ Moved(w, "idle", job[w].file) /\ (Failures \/ ~Cascade)
  BY <1>1, GotoMoves, EndMoves DEF DeleteRow, StoreInv, BusyPc, UploadPc, DeletePc,
                                   DownloadPc
<1>3. TypeOK'
  BY <1>1, <1>2 DEF DeleteRow, Moved, StoreInv, TypeOK, Action, Log, stores, history
<1>4. KnownFiles'
  BY <1>1, <1>2 DEF DeleteRow, Moved, StoreInv, KnownFiles, TypeOK, stores, history
<1>5. UploadIsAlone'
  BY <1>1, <1>2 DEF DeleteRow, Moved, StoreInv, UploadIsAlone, KnownFiles, Early,
                    stores, history
<1>6. UploadKeepsPace'
  BY <1>1, <1>2 DEF DeleteRow, Moved, StoreInv, UploadKeepsPace, UploadIsAlone,
                    DeleteKeepsPace, Early, stores, history
<1>7. DeleteKeepsPace'
  BY <1>1, <1>2 DEF DeleteRow, Moved, StoreInv, DeleteKeepsPace, UploadIsAlone, Early,
                    stores, history
<1>8. DeletedWasAttempted'
  BY <1>1, <1>2 DEF DeleteRow, Moved, StoreInv, DeletedWasAttempted, DeleteKeepsPace,
                    Log, stores, history
<1>9. DeletedIsGone'
  BY <1>1, <1>2 DEF DeleteRow, Moved, StoreInv, DeletedIsGone, DeletedWasAttempted,
                    UploadIsAlone, DeleteKeepsPace, Early, Log, stores, history
<1>10. UploadDurable'
  BY <1>1, <1>2 DEF DeleteRow, Moved, StoreInv, UploadDurable, UploadIsAlone,
                    UploadKeepsPace, DeleteKeepsPace, Early, TypeOK, stores, history
<1>11. DownloadableHasKey'
  BY <1>1, <1>2 DEF DeleteRow, Moved, StoreInv, DownloadableHasKey, UploadIsAlone,
                    UploadKeepsPace, DeleteKeepsPace, Early, stores, history
<1>12. DeleteIsAtWork'
  BY <1>1, <1>2 DEF DeleteRow, Moved, StoreInv, DeleteIsAtWork, UploadIsAlone,
                    DeleteKeepsPace, Early, DeletePc, Cascade, Failures, stores,
                    history
<1> QED
  BY <1>3, <1>4, <1>5, <1>6, <1>7, <1>8, <1>9, <1>10, <1>11, <1>12 DEF StoreInv

LEMMA AuditDeleteKeeps ==
    ASSUME StoreInv, site' = site, NEW w \in Workers, AuditDelete(w)
    PROVE  StoreInv'
<1>1. job[w].pc = "auditDelete" /\ job[w].file \in FileIds
  BY BusyJob DEF AuditDelete, At, StoreInv
<1>2. Moved(w, "idle", job[w].file)
  BY <1>1, GotoMoves, EndMoves DEF AuditDelete, StoreInv, BusyPc, UploadPc, DeletePc,
                                   DownloadPc
<1>3. TypeOK'
  BY <1>1, <1>2 DEF AuditDelete, Moved, StoreInv, TypeOK, Action, Log, stores, history
<1>4. KnownFiles'
  BY <1>1, <1>2 DEF AuditDelete, Moved, StoreInv, KnownFiles, TypeOK, stores, history
<1>5. UploadIsAlone'
  BY <1>1, <1>2 DEF AuditDelete, Moved, StoreInv, UploadIsAlone, KnownFiles, Early,
                    stores, history
<1>6. UploadKeepsPace'
  BY <1>1, <1>2 DEF AuditDelete, Moved, StoreInv, UploadKeepsPace, UploadIsAlone,
                    Early, stores, history
<1>7. DeleteKeepsPace'
  BY <1>1, <1>2 DEF AuditDelete, Moved, StoreInv, DeleteKeepsPace, UploadIsAlone,
                    Early, stores, history
<1>8. DeletedWasAttempted'
  BY <1>1, <1>2 DEF AuditDelete, Moved, StoreInv, DeletedWasAttempted,
                    DeleteKeepsPace, Log, stores, history
<1>9. DeletedIsGone'
  BY <1>1, <1>2 DEF AuditDelete, Moved, StoreInv, DeletedIsGone, DeletedWasAttempted,
                    UploadIsAlone, DeleteKeepsPace, Early, Log, stores, history
<1>10. UploadDurable'
  BY <1>1, <1>2 DEF AuditDelete, Moved, StoreInv, UploadDurable, UploadIsAlone,
                    UploadKeepsPace, DeleteKeepsPace, Early, TypeOK, stores, history
<1>11. DownloadableHasKey'
  BY <1>1, <1>2 DEF AuditDelete, Moved, StoreInv, DownloadableHasKey, UploadIsAlone,
                    UploadKeepsPace, DeleteKeepsPace, Early, stores, history
<1>12. DeleteIsAtWork'
  BY <1>1, <1>2 DEF AuditDelete, Moved, StoreInv, DeleteIsAtWork, UploadIsAlone,
                    DeleteKeepsPace, Early, DeletePc, Cascade, Failures, stores,
                    history
<1> QED
  BY <1>3, <1>4, <1>5, <1>6, <1>7, <1>8, <1>9, <1>10, <1>11, <1>12 DEF StoreInv

LEMMA RefuseKeeps ==
    ASSUME StoreInv, site' = site, NEW w \in Workers, Refuse(w)
    PROVE  StoreInv'
<1>1. job[w].pc = "fetch" /\ job[w].file \in FileIds
  BY BusyJob DEF Refuse, At, StoreInv
<1>2. Moved(w, "idle", job[w].file)
  BY <1>1, GotoMoves, EndMoves DEF Refuse, StoreInv, BusyPc, UploadPc, DeletePc,
                                   DownloadPc
<1>3. TypeOK'
  BY <1>1, <1>2 DEF Refuse, Moved, StoreInv, TypeOK, Action, Log, stores, history
<1>4. KnownFiles'
  BY <1>1, <1>2 DEF Refuse, Moved, StoreInv, KnownFiles, TypeOK, stores, history
<1>5. UploadIsAlone'
  BY <1>1, <1>2 DEF Refuse, Moved, StoreInv, UploadIsAlone, KnownFiles, Early, stores,
                    history
<1>6. UploadKeepsPace'
  BY <1>1, <1>2 DEF Refuse, Moved, StoreInv, UploadKeepsPace, UploadIsAlone, Early,
                    stores, history
<1>7. DeleteKeepsPace'
  BY <1>1, <1>2 DEF Refuse, Moved, StoreInv, DeleteKeepsPace, UploadIsAlone, Early,
                    stores, history
<1>8. DeletedWasAttempted'
  BY <1>1, <1>2 DEF Refuse, Moved, StoreInv, DeletedWasAttempted, DeleteKeepsPace, Log,
                    stores, history
<1>9. DeletedIsGone'
  BY <1>1, <1>2 DEF Refuse, Moved, StoreInv, DeletedIsGone, DeletedWasAttempted,
                    UploadIsAlone, DeleteKeepsPace, Early, Log, stores, history
<1>10. UploadDurable'
  BY <1>1, <1>2 DEF Refuse, Moved, StoreInv, UploadDurable, UploadIsAlone,
                    UploadKeepsPace, DeleteKeepsPace, Early, TypeOK, stores, history
<1>11. DownloadableHasKey'
  BY <1>1, <1>2 DEF Refuse, Moved, StoreInv, DownloadableHasKey, UploadIsAlone,
                    UploadKeepsPace, DeleteKeepsPace, Early, stores, history
<1>12. DeleteIsAtWork'
  BY <1>1, <1>2 DEF Refuse, Moved, StoreInv, DeleteIsAtWork, UploadIsAlone,
                    DeleteKeepsPace, Early, DeletePc, Cascade, Failures, stores,
                    history
<1> QED
  BY <1>3, <1>4, <1>5, <1>6, <1>7, <1>8, <1>9, <1>10, <1>11, <1>12 DEF StoreInv

LEMMA FetchKeeps ==
    ASSUME StoreInv, site' = site, NEW w \in Workers, Fetch(w)
    PROVE  StoreInv'
<1>1. job[w].pc = "fetch" /\ job[w].file \in FileIds
  BY BusyJob DEF Fetch, At, StoreInv
<1>2. \/ Moved(w, "auditDownload", job[w].file)
      \/ Moved(w, "idle", job[w].file)
  BY <1>1, GotoMoves, EndMoves DEF Fetch, StoreInv, BusyPc, UploadPc, DeletePc,
                                   DownloadPc
<1>3. TypeOK'
  BY <1>1, <1>2 DEF Fetch, Moved, StoreInv, TypeOK, Action, Log, stores, history
<1>4. KnownFiles'
  BY <1>1, <1>2 DEF Fetch, Moved, StoreInv, KnownFiles, TypeOK, stores, history
<1>5. UploadIsAlone'
  BY <1>1, <1>2 DEF Fetch, Moved, StoreInv, UploadIsAlone, KnownFiles, Early, stores,
                    history
<1>6. UploadKeepsPace'
  BY <1>1, <1>2 DEF Fetch, Moved, StoreInv, UploadKeepsPace, UploadIsAlone, Early,
                    stores, history
<1>7. DeleteKeepsPace'
  BY <1>1, <1>2 DEF Fetch, Moved, StoreInv, DeleteKeepsPace, UploadIsAlone, Early,
                    stores, history
<1>8. DeletedWasAttempted'
  BY <1>1, <1>2 DEF Fetch, Moved, StoreInv, DeletedWasAttempted, DeleteKeepsPace, Log,
                    stores, history
<1>9. DeletedIsGone'
  BY <1>1, <1>2 DEF Fetch, Moved, StoreInv, DeletedIsGone, DeletedWasAttempted,
                    UploadIsAlone, DeleteKeepsPace, Early, Log, stores, history
<1>10. UploadDurable'
  BY <1>1, <1>2 DEF Fetch, Moved, StoreInv, UploadDurable, UploadIsAlone,
                    UploadKeepsPace, DeleteKeepsPace, Early, TypeOK, stores, history
<1>11. DownloadableHasKey'
  BY <1>1, <1>2 DEF Fetch, Moved, StoreInv, DownloadableHasKey, UploadIsAlone,
                    UploadKeepsPace, DeleteKeepsPace, Early, stores, history
<1>12. DeleteIsAtWork'
  BY <1>1, <1>2 DEF Fetch, Moved, StoreInv, DeleteIsAtWork, UploadIsAlone,
                    DeleteKeepsPace, Early, DeletePc, Cascade, Failures, stores,
                    history
<1> QED
  BY <1>3, <1>4, <1>5, <1>6, <1>7, <1>8, <1>9, <1>10, <1>11, <1>12 DEF StoreInv

LEMMA AuditDownloadKeeps ==
    ASSUME StoreInv, site' = site, NEW w \in Workers, AuditDownload(w)
    PROVE  StoreInv'
<1>1. job[w].pc = "auditDownload" /\ job[w].file \in FileIds
  BY BusyJob DEF AuditDownload, At, StoreInv
<1>2. Moved(w, "idle", job[w].file)
  BY <1>1, GotoMoves, EndMoves DEF AuditDownload, StoreInv, BusyPc, UploadPc,
                                   DeletePc, DownloadPc
<1>3. TypeOK'
  BY <1>1, <1>2 DEF AuditDownload, Moved, StoreInv, TypeOK, Action, Log, stores, history
<1>4. KnownFiles'
  BY <1>1, <1>2 DEF AuditDownload, Moved, StoreInv, KnownFiles, TypeOK, stores, history
<1>5. UploadIsAlone'
  BY <1>1, <1>2 DEF AuditDownload, Moved, StoreInv, UploadIsAlone, KnownFiles, Early,
                    stores, history
<1>6. UploadKeepsPace'
  BY <1>1, <1>2 DEF AuditDownload, Moved, StoreInv, UploadKeepsPace, UploadIsAlone,
                    Early, stores, history
<1>7. DeleteKeepsPace'
  BY <1>1, <1>2 DEF AuditDownload, Moved, StoreInv, DeleteKeepsPace, UploadIsAlone,
                    Early, stores, history
<1>8. DeletedWasAttempted'
  BY <1>1, <1>2 DEF AuditDownload, Moved, StoreInv, DeletedWasAttempted,
                    DeleteKeepsPace, Log, stores, history
<1>9. DeletedIsGone'
  BY <1>1, <1>2 DEF AuditDownload, Moved, StoreInv, DeletedIsGone,
                    DeletedWasAttempted, UploadIsAlone, DeleteKeepsPace, Early, Log,
                    stores, history
<1>10. UploadDurable'
  BY <1>1, <1>2 DEF AuditDownload, Moved, StoreInv, UploadDurable, UploadIsAlone,
                    UploadKeepsPace, DeleteKeepsPace, Early, TypeOK, stores, history
<1>11. DownloadableHasKey'
  BY <1>1, <1>2 DEF AuditDownload, Moved, StoreInv, DownloadableHasKey, UploadIsAlone,
                    UploadKeepsPace, DeleteKeepsPace, Early, stores, history
<1>12. DeleteIsAtWork'
  BY <1>1, <1>2 DEF AuditDownload, Moved, StoreInv, DeleteIsAtWork, UploadIsAlone,
                    DeleteKeepsPace, Early, DeletePc, Cascade, Failures, stores,
                    history
<1> QED
  BY <1>3, <1>4, <1>5, <1>6, <1>7, <1>8, <1>9, <1>10, <1>11, <1>12 DEF StoreInv

LEMMA BeginUploadKeeps ==
    ASSUME StoreInv, site' = site, NEW w \in Workers, NEW f \in FileIds, BeginUpload(w, f)
    PROVE  StoreInv'
<1>1. job[w].pc = "idle" /\ Moved(w, "putObject", f)
  <2>1. "putObject" \in BusyPc
    BY DEF BusyPc, UploadPc, DeletePc, DownloadPc
  <2>2. TypeOK /\ Start(w, "putObject", f)
    BY DEF BeginUpload, StoreInv
  <2>3. QED
    BY <2>1, <2>2, StartMoves
<1>2. TypeOK'
  BY <1>1 DEF BeginUpload, Moved, StoreInv, TypeOK, Action, Log, stores, history
<1>3. KnownFiles'
  BY <1>1 DEF BeginUpload, Moved, StoreInv, KnownFiles, TypeOK, stores, history
<1>4. UploadIsAlone'
  BY <1>1 DEF BeginUpload, Moved, StoreInv, UploadIsAlone, KnownFiles, Early, stores,
              history
<1>5. UploadKeepsPace'
  BY <1>1 DEF BeginUpload, Moved, StoreInv, UploadKeepsPace, UploadIsAlone, Early,
              stores, history
<1>6. DeleteKeepsPace'
  BY <1>1 DEF BeginUpload, Moved, StoreInv, DeleteKeepsPace, UploadIsAlone, Early,
              stores, history
<1>7. DeletedWasAttempted'
  BY <1>1 DEF BeginUpload, Moved, StoreInv, DeletedWasAttempted, DeleteKeepsPace, Log,
              stores, history
<1>8. DeletedIsGone'
  BY <1>1 DEF BeginUpload, Moved, StoreInv, DeletedIsGone, DeletedWasAttempted,
              UploadIsAlone, DeleteKeepsPace, Early, Log, stores, history
<1>9. UploadDurable'
  BY <1>1 DEF BeginUpload, Moved, StoreInv, UploadDurable, UploadIsAlone,
              UploadKeepsPace, DeleteKeepsPace, Early, TypeOK, stores, history
<1>10. DownloadableHasKey'
  BY <1>1 DEF BeginUpload, Moved, StoreInv, DownloadableHasKey, UploadIsAlone,
              UploadKeepsPace, DeleteKeepsPace, Early, stores, history
<1>11. DeleteIsAtWork'
  BY <1>1 DEF BeginUpload, Moved, StoreInv, DeleteIsAtWork, UploadIsAlone,
              DeleteKeepsPace, Early, DeletePc, Cascade, Failures, stores, history
<1> QED
  BY <1>2, <1>3, <1>4, <1>5, <1>6, <1>7, <1>8, <1>9, <1>10, <1>11 DEF StoreInv

LEMMA BeginDeleteKeeps ==
    ASSUME StoreInv, site' = site, NEW w \in Workers, NEW f \in FileIds, BeginDelete(w, f)
    PROVE  StoreInv'
<1>1. job[w].pc = "idle" /\ Moved(w, "deleteObject", f)
  <2>1. "deleteObject" \in BusyPc
    BY DEF BusyPc, UploadPc, DeletePc, DownloadPc
  <2>2. TypeOK /\ Start(w, "deleteObject", f)
    BY DEF BeginDelete, StoreInv
  <2>3. QED
    BY <2>1, <2>2, StartMoves
<1>2. TypeOK'
  BY <1>1 DEF BeginDelete, Moved, StoreInv, TypeOK, Action, Log, stores, history
<1>3. KnownFiles'
  BY <1>1 DEF BeginDelete, Moved, StoreInv, KnownFiles, TypeOK, stores, history
<1>4. UploadIsAlone'
  BY <1>1 DEF BeginDelete, Moved, StoreInv, UploadIsAlone, KnownFiles, Early, stores,
              history
<1>5. UploadKeepsPace'
  BY <1>1 DEF BeginDelete, Moved, StoreInv, UploadKeepsPace, UploadIsAlone, Early,
              stores, history
<1>6. DeleteKeepsPace'
  BY <1>1 DEF BeginDelete, Moved, StoreInv, DeleteKeepsPace, UploadIsAlone, Early,
              stores, history
<1>7. DeletedWasAttempted'
  BY <1>1 DEF BeginDelete, Moved, StoreInv, DeletedWasAttempted, DeleteKeepsPace, Log,
              stores, history
<1>8. DeletedIsGone'
  BY <1>1 DEF BeginDelete, Moved, StoreInv, DeletedIsGone, DeletedWasAttempted,
              UploadIsAlone, DeleteKeepsPace, Early, Log, stores, history
<1>9. UploadDurable'
  BY <1>1 DEF BeginDelete, Moved, StoreInv, UploadDurable, UploadIsAlone,
              UploadKeepsPace, DeleteKeepsPace, Early, TypeOK, stores, history
<1>10. DownloadableHasKey'
  BY <1>1 DEF BeginDelete, Moved, StoreInv, DownloadableHasKey, UploadIsAlone,
              UploadKeepsPace, DeleteKeepsPace, Early, stores, history
<1>11. DeleteIsAtWork'
  BY <1>1 DEF BeginDelete, Moved, StoreInv, DeleteIsAtWork, UploadIsAlone,
              DeleteKeepsPace, Early, DeletePc, Cascade, Failures, stores, history
<1> QED
  BY <1>2, <1>3, <1>4, <1>5, <1>6, <1>7, <1>8, <1>9, <1>10, <1>11 DEF StoreInv

LEMMA BeginDownloadKeeps ==
    ASSUME StoreInv, site' = site, NEW w \in Workers, NEW f \in FileIds, BeginDownload(w, f)
    PROVE  StoreInv'
<1>1. job[w].pc = "idle" /\ Moved(w, "fetch", f)
  <2>1. "fetch" \in BusyPc
    BY DEF BusyPc, UploadPc, DeletePc, DownloadPc
  <2>2. TypeOK /\ Start(w, "fetch", f)
    BY DEF BeginDownload, StoreInv
  <2>3. QED
    BY <2>1, <2>2, StartMoves
<1>2. TypeOK'
  BY <1>1 DEF BeginDownload, Moved, StoreInv, TypeOK, Action, Log, stores, history
<1>3. KnownFiles'
  BY <1>1 DEF BeginDownload, Moved, StoreInv, KnownFiles, TypeOK, stores, history
<1>4. UploadIsAlone'
  BY <1>1 DEF BeginDownload, Moved, StoreInv, UploadIsAlone, KnownFiles, Early,
              stores, history
<1>5. UploadKeepsPace'
  BY <1>1 DEF BeginDownload, Moved, StoreInv, UploadKeepsPace, UploadIsAlone, Early,
              stores, history
<1>6. DeleteKeepsPace'
  BY <1>1 DEF BeginDownload, Moved, StoreInv, DeleteKeepsPace, UploadIsAlone, Early,
              stores, history
<1>7. DeletedWasAttempted'
  BY <1>1 DEF BeginDownload, Moved, StoreInv, DeletedWasAttempted, DeleteKeepsPace,
              Log, stores, history
<1>8. DeletedIsGone'
  BY <1>1 DEF BeginDownload, Moved, StoreInv, DeletedIsGone, DeletedWasAttempted,
              UploadIsAlone, DeleteKeepsPace, Early, Log, stores, history
<1>9. UploadDurable'
  BY <1>1 DEF BeginDownload, Moved, StoreInv, UploadDurable, UploadIsAlone,
              UploadKeepsPace, DeleteKeepsPace, Early, TypeOK, stores, history
<1>10. DownloadableHasKey'
  BY <1>1 DEF BeginDownload, Moved, StoreInv, DownloadableHasKey, UploadIsAlone,
              UploadKeepsPace, DeleteKeepsPace, Early, stores, history
<1>11. DeleteIsAtWork'
  BY <1>1 DEF BeginDownload, Moved, StoreInv, DeleteIsAtWork, UploadIsAlone,
              DeleteKeepsPace, Early, DeletePc, Cascade, Failures, stores, history
<1> QED
  BY <1>2, <1>3, <1>4, <1>5, <1>6, <1>7, <1>8, <1>9, <1>10, <1>11 DEF StoreInv

LEMMA AbortKeeps ==
    ASSUME StoreInv, site' = site, NEW w \in Workers, Abort(w)
    PROVE  StoreInv'
<1>1. Moved(w, "idle", 0) /\ Failures
  BY EndMoves DEF Abort, StoreInv
<1>2. TypeOK'
  BY <1>1 DEF Abort, Moved, StoreInv, TypeOK, Action, Log, stores, history
<1>3. KnownFiles'
  BY <1>1 DEF Abort, Moved, StoreInv, KnownFiles, TypeOK, stores, history
<1>4. UploadIsAlone'
  BY <1>1 DEF Abort, Moved, StoreInv, UploadIsAlone, KnownFiles, Early, stores, history
<1>5. UploadKeepsPace'
  BY <1>1 DEF Abort, Moved, StoreInv, UploadKeepsPace, UploadIsAlone, Early, stores,
              history
<1>6. DeleteKeepsPace'
  BY <1>1 DEF Abort, Moved, StoreInv, DeleteKeepsPace, UploadIsAlone, Early, stores,
              history
<1>7. DeletedWasAttempted'
  BY <1>1 DEF Abort, Moved, StoreInv, DeletedWasAttempted, DeleteKeepsPace, Log,
              stores, history
<1>8. DeletedIsGone'
  BY <1>1 DEF Abort, Moved, StoreInv, DeletedIsGone, DeletedWasAttempted,
              UploadIsAlone, DeleteKeepsPace, Early, Log, stores, history
<1>9. UploadDurable'
  BY <1>1 DEF Abort, Moved, StoreInv, UploadDurable, UploadIsAlone, UploadKeepsPace,
              DeleteKeepsPace, Early, TypeOK, stores, history
<1>10. DownloadableHasKey'
  BY <1>1 DEF Abort, Moved, StoreInv, DownloadableHasKey, UploadIsAlone,
              UploadKeepsPace, DeleteKeepsPace, Early, stores, history
<1>11. DeleteIsAtWork'
  BY <1>1 DEF Abort, Moved, StoreInv, DeleteIsAtWork, UploadIsAlone, DeleteKeepsPace,
              Early, DeletePc, Cascade, Failures, stores, history
<1> QED
  BY <1>2, <1>3, <1>4, <1>5, <1>6, <1>7, <1>8, <1>9, <1>10, <1>11 DEF StoreInv

\* Nothing but shared and site may change when permissions are given.
LEMMA ShareKeeps ==
    ASSUME StoreInv, site' = site, shared' \subseteq FileIds,
           UNCHANGED <<objects, keys, rows, audit, job, history>>
    PROVE  StoreInv'
BY DEF StoreInv, TypeOK, KnownFiles, UploadIsAlone, UploadKeepsPace, DeleteKeepsPace,
       DeletedWasAttempted, DeletedIsGone, UploadDurable, DownloadableHasKey,
       DeleteIsAtWork, Cascade, Failures, history
-----------------------------------------------------------------------------
LEMMA StoreInit == Init => StoreInv
BY DEF Init, Idle, Job, StoreInv, TypeOK, KnownFiles, UploadIsAlone, UploadKeepsPace,
       DeleteKeepsPace, DeletedWasAttempted, DeletedIsGone, UploadDurable,
       DownloadableHasKey, DeleteIsAtWork, Early

LEMMA StoreNext == StoreInv /\ [Next]_vars => StoreInv'
<1> SUFFICES ASSUME StoreInv, [Next]_vars PROVE StoreInv'
  OBVIOUS
<1>1. CASE UNCHANGED vars
  BY <1>1, ShareKeeps DEF vars, history, StoreInv, TypeOK
<1>2. ASSUME NEW f \in FileIds, site' = site, Share(f)
      PROVE  StoreInv'
  BY <1>2, ShareKeeps DEF Share, StoreInv, TypeOK
<1>3. ASSUME NEW w \in Workers, NEW f \in FileIds, site' = site,
             BeginUpload(w, f) \/ BeginDelete(w, f) \/ BeginDownload(w, f)
      PROVE  StoreInv'
  BY <1>3, BeginUploadKeeps, BeginDeleteKeeps, BeginDownloadKeeps
<1>4. ASSUME NEW w \in Workers, site' = site,
             \/ PutObject(w) \/ StoreKey(w) \/ Cleanup(w) \/ InsertRow(w)
             \/ AuditUpload(w) \/ Reply(w)
      PROVE  StoreInv'
  BY <1>4, PutObjectKeeps, StoreKeyKeeps, CleanupKeeps, InsertRowKeeps,
     AuditUploadKeeps, ReplyKeeps
<1>5. ASSUME NEW w \in Workers, site' = site,
             \/ DeleteObject(w) \/ DeleteKey(w) \/ DeleteRow(w) \/ AuditDelete(w)
             \/ Refuse(w) \/ Fetch(w) \/ AuditDownload(w) \/ Abort(w)
      PROVE  StoreInv'
  BY <1>5, DeleteObjectKeeps, DeleteKeyKeeps, DeleteRowKeeps, AuditDeleteKeeps,
     RefuseKeeps, FetchKeeps, AuditDownloadKeeps, AbortKeeps
<1>6. QED
  BY <1>1, <1>2, <1>3, <1>4, <1>5 DEF Next

LEMMA StoreInvHolds == Spec => []StoreInv
BY StoreInit, StoreNext, PTL DEF Spec

\* An attempt at deletion is the only way a row can lack its object.
LEMMA ListedHere == ASSUME StoreInv PROVE ListedHasObject
BY DEF StoreInv, ListedHasObject, RowsHaveObjects, UploadDurable, DeleteIsAtWork

\* Nothing that was acknowledged or left a row is lost but by a delete.
THEOREM UploadsEndure == Spec => []UploadDurable
<1>1. StoreInv => UploadDurable
  BY DEF StoreInv
<1>2. QED
  BY <1>1, StoreInvHolds, PTL

\* Whatever can be downloaded has its key.
THEOREM KeysOutliveObjects == Spec => []DownloadableHasKey
<1>1. StoreInv => DownloadableHasKey
  BY DEF StoreInv
<1>2. QED
  BY <1>1, StoreInvHolds, PTL

\* What is logged as deleted is gone for good.
THEOREM DeletedStaysGone == Spec => []DeletedIsGone
<1>1. StoreInv => DeletedIsGone
  BY DEF StoreInv
<1>2. QED
  BY <1>1, StoreInvHolds, PTL

\* Where nothing fails, no listed file lacks its content.
THEOREM ListedKeepsObject == Spec => []ListedHasObject
BY ListedHere, StoreInvHolds, PTL
-----------------------------------------------------------------------------
(* The stores implement the lifecycle *)

Serving == DeletePc \cup DownloadPc

\* A delete or a download is of a file that was listed when it began, and a file
\* that is not listed any more has no content.
LifeInv ==
    /\ \A w \in Workers : job[w].pc \in Serving => job[w].file \in rows \cup attempted
    /\ \A f \in attempted : f \in rows \/ f \notin objects

Goes(w) ==
    \/ PutObject(w) \/ StoreKey(w) \/ Cleanup(w) \/ InsertRow(w)
    \/ AuditUpload(w) \/ Reply(w)
    \/ DeleteObject(w) \/ DeleteKey(w) \/ DeleteRow(w) \/ AuditDelete(w)
    \/ Refuse(w) \/ Fetch(w) \/ AuditDownload(w) \/ Abort(w)

\* A request that goes on stays with its file and its route.
LEMMA StaysWithFile ==
    ASSUME TypeOK, NEW w \in Workers, Goes(w)
    PROVE  \A v \in Workers : job'[v].pc \in Serving =>
             job[v].pc \in Serving /\ job'[v].file = job[v].file
<1>1. CASE End(w)
  BY <1>1, EndMoves DEF Moved, Serving, DeletePc, DownloadPc
<1>2. ASSUME NEW pc \in BusyPc, Goto(w, pc), job[w].pc # "idle",
             pc \in Serving => job[w].pc \in Serving
      PROVE  \A v \in Workers : job'[v].pc \in Serving =>
               job[v].pc \in Serving /\ job'[v].file = job[v].file
  BY <1>2, GotoMoves DEF Moved, BusyPc, UploadPc, DeletePc, DownloadPc
<1> USE DEF At, BusyPc, UploadPc, DeletePc, DownloadPc, Serving
<1>3. CASE PutObject(w) \/ StoreKey(w) \/ Cleanup(w) \/ InsertRow(w)
  BY <1>1, <1>2, <1>3 DEF PutObject, StoreKey, Cleanup, InsertRow
<1>4. CASE AuditUpload(w) \/ Reply(w) \/ Abort(w) \/ Refuse(w)
  BY <1>1, <1>2, <1>4 DEF AuditUpload, Reply, Abort, Refuse
<1>5. CASE DeleteObject(w) \/ DeleteKey(w) \/ DeleteRow(w) \/ AuditDelete(w)
  BY <1>1, <1>2, <1>5 DEF DeleteObject, DeleteKey, DeleteRow, AuditDelete
<1>6. CASE Fetch(w) \/ AuditDownload(w)
  BY <1>1, <1>2, <1>6 DEF Fetch, AuditDownload
<1>7. QED
  BY <1>3, <1>4, <1>5, <1>6 DEF Goes

LEMMA LifeInit == Init => LifeInv
BY DEF Init, LifeInv, Idle, Serving, DeletePc, DownloadPc

LEMMA LifeNext == StoreInv /\ LifeInv /\ [Next]_vars => LifeInv'
<1> SUFFICES ASSUME StoreInv, LifeInv, [Next]_vars PROVE LifeInv'
  OBVIOUS
<1>1. TypeOK
  BY DEF StoreInv
<1>2. ASSUME NEW w \in Workers, Goes(w)
      PROVE  LifeInv'
  <2>1. \A v \in Workers : job'[v].pc \in Serving =>
          job[v].pc \in Serving /\ job'[v].file = job[v].file
    BY <1>1, <1>2, StaysWithFile
  <2> USE DEF LifeInv, At, Serving, DeletePc, DownloadPc, stores, history
  <2>2. CASE PutObject(w) \/ StoreKey(w) \/ Cleanup(w)
    BY <2>1, <2>2 DEF PutObject, StoreKey, Cleanup, StoreInv, UploadIsAlone, Early
  <2>3. CASE InsertRow(w) \/ AuditUpload(w) \/ Reply(w) \/ Abort(w) \/ Refuse(w)
    BY <2>1, <2>3 DEF InsertRow, AuditUpload, Reply, Abort, Refuse
  <2>4. CASE DeleteObject(w) \/ DeleteKey(w)
    BY <2>1, <2>4 DEF DeleteObject, DeleteKey
  <2>5. CASE DeleteRow(w)
    BY <2>1, <2>5 DEF DeleteRow, StoreInv, DeleteKeepsPace
  <2>6. CASE AuditDelete(w) \/ Fetch(w) \/ AuditDownload(w)
    BY <2>1, <2>6 DEF AuditDelete, Fetch, AuditDownload
  <2>7. QED
    BY <1>2, <2>2, <2>3, <2>4, <2>5, <2>6 DEF Goes
<1>3. ASSUME NEW w \in Workers, NEW f \in FileIds,
             BeginUpload(w, f) \/ BeginDelete(w, f) \/ BeginDownload(w, f)
      PROVE  LifeInv'
  <2>1. PICK pc \in {"putObject", "deleteObject", "fetch"} :
          Start(w, pc, f) /\ (pc = "putObject" \/ f \in rows)
    BY <1>3 DEF BeginUpload, BeginDelete, BeginDownload
  <2>2. Moved(w, pc, f)
    BY <1>1, <2>1, StartMoves DEF BusyPc, UploadPc, DeletePc, DownloadPc
  <2>3. UNCHANGED <<objects, rows, attempted>>
    BY <1>3 DEF BeginUpload, BeginDelete, BeginDownload, stores, history
  <2>4. QED
    BY <2>1, <2>2, <2>3 DEF LifeInv, Moved, Serving, DeletePc, DownloadPc
<1>4. CASE UNCHANGED vars \/ \E f \in FileIds : Share(f)
  BY <1>4 DEF vars, Share, history, LifeInv
<1>5. QED
  BY <1>2, <1>3, <1>4 DEF Next, Goes

Phases == [f \in FileIds |-> Phase(f)]
lifeVars == <<Phases, attempted, acked, audit>>

LEMMA OnePhaseMoves ==
    ASSUME NEW f \in FileIds, \A g \in FileIds \ {f} : Phase(g)' = Phase(g)
    PROVE  Phases' = [Phases EXCEPT ![f] = Phase(f)']
BY DEF Phases

LEMMA NoPhaseMoves ==
    ASSUME \A f \in FileIds : Phase(f)' = Phase(f)
    PROVE  Phases' = Phases
BY DEF Phases

\* Until the row is inserted the file is new; when it is, all of it is there.
LEMMA UploadIsLifecycle ==
    ASSUME StoreInv, LifeInv, NEW w \in Workers,
           \/ PutObject(w) \/ StoreKey(w) \/ Cleanup(w) \/ InsertRow(w)
           \/ AuditUpload(w) \/ Reply(w)
    PROVE  Lifecycle!Next \/ UNCHANGED lifeVars
<1>1. PICK f \in FileIds : f = job[w].file
  BY BusyJob DEF StoreInv, PutObject, StoreKey, Cleanup, InsertRow, AuditUpload, Reply, At
<1>2. CASE PutObject(w) \/ StoreKey(w) \/ Cleanup(w)
  <2>1. \A g \in FileIds : Phase(g)' = Phase(g)
    BY <1>1, <1>2 DEF PutObject, StoreKey, Cleanup, At, StoreInv, UploadIsAlone, Early, Phase, history
  <2>2. QED
    BY <1>2, <2>1, NoPhaseMoves DEF PutObject, StoreKey, Cleanup, lifeVars, history
<1>3. CASE InsertRow(w)
  <2>1. CASE UNCHANGED rows
    BY <1>3, <2>1, NoPhaseMoves DEF InsertRow, Phase, lifeVars, history
  <2>2. CASE rows' = rows \cup {f}
    <3>1. /\ f \in (objects \cap keys) \ (rows \cup attempted)
          /\ UNCHANGED <<objects, keys, attempted, acked, audit>>
      BY <1>1, <1>3 DEF InsertRow, At, StoreInv, UploadIsAlone, UploadKeepsPace, Early, history
    <3>2. Phase(f) = "new" /\ Phase(f)' = "served"
      BY <2>2, <3>1 DEF Phase
    <3>3. \A g \in FileIds \ {f} : Phase(g)' = Phase(g)
      BY <2>2, <3>1 DEF Phase
    <3>4. Phases' = [Phases EXCEPT ![f] = "served"] /\ Phases[f] = "new"
      BY <1>1, <3>2, <3>3, OnePhaseMoves DEF Phases
    <3>5. Lifecycle!Publish(f)
      BY <3>1, <3>4 DEF Lifecycle!Publish, Lifecycle!Enter, Phases
    <3>6. QED
      BY <1>1, <3>5 DEF Lifecycle!Next
  <2>3. QED
    BY <1>1, <1>3, <2>1, <2>2 DEF InsertRow
<1>4. CASE AuditUpload(w) \/ Reply(w)
  <2>1. /\ f \in rows \/ f \in attempted \ objects
        /\ UNCHANGED <<objects, keys, rows, attempted>>
    BY <1>1, <1>4 DEF AuditUpload, Reply, At, StoreInv, LifeInv, UploadKeepsPace, stores, history
  <2>2. Phases[f] # "new" /\ Phases' = Phases
    BY <1>1, <2>1, NoPhaseMoves DEF Phases, Phase
  <2>3. CASE AuditUpload(w)
    <3>1. audit' = audit \/ Lifecycle!Record("FILE_UPLOADED", f)
      BY <1>1, <2>1, <2>2, <2>3 DEF AuditUpload, Log, Lifecycle!Record, Phases, history
    <3>2. QED
      BY <1>1, <2>1, <2>2, <2>3, <3>1 DEF AuditUpload, Lifecycle!Next, lifeVars, history
  <2>4. CASE Reply(w)
    <3>1. Lifecycle!Promise(f)
      BY <1>1, <2>1, <2>2, <2>4 DEF Reply, Lifecycle!Promise, Phases, stores
    <3>2. QED
      BY <1>1, <3>1 DEF Lifecycle!Next
  <2>5. QED
    BY <1>4, <2>3, <2>4
<1>5. QED
  BY <1>2, <1>3, <1>4

\* A delete breaks the file, then takes it off the list, then says so.
LEMMA DeleteIsLifecycle ==
    ASSUME StoreInv, LifeInv, NEW w \in Workers,
           DeleteObject(w) \/ DeleteKey(w) \/ DeleteRow(w) \/ AuditDelete(w)
    PROVE  Lifecycle!Next \/ UNCHANGED lifeVars
<1>1. PICK f \in FileIds : f = job[w].file
  BY BusyJob DEF StoreInv, DeleteObject, DeleteKey, DeleteRow, AuditDelete, At
<1>2. f \in rows \cup attempted
  BY <1>1 DEF DeleteObject, DeleteKey, DeleteRow, AuditDelete, At, LifeInv, Serving, DeletePc
<1>3. CASE DeleteObject(w)
  <2>1. /\ attempted' = attempted \cup {f}
        /\ objects' = objects \/ objects' = objects \ {f}
        /\ UNCHANGED <<keys, rows, acked, audit>>
    BY <1>1, <1>3 DEF DeleteObject
  <2>2. Phase(f) # "new"
    BY <1>2 DEF Phase, LifeInv
  <2>3. \A g \in FileIds \ {f} : Phase(g)' = Phase(g)
    BY <2>1 DEF Phase
  <2>4. Phase(f)' = Phase(f) \/ (Phase(f) = "served" /\ Phase(f)' = "broken")
    BY <1>2, <2>1 DEF Phase, LifeInv, StoreInv, DownloadableHasKey
  <2>5. CASE Phase(f)' = Phase(f)
    <3>1. Phases' = Phases
      BY <2>3, <2>5, NoPhaseMoves
    <3>2. Lifecycle!Erase(f)
      BY <2>1, <2>2, <3>1 DEF Lifecycle!Erase, Phases
    <3>3. QED
      BY <3>2 DEF Lifecycle!Next
  <2>6. CASE Phase(f) = "served" /\ Phase(f)' = "broken"
    <3>1. Phases' = [Phases EXCEPT ![f] = "broken"]
      BY <2>3, <2>6, OnePhaseMoves
    <3>2. Lifecycle!Erase(f)
      BY <2>1, <2>6, <3>1 DEF Lifecycle!Erase, Lifecycle!Enter, Phases
    <3>3. QED
      BY <3>2 DEF Lifecycle!Next
  <2>7. QED
    BY <2>4, <2>5, <2>6
<1>4. CASE DeleteKey(w)
  <2>1. f \notin objects
    BY <1>1, <1>4 DEF DeleteKey, At, StoreInv, DeleteKeepsPace
  <2>2. keys' = keys \/ keys' = keys \ {f}
    BY <1>1, <1>4 DEF DeleteKey
  <2>3. UNCHANGED <<objects, rows, attempted, acked, audit>>
    BY <1>4 DEF DeleteKey, history
  <2>4. \A g \in FileIds : Phase(g)' = Phase(g)
    BY <2>1, <2>2, <2>3 DEF Phase
  <2>5. QED
    BY <2>3, <2>4, NoPhaseMoves DEF lifeVars
<1>5. CASE DeleteRow(w)
  <2>1. f \in attempted \ objects
    BY <1>1, <1>5 DEF DeleteRow, At, StoreInv, DeleteKeepsPace
  <2>2. rows' = rows \/ rows' = rows \ {f}
    BY <1>1, <1>5 DEF DeleteRow
  <2>3. UNCHANGED <<objects, keys, attempted, acked, audit>>
    BY <1>5 DEF DeleteRow, history
  <2>4. CASE rows' = rows
    <3>1. \A g \in FileIds : Phase(g)' = Phase(g)
      BY <2>3, <2>4 DEF Phase
    <3>2. QED
      BY <2>3, <3>1, NoPhaseMoves DEF lifeVars
  <2>5. CASE rows' = rows \ {f} /\ f \in rows
    <3>1. Phase(f) = "broken" /\ Phase(f)' = "gone"
      BY <2>1, <2>3, <2>5 DEF Phase
    <3>2. \A g \in FileIds \ {f} : Phase(g)' = Phase(g)
      BY <2>3, <2>5 DEF Phase
    <3>3. Phases' = [Phases EXCEPT ![f] = "gone"] /\ Phases[f] = "broken"
      BY <3>1, <3>2, OnePhaseMoves DEF Phases
    <3>4. Lifecycle!Unlist(f)
      BY <2>3, <3>3 DEF Lifecycle!Unlist, Lifecycle!Enter, Phases
    <3>5. QED
      BY <3>4 DEF Lifecycle!Next
  <2>6. QED
    BY <2>2, <2>4, <2>5
<1>6. CASE AuditDelete(w)
  <2>1. f \in attempted \ objects /\ f \notin rows
    BY <1>1, <1>6 DEF AuditDelete, At, StoreInv, DeleteKeepsPace
  <2>2. UNCHANGED <<objects, keys, rows, attempted, acked>>
    BY <1>6 DEF AuditDelete, history
  <2>3. Phases[f] = "gone" /\ Phases' = Phases
    BY <2>1, <2>2, NoPhaseMoves DEF Phases, Phase
  <2>4. audit' = audit \/ Lifecycle!Record("FILE_DELETED", f)
    BY <1>1, <1>6, <2>2, <2>3 DEF AuditDelete, Log, Lifecycle!Record, Phases
  <2>5. QED
    BY <2>2, <2>3, <2>4 DEF Lifecycle!Next, lifeVars
<1>7. QED
  BY <1>3, <1>4, <1>5, <1>6

\* A download changes nothing of the file, and what it logs was once served.
LEMMA DownloadIsLifecycle ==
    ASSUME StoreInv, LifeInv, NEW w \in Workers, AuditDownload(w)
    PROVE  Lifecycle!Next \/ UNCHANGED lifeVars
<1>1. PICK f \in FileIds : f = job[w].file
  BY BusyJob DEF StoreInv, AuditDownload, At
<1>2. f \in rows \/ f \in attempted \ objects
  BY <1>1 DEF AuditDownload, At, LifeInv, Serving, DownloadPc
<1>3. UNCHANGED <<objects, keys, rows, attempted, acked>>
  BY DEF AuditDownload, history
<1>4. Phases[f] # "new" /\ Phases' = Phases
  BY <1>2, <1>3, NoPhaseMoves DEF Phases, Phase
<1>5. audit' = audit \/ Lifecycle!Record("FILE_DOWNLOADED", f)
  BY <1>1, <1>3, <1>4 DEF AuditDownload, Log, Lifecycle!Record, Phases
<1>6. QED
  BY <1>3, <1>4, <1>5 DEF Lifecycle!Next, lifeVars

LEMMA OthersAreSilent ==
    ASSUME UNCHANGED <<objects, keys, rows, attempted, acked, audit>>
    PROVE  UNCHANGED lifeVars
<1>1. \A g \in FileIds : Phase(g)' = Phase(g)
  BY DEF Phase
<1>2. QED
  BY <1>1, NoPhaseMoves DEF lifeVars

LEMMA StepIsLifecycle ==
    StoreInv /\ LifeInv /\ [Next]_vars => [Lifecycle!Next]_lifeVars
<1> SUFFICES ASSUME StoreInv, LifeInv, [Next]_vars
             PROVE  Lifecycle!Next \/ UNCHANGED lifeVars
  OBVIOUS
<1>1. ASSUME NEW w \in Workers, Goes(w)
      PROVE  Lifecycle!Next \/ UNCHANGED lifeVars
  <2>1. CASE Refuse(w) \/ Fetch(w) \/ Abort(w)
    BY <2>1, OthersAreSilent DEF Refuse, Fetch, Abort, stores, history
  <2>2. QED
    BY <1>1, <2>1, UploadIsLifecycle, DeleteIsLifecycle, DownloadIsLifecycle DEF Goes
<1>2. ASSUME NEW w \in Workers, NEW f \in FileIds,
             BeginUpload(w, f) \/ BeginDelete(w, f) \/ BeginDownload(w, f)
      PROVE  UNCHANGED lifeVars
  BY <1>2, OthersAreSilent DEF BeginUpload, BeginDelete, BeginDownload, stores, history
<1>3. CASE UNCHANGED vars \/ \E f \in FileIds : Share(f)
  BY <1>3, OthersAreSilent DEF vars, Share, history
<1>4. QED
  BY <1>1, <1>2, <1>3 DEF Next, Goes

\* Three stores without a common transaction, killed and failing anywhere, still
\* show every file a life that only goes forward.
THEOREM StoreImplementsLifecycle == Spec => StoreIsLifecycle
<1>1. Init => Lifecycle!Init
  BY DEF Init, Lifecycle!Init, Phase
<1>2. StoreInv /\ LifeInv /\ [Next]_vars
        => [Lifecycle!Next]_<<[f \in FileIds |-> Phase(f)], attempted, acked, audit>>
  BY StepIsLifecycle DEF lifeVars, Phases
<1>3. Spec => [](StoreInv /\ LifeInv)
  BY StoreInit, StoreNext, LifeInit, LifeNext, PTL DEF Spec
<1>4. QED
  BY <1>1, <1>2, <1>3, PTL DEF Spec, StoreIsLifecycle, Lifecycle!Spec

\* What the lifecycle keeps of every file.
LifecycleInv ==
    /\ acked \subseteq FileIds
    /\ \A f \in FileIds :
         /\ Phases[f] \in {"new", "served", "broken", "gone"}
         /\ f \notin attempted => Phases[f] \in {"new", "served"}
         /\ f \in acked => Phases[f] # "new"
         /\ [action |-> "FILE_DELETED", file |-> f] \in audit => Phases[f] = "gone"

LEMMA LifecycleInvNext ==
    LifecycleInv /\ [Lifecycle!Next]_lifeVars => LifecycleInv'
<1> SUFFICES ASSUME LifecycleInv, [Lifecycle!Next]_lifeVars PROVE LifecycleInv'
  OBVIOUS
<1>1. DOMAIN Phases = FileIds /\ DOMAIN Phases' = FileIds
  BY DEF Phases
<1>2. CASE UNCHANGED lifeVars
  BY <1>2 DEF lifeVars, LifecycleInv
<1>3. ASSUME NEW f \in FileIds,
             Lifecycle!Publish(f) \/ Lifecycle!Erase(f) \/ Lifecycle!Unlist(f)
      PROVE  LifecycleInv'
  <2>1. PICK p \in {"served", "broken", "gone"} :
          /\ Phases' = Phases \/ Phases' = [Phases EXCEPT ![f] = p]
          /\ p = "broken" => f \in attempted'
          /\ p = "gone" => Phases[f] = "broken"
          /\ p # "gone" /\ Phases' # Phases => Phases[f] \in {"new", "served"}
          /\ attempted \subseteq attempted' /\ acked' = acked /\ audit' = audit
    BY <1>3 DEF Lifecycle!Publish, Lifecycle!Erase, Lifecycle!Unlist, Lifecycle!Enter, Phases
  <2>2. QED
    BY <1>1, <2>1 DEF LifecycleInv
<1>4. ASSUME NEW f \in FileIds, Lifecycle!Promise(f)
      PROVE  LifecycleInv'
  <2>1. /\ Phases' = Phases /\ Phases[f] # "new" /\ acked' = acked \cup {f}
        /\ UNCHANGED <<attempted, audit>>
    BY <1>4 DEF Lifecycle!Promise, Phases
  <2>2. QED
    BY <2>1 DEF LifecycleInv
<1>5. ASSUME NEW f \in FileIds, NEW a, Lifecycle!Record(a, f)
      PROVE  LifecycleInv'
  <2>1. /\ Phases' = Phases /\ (a = "FILE_DELETED" => Phases[f] = "gone")
        /\ audit' = audit \cup {[action |-> a, file |-> f]}
        /\ UNCHANGED <<attempted, acked>>
    BY <1>5 DEF Lifecycle!Record, Phases
  <2>2. QED
    BY <2>1 DEF LifecycleInv
<1>6. QED
  BY <1>2, <1>3, <1>4, <1>5 DEF Lifecycle!Next

\* The lifecycle promises enough: what was acknowledged or listed endures until a
\* delete, what can be downloaded has its key, what is logged as deleted is gone.
THEOREM LifecycleSuffices ==
    []TypeOK /\ StoreIsLifecycle => [](UploadDurable /\ DownloadableHasKey /\ DeletedIsGone)
<1>1. Lifecycle!Init => LifecycleInv
  BY DEF Lifecycle!Init, LifecycleInv, Phases
<1>2. LifecycleInv /\ [Lifecycle!Next]_<<[f \in FileIds |-> Phase(f)], attempted, acked, audit>>
        => LifecycleInv'
  BY LifecycleInvNext DEF lifeVars, Phases
<1>3. TypeOK /\ LifecycleInv => UploadDurable /\ DownloadableHasKey /\ DeletedIsGone
  <2> SUFFICES ASSUME TypeOK, LifecycleInv
               PROVE  UploadDurable /\ DownloadableHasKey /\ DeletedIsGone
    OBVIOUS
  <2>1. \A f \in FileIds : Phases[f] = Phase(f)
    BY DEF Phases
  <2>2. UploadDurable
    BY <2>1 DEF UploadDurable, LifecycleInv, TypeOK, Phase
  <2>3. DownloadableHasKey
    BY <2>1 DEF DownloadableHasKey, LifecycleInv, TypeOK, Phase
  <2>4. DeletedIsGone
    BY <2>1 DEF DeletedIsGone, LifecycleInv, Phase
  <2>5. QED
    BY <2>2, <2>3, <2>4
<1>4. QED
  BY <1>1, <1>2, <1>3, PTL DEF StoreIsLifecycle, Lifecycle!Spec
=============================================================================
