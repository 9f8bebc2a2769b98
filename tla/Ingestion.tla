------------------------------ MODULE Ingestion ------------------------------
(***************************************************************************)
(* The ingestion worker (app/workers/ingestion_worker.py) and the service  *)
(* it calls for every file (app/services/ingestion.py), against the vendor *)
(* drop directory, MinIO, Postgres and the Redis queue.                    *)
(*                                                                         *)
(* The vendor writes files; a worker polls the directory, takes a file to  *)
(* be finished when its size and mtime did not change between two polls,   *)
(* reads it, and walks it through validation, the duplicate check, the     *)
(* document row, the blob upload, the RQ message and the commit.  Each of  *)
(* those calls is a step of its own here, because a fault, a crash, the    *)
(* vendor or a second worker can come between any two of them.             *)
(*                                                                         *)
(* The worker keeps ONE SQLAlchemy session for the whole connection and    *)
(* never rolls it back: rows flushed for a file that failed later stay in  *)
(* the open transaction (txn), are seen by its next duplicate check and    *)
(* are committed by whatever commits next.                                 *)
(***************************************************************************)
EXTENDS Naturals, FiniteSets

CONSTANTS
    Workers,    \* ingestion worker processes (docker-compose.yml runs one)
    Files,      \* names in the drop directory
    Bytes,      \* file contents, as far as their checksums tell them apart
    Complete,   \* contents that are a whole scan, not the prefix of one
    Tiffs,      \* contents that start with the TIFF magic
    DocIds,     \* document uuids
    MaxWrites,  \* bound: how often the vendor writes to each file
    Lapses,     \* what the vendor may do wrong: stall, rewrite
    Faults,     \* kinds of fault that may strike
    MaxFaults,  \* bound: how many may strike
    None

\* A documents row, as far as anything here depends on it.
Rows == [path : Files, bytes : Bytes, status : {"pending", "stored", "queued"}]

FaultKinds == {"sftp", "storage", "queue", "db", "crash"}

ASSUME IngestionAssumption ==
    /\ Complete \subseteq Bytes
    /\ Tiffs \subseteq Bytes
    /\ None \notin Files \cup Bytes \cup DocIds
    /\ MaxWrites \in [Files -> Nat]
    /\ Lapses \subseteq {"stall", "rewrite"}
    /\ Faults \subseteq FaultKinds
    /\ MaxFaults \in Nat

ASSUME RowsAssumption == None \notin Rows

VARIABLES
    drop,       \* the directory: per name, size and mtime as a stamp, and contents
    row,        \* documents: the row of an id, flushed or committed
    saved,      \* ids of the committed documents
    jobs,       \* document ids that have a committed classification_jobs row
    blobs,      \* document ids whose original is in the MinIO bucket
    rq,         \* document ids for which a message was pushed to the RQ queue
    rejected,   \* committed "document.ingestion_failed" audit entries
    pc, link, sess, txn, seen, todo, cur,   \* per worker, see WorkersOK
    faults,     \* how many faults have struck
    struck,     \* and their kinds
    lapsed      \* has the vendor done one of its Lapses

dbVars == <<row, saved, jobs, rejected>>
worker == <<pc, link, sess, txn, seen, todo, cur>>
mishaps == <<faults, struck>>
vars == <<drop, dbVars, blobs, rq, worker, mishaps, lapsed>>

NoFile == [file |-> None, bytes |-> None, doc |-> None]

StoresOK ==
    /\ drop \in [Files -> [stamp : Nat, bytes : Bytes \cup {None}]]
    /\ row \in [DocIds -> Rows \cup {None}]
    /\ saved \subseteq DocIds /\ jobs \subseteq DocIds
    /\ blobs \subseteq DocIds /\ rq \subseteq DocIds
    /\ rejected \subseteq Files \X Bytes

WorkersOK ==
    /\ pc \in [Workers -> {"down", "start", "loop", "lookup", "create",
                           "upload", "enqueue", "commit", "reject"}]
    /\ link \in [Workers -> BOOLEAN]            \* is the SFTP connection alive
    /\ sess \in [Workers -> {"closed", "idle", "open", "broken"}]
    /\ txn \in [Workers -> SUBSET DocIds]       \* flushed, not committed
    /\ seen \in [Workers -> [Files -> Nat]]   \* seen_files; 0 is no entry
    /\ todo \in [Workers -> SUBSET Files]       \* stable files of this poll
    /\ cur \in [Workers -> [file : Files \cup {None}, bytes : Bytes \cup {None},
                            doc : DocIds \cup {None}]]

MishapsOK ==
    /\ faults \in 0 .. MaxFaults /\ struck \subseteq Faults
    /\ lapsed \in BOOLEAN

\* Types only: what each variable holds and the shape of each worker's locals.
TypeOK == StoresOK /\ WorkersOK /\ MishapsOK

Init ==
    /\ drop = [f \in Files |-> [stamp |-> 0, bytes |-> None]]
    /\ row = [d \in DocIds |-> None]
    /\ saved = {} /\ jobs = {} /\ blobs = {} /\ rq = {} /\ rejected = {}
    /\ pc = [w \in Workers |-> "down"]
    /\ link = [w \in Workers |-> FALSE]
    /\ sess = [w \in Workers |-> "closed"]
    /\ txn = [w \in Workers |-> {}]
    /\ seen = [w \in Workers |-> [f \in Files |-> 0]]
    /\ todo = [w \in Workers |-> {}]
    /\ cur = [w \in Workers |-> NoFile]
    /\ faults = 0 /\ struck = {}
    /\ lapsed = FALSE

Strike(kind) ==
    /\ kind \in Faults /\ faults < MaxFaults
    /\ faults' = faults + 1
    /\ struck' = struck \cup {kind}

Lapse(kind) == kind \in Lapses /\ lapsed' = TRUE

-----------------------------------------------------------------------------
(* The vendor: writes change size or mtime, hence the stamp.               *)

Present(f) == drop[f].bytes # None

\* A write on a name whose last contents were whole, or that was used before
\* and removed, starts a second upload under an old name.
Rewrites(f) == drop[f].stamp > 0 /\ (drop[f].bytes \in Complete \/ ~Present(f))

VendorWrite(f, b) ==
    /\ drop[f].stamp < MaxWrites[f]
    /\ drop' = [drop EXCEPT ![f] = [stamp |-> @.stamp + 1, bytes |-> b]]
    /\ IF Rewrites(f) THEN Lapse("rewrite") ELSE UNCHANGED lapsed
    /\ UNCHANGED <<dbVars, blobs, rq, worker, mishaps>>

VendorRemove(f) ==
    /\ Present(f)
    /\ drop' = [drop EXCEPT ![f] = [stamp |-> @.stamp, bytes |-> None]]
    /\ UNCHANGED <<dbVars, blobs, rq, worker, mishaps, lapsed>>

-----------------------------------------------------------------------------
(* The process and its connections.                                        *)

\* docker starts the container, vault secrets load and the startup checks pass;
\* when they do not, main exits and the restart policy tries again, as here.
Start(w) ==
    /\ pc[w] = "down"
    /\ pc' = [pc EXCEPT ![w] = "start"]
    /\ UNCHANGED <<drop, dbVars, blobs, rq, link, sess, txn, seen, todo, cur, mishaps, lapsed>>

\* The head of main's outer loop: open SFTP, open the session, look up the model
\* metadata (which begins a transaction).  A failure here leaves pc at "start".
Connect(w) ==
    /\ pc[w] = "start"
    /\ pc' = [pc EXCEPT ![w] = "loop"]
    /\ link' = [link EXCEPT ![w] = TRUE]
    /\ sess' = [sess EXCEPT ![w] = "open"]
    /\ UNCHANGED <<drop, dbVars, blobs, rq, txn, seen, todo, cur, mishaps, lapsed>>

\* The rows with ids are gone: their transaction was rolled back.
Without(ids) == [d \in DocIds |-> IF d \in ids THEN None ELSE row[d]]

\* The process dies: its transaction rolls back, and seen_files is lost with it.
Crash(w) ==
    /\ pc[w] # "down"
    /\ Strike("crash")
    /\ pc' = [pc EXCEPT ![w] = "down"]
    /\ link' = [link EXCEPT ![w] = FALSE]
    /\ sess' = [sess EXCEPT ![w] = "closed"]
    /\ row' = Without(txn[w])
    /\ txn' = [txn EXCEPT ![w] = {}]
    /\ seen' = [seen EXCEPT ![w] = [f \in Files |-> 0]]
    /\ todo' = [todo EXCEPT ![w] = {}]
    /\ cur' = [cur EXCEPT ![w] = NoFile]
    /\ UNCHANGED <<drop, saved, jobs, rejected, blobs, rq, lapsed>>

LinkDrops(w) ==
    /\ link[w]
    /\ Strike("sftp")
    /\ link' = [link EXCEPT ![w] = FALSE]
    /\ UNCHANGED <<drop, dbVars, blobs, rq, pc, sess, txn, seen, todo, cur, lapsed>>

-----------------------------------------------------------------------------
(* One poll: _detect_stable_files, then _process_file for each stable one. *)

\* Mutant: seen_files keeps the first entry of a file that has changed.
FirstListing(w) ==
    [f \in Files |-> IF ~Present(f) THEN 0
                    ELSE IF seen[w][f] = 0 THEN drop[f].stamp ELSE seen[w][f]]

\* Mutant: a file is taken on first sight.
StableOnSight(w) == {f \in Files : Present(f) /\ seen[w][f] \in {0, drop[f].stamp}}

\* What a listing leaves in seen_files: the stamps of the files that are there.
Listing(w) == [f \in Files |-> IF Present(f) THEN drop[f].stamp ELSE 0]

Stable(w) == {f \in Files : Present(f) /\ seen[w][f] = drop[f].stamp}

\* The vendor pauses inside an upload for as long as the poll interval.
Stalled(w) == \E f \in Files : /\ Present(f) /\ drop[f].bytes \notin Complete
                              /\ seen[w][f] = drop[f].stamp

Poll(w) ==
    /\ pc[w] = "loop" /\ todo[w] = {} /\ link[w]
    /\ todo' = [todo EXCEPT ![w] = Stable(w)]
    /\ seen' = [seen EXCEPT ![w] = Listing(w)]
    /\ IF Stalled(w) THEN Lapse("stall") ELSE UNCHANGED lapsed
    /\ UNCHANGED <<drop, dbVars, blobs, rq, pc, link, sess, txn, cur, mishaps>>

\* The listing raises, _detect_stable_files returns [] and the loop goes on.
ListFails(w) ==
    /\ pc[w] = "loop" /\ todo[w] = {} /\ ~link[w]
    /\ UNCHANGED vars

\* Mutant: a file of another type is passed over in silence.
SilentVerdict(b) == IF b \in Tiffs THEN "lookup" ELSE "loop"

\* Mutant: the name is believed, and the bytes are not looked at.
AnyVerdict(b) == "lookup"

\* _validate_tiff: the first thing ingest_file does with the bytes.
Verdict(b) == IF b \in Tiffs THEN "lookup" ELSE "reject"

\* Mutant: a file that has gone by the time it is read passes for an empty one.
ReadGone(w, f) ==
    /\ pc[w] = "loop" /\ f \in todo[w]
    /\ link[w]
    /\ todo' = [todo EXCEPT ![w] = @ \ {f}]
    /\ cur' = [cur EXCEPT ![w] = [file |-> f, bytes |-> drop[f].bytes, doc |-> None]]
    /\ pc' = [pc EXCEPT ![w] = Verdict(drop[f].bytes)]
    /\ UNCHANGED <<drop, dbVars, blobs, rq, link, sess, txn, seen, mishaps, lapsed>>

\* The file is read some time after it was listed, and validated.
Read(w, f) ==
    /\ pc[w] = "loop" /\ f \in todo[w]
    /\ link[w] /\ Present(f)
    /\ todo' = [todo EXCEPT ![w] = @ \ {f}]
    /\ cur' = [cur EXCEPT ![w] = [file |-> f, bytes |-> drop[f].bytes, doc |-> None]]
    /\ pc' = [pc EXCEPT ![w] = Verdict(drop[f].bytes)]
    /\ UNCHANGED <<drop, dbVars, blobs, rq, link, sess, txn, seen, mishaps, lapsed>>

ReadFails(w, f) ==
    /\ pc[w] = "loop" /\ f \in todo[w]
    /\ IF link[w] /\ Present(f) THEN Strike("sftp") ELSE UNCHANGED mishaps
    /\ todo' = [todo EXCEPT ![w] = @ \ {f}]
    /\ UNCHANGED <<drop, dbVars, blobs, rq, pc, link, sess, txn, seen, cur, lapsed>>

-----------------------------------------------------------------------------
(* IngestionService.ingest_file.                                           *)

\* _process_file returns or swallows the exception: on to the next file.
NextFile(w) ==
    /\ pc' = [pc EXCEPT ![w] = "loop"]
    /\ cur' = [cur EXCEPT ![w] = NoFile]

\* A statement fails inside a transaction: Postgres rolls back and the session
\* refuses every further use, because nothing calls session.rollback().
SessionBreaks(w) ==
    /\ sess' = [sess EXCEPT ![w] = "broken"]
    /\ row' = Without(txn[w])
    /\ txn' = [txn EXCEPT ![w] = {}]

\* Mutant: the duplicate check runs on a session of its own.
VisibleToOthers(w) == saved

\* Mutant: a document that has its job is no longer active.
VisibleUnqueued(w) == {d \in saved \cup txn[w] : row[d].status # "queued"}

\* find_active_duplicate: this session sees the committed documents and its own
\* flushed ones.  No code sets IngestionStatus.failed, so every document is active.
Visible(w) == saved \cup txn[w]
SameSource(w, d) == row[d].path = cur[w].file /\ row[d].bytes = cur[w].bytes
Duplicate(w) == \E d \in Visible(w) : SameSource(w, d)

\* Found (DuplicateDocumentError), or found twice (MultipleResultsFound): skipped.
SkipDuplicate(w) ==
    /\ pc[w] = "lookup" /\ sess[w] # "broken"
    /\ Duplicate(w)
    /\ sess' = [sess EXCEPT ![w] = "open"]
    /\ NextFile(w)
    /\ UNCHANGED <<drop, dbVars, blobs, rq, link, txn, seen, todo, mishaps, lapsed>>

LookupFindsNone(w) ==
    /\ pc[w] = "lookup" /\ sess[w] # "broken"
    /\ ~Duplicate(w)
    /\ sess' = [sess EXCEPT ![w] = "open"]
    /\ pc' = [pc EXCEPT ![w] = "create"]
    /\ UNCHANGED <<drop, dbVars, blobs, rq, link, txn, seen, todo, cur, mishaps, lapsed>>

\* With no transaction open the pool's pre-ping fails and nothing is lost.
LookupFails(w) ==
    /\ pc[w] = "lookup"
    /\ IF sess[w] = "broken" THEN UNCHANGED mishaps ELSE Strike("db")
    /\ IF sess[w] = "open" THEN SessionBreaks(w) ELSE UNCHANGED <<sess, row, txn>>
    /\ NextFile(w)
    /\ UNCHANGED <<drop, saved, jobs, rejected, blobs, rq, link, seen, todo, lapsed>>

\* uuid4 never repeats an id; which unused one it returns makes no difference.
Unused == {d \in DocIds : row[d] = None /\ d \notin blobs \cup rq}
NewId == CHOOSE d \in Unused : TRUE

\* Mutant: the document is committed as soon as it is created.
CreateAndCommit(w) ==
    /\ pc[w] = "create" /\ Unused # {}
    /\ row' = [row EXCEPT ![NewId] =
                 [path |-> cur[w].file, bytes |-> cur[w].bytes, status |-> "pending"]]
    /\ saved' = saved \cup {NewId}
    /\ cur' = [cur EXCEPT ![w] = [file |-> @.file, bytes |-> @.bytes, doc |-> NewId]]
    /\ pc' = [pc EXCEPT ![w] = "upload"]
    /\ UNCHANGED <<drop, jobs, rejected, blobs, rq, link, sess, txn, seen, todo, mishaps, lapsed>>

\* The batch (a fresh one per file) and the document are flushed.
Create(w) ==
    /\ pc[w] = "create" /\ Unused # {}
    /\ row' = [row EXCEPT ![NewId] =
                 [path |-> cur[w].file, bytes |-> cur[w].bytes, status |-> "pending"]]
    /\ txn' = [txn EXCEPT ![w] = @ \cup {NewId}]
    /\ cur' = [cur EXCEPT ![w] = [file |-> @.file, bytes |-> @.bytes, doc |-> NewId]]
    /\ pc' = [pc EXCEPT ![w] = "upload"]
    /\ UNCHANGED <<drop, saved, jobs, rejected, blobs, rq, link, sess, seen, todo, mishaps, lapsed>>

CreateFails(w) ==
    /\ pc[w] = "create"
    /\ Strike("db")
    /\ SessionBreaks(w)
    /\ NextFile(w)
    /\ UNCHANGED <<drop, saved, jobs, rejected, blobs, rq, link, seen, todo, lapsed>>

SetStatus(d, status) ==
    row' = [row EXCEPT ![d] = [path |-> @.path, bytes |-> @.bytes, status |-> status]]

Upload(w) ==
    /\ pc[w] = "upload"
    /\ blobs' = blobs \cup {cur[w].doc}
    /\ SetStatus(cur[w].doc, "stored")
    /\ pc' = [pc EXCEPT ![w] = "enqueue"]
    /\ UNCHANGED <<drop, saved, jobs, rejected, rq, link, sess, txn, seen, todo, cur, mishaps, lapsed>>

\* Mutant: the storage error is logged and ingest_file goes on.
UploadFailsSilently(w) ==
    /\ pc[w] = "upload"
    /\ Strike("storage")
    /\ pc' = [pc EXCEPT ![w] = "enqueue"]
    /\ UNCHANGED <<drop, dbVars, blobs, rq, link, sess, txn, seen, todo, cur, lapsed>>

\* StorageError: "will retry on next poll".  The object may be there all the same.
UploadFails(w) ==
    /\ pc[w] = "upload"
    /\ Strike("storage")
    /\ blobs' \in {blobs, blobs \cup {cur[w].doc}}
    /\ NextFile(w)
    /\ UNCHANGED <<drop, dbVars, rq, link, sess, txn, seen, todo, lapsed>>

Enqueue(w) ==
    /\ pc[w] = "enqueue"
    /\ rq' = rq \cup {cur[w].doc}
    /\ pc' = [pc EXCEPT ![w] = "commit"]
    /\ UNCHANGED <<drop, dbVars, blobs, link, sess, txn, seen, todo, cur, mishaps, lapsed>>

\* Redis raises; the message may have been pushed before the reply was lost.
EnqueueFails(w) ==
    /\ pc[w] = "enqueue"
    /\ Strike("queue")
    /\ rq' \in {rq, rq \cup {cur[w].doc}}
    /\ NextFile(w)
    /\ UNCHANGED <<drop, dbVars, blobs, link, sess, txn, seen, todo, lapsed>>

\* What a commit of w's transaction leaves in the database.
Committed(w) == saved' = saved \cup txn[w]

\* Mutant: the job row is left out of the transaction.
CommitDocument(w) ==
    /\ pc[w] = "commit"
    /\ SetStatus(cur[w].doc, "queued")
    /\ Committed(w)
    /\ txn' = [txn EXCEPT ![w] = {}]
    /\ sess' = [sess EXCEPT ![w] = "idle"]
    /\ NextFile(w)
    /\ UNCHANGED <<drop, jobs, rejected, blobs, rq, link, seen, todo, mishaps, lapsed>>

\* The job row, status queued, the audit entry and the commit; the cache
\* invalidation after it cannot fail the call.
CommitIngest(w) ==
    /\ pc[w] = "commit"
    /\ SetStatus(cur[w].doc, "queued")
    /\ jobs' = jobs \cup {cur[w].doc}
    /\ Committed(w)
    /\ txn' = [txn EXCEPT ![w] = {}]
    /\ sess' = [sess EXCEPT ![w] = "idle"]
    /\ NextFile(w)
    /\ UNCHANGED <<drop, rejected, blobs, rq, link, seen, todo, mishaps, lapsed>>

\* The flush or the commit raises: rolled back, or committed with the reply lost.
CommitFails(w) ==
    /\ pc[w] = "commit"
    /\ Strike("db")
    /\ \/ SessionBreaks(w) /\ UNCHANGED <<saved, jobs>>
       \/ /\ SetStatus(cur[w].doc, "queued")
          /\ jobs' = jobs \cup {cur[w].doc}
          /\ Committed(w)
          /\ txn' = [txn EXCEPT ![w] = {}]
          /\ sess' = [sess EXCEPT ![w] = "broken"]
    /\ NextFile(w)
    /\ UNCHANGED <<drop, rejected, blobs, rq, link, seen, todo, lapsed>>

-----------------------------------------------------------------------------
(* UnsupportedFileTypeError: IngestionService.mark_failed.                 *)

\* The audit entry is committed, and with it whatever the transaction held.
MarkFailed(w) ==
    /\ pc[w] = "reject" /\ sess[w] # "broken"
    /\ rejected' = rejected \cup {<<cur[w].file, cur[w].bytes>>}
    /\ Committed(w)
    /\ txn' = [txn EXCEPT ![w] = {}]
    /\ sess' = [sess EXCEPT ![w] = "idle"]
    /\ NextFile(w)
    /\ UNCHANGED <<drop, row, jobs, blobs, rq, link, seen, todo, mishaps, lapsed>>

\* mark_failed is called in an except clause: its own exception leaves
\* _process_file and ends the inner loop; main closes the session and SFTP.
MarkFailedRaises(w) ==
    /\ pc[w] = "reject"
    /\ IF sess[w] = "broken" THEN UNCHANGED mishaps ELSE Strike("db")
    /\ \/ row' = Without(txn[w]) /\ UNCHANGED <<saved, rejected>>
       \/ /\ sess[w] # "broken"
          /\ Committed(w)
          /\ rejected' = rejected \cup {<<cur[w].file, cur[w].bytes>>}
          /\ UNCHANGED row
    /\ txn' = [txn EXCEPT ![w] = {}]
    /\ sess' = [sess EXCEPT ![w] = "closed"]
    /\ link' = [link EXCEPT ![w] = FALSE]
    /\ todo' = [todo EXCEPT ![w] = {}]
    /\ cur' = [cur EXCEPT ![w] = NoFile]
    /\ pc' = [pc EXCEPT ![w] = "start"]
    /\ UNCHANGED <<drop, jobs, blobs, rq, seen, lapsed>>

-----------------------------------------------------------------------------
Vendor == \E f \in Files : VendorRemove(f) \/ \E b \in Bytes : VendorWrite(f, b)

\* What the worker's own code does next when nothing fails.
Progress(w) ==
    \/ Start(w) \/ Connect(w) \/ Poll(w) \/ ListFails(w)
    \/ \E f \in Files : Read(w, f)
    \/ SkipDuplicate(w) \/ LookupFindsNone(w)
    \/ Create(w) \/ Upload(w) \/ Enqueue(w) \/ CommitIngest(w) \/ MarkFailed(w)

\* What goes wrong, and the code's way on from it.
Mishap(w) ==
    \/ Crash(w) \/ LinkDrops(w)
    \/ \E f \in Files : ReadFails(w, f)
    \/ LookupFails(w) \/ CreateFails(w) \/ UploadFails(w) \/ EnqueueFails(w)
    \/ CommitFails(w) \/ MarkFailedRaises(w)

Next == Vendor \/ \E w \in Workers : Progress(w) \/ Mishap(w)

Spec == Init /\ [][Next]_vars

\* The process is scheduled, the container restarts (restart: unless-stopped)
\* and a step that cannot go on does not block: nothing is assumed of the vendor.
\* The whole of a worker's steps is fair, the ways on from a failure included.
Fairness == \A w \in Workers : WF_vars(Progress(w) \/ Mishap(w))

FairSpec == Spec /\ Fairness

-----------------------------------------------------------------------------
(* What ingestion promises.                                                *)

\* A job row stands for a committed document whose original was uploaded and
\* whose message was pushed, a document is "stored" only once its blob is
\* there, and "queued" only with a job (ingestion.py:3-5).
JobsAreBacked ==
    /\ jobs \subseteq saved \cap blobs \cap rq
    /\ rq \subseteq blobs
    /\ \A d \in saved : /\ row[d] # None
                        /\ row[d].status # "pending" => d \in blobs
                        /\ row[d].status = "queued" <=> d \in jobs

\* One active document per path and checksum, whatever failed and whatever was
\* committed late (models.py:190).  With one worker: nothing in the schema
\* enforces it against a second one.
NoDuplicateActive ==
    \A d, e \in saved : row[d].path = row[e].path /\ row[d].bytes = row[e].bytes => d = e

\* A committed document with no job is never classified and never ingested
\* again.  Crashes and database failures alone cannot leave one: it takes a
\* failed upload or enqueue.
NoStrandedWithoutFault ==
    struck \cap {"storage", "queue"} = {} => saved = jobs

\* The message is pushed before the commit.  Short of a crash, a database
\* failure or a lost Redis reply, a message without a job row is one whose
\* sender is about to commit it.
NoOrphanMessage ==
    struck \cap {"crash", "db", "queue"} = {} =>
        \A d \in rq \ jobs : \E w \in Workers : pc[w] = "commit" /\ cur[w].doc = d

\* Two equal listings mean the scan is complete, as long as the vendor neither
\* pauses inside an upload nor uploads again under a name it has used.
OnlyCompleteScans ==
    ~lapsed => \A d \in saved : row[d].bytes \in Complete

\* The same without the premise: stable-file detection prevents partial reads
\* (docs/end-to-end-flow.md:209).
NoPartialDocument == \A d \in saved : row[d].bytes \in Complete

\* A failed upload or enqueue is retried on the next poll
\* (ingestion_worker.py:173), so no committed document is left without a job.
NoStrandedDocument == saved = jobs

Ingested(f, b) == \E d \in jobs : row[d].path = f /\ row[d].bytes = b

\* A TIFF that stays in the drop directory is in the end a document with a job.
EveryScanIngested ==
    \A f \in Files, b \in Tiffs : <>[](drop[f].bytes = b) => <>Ingested(f, b)

\* A file of another type that stays is in the end reported as failed.
EveryUnsupportedFileReported ==
    \A f \in Files, b \in Bytes \ Tiffs :
        <>[](drop[f].bytes = b) => <>(<<f, b>> \in rejected)
=============================================================================
