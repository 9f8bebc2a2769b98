--------------------------- MODULE Classification ---------------------------
(***************************************************************************)
(* The inference worker: RQ delivers a message for a document to a work-   *)
(* horse, which runs classify_document (app/workers/inference_worker.py)   *)
(* and moves the classification_jobs row through ClassificationJobService  *)
(* (app/services/classification_jobs.py).                                  *)
(*                                                                         *)
(* RQ itself is external: a message is in the queue, in the started,       *)
(* scheduled, finished or failed registry, and is rescheduled by a failure *)
(* while it has retries left (the Retry of app/infra/queue.py).  Only RQ's *)
(* scheduler takes a message out of the scheduled registry; worker.work()  *)
(* does not start one (Schedulers = {FALSE} is the deployed system), and   *)
(* Schedulers = {TRUE} asks whether the code would bear the retries that   *)
(* its comments count on.                                                  *)
(***************************************************************************)
EXTENDS Naturals, FiniteSets

CONSTANTS
    Docs,       \* documents with a message each
    Workers,    \* inference workers
    MaxRetries, \* Retry(max=3)
    Schedulers, \* may a scheduler process run
    Faults,     \* kinds of fault that may strike
    MaxFaults,  \* bound: how many may strike
    None

FaultKinds == {"race", "producer", "db", "pipeline", "storage", "timeout",
               "horse", "worker", "pause"}

ASSUME ClassificationAssumption ==
    /\ None \notin Docs
    /\ MaxRetries \in Nat /\ MaxFaults \in Nat
    /\ Schedulers \subseteq BOOLEAN
    /\ Faults \subseteq FaultKinds

VARIABLES
    producer,       \* how far ingestion has come with the document
    places,         \* the RQ list and registries that hold the message
    retries,        \* RQ's retries_left
    row,            \* committed classification_jobs.status
    predictions,    \* number of committed predictions of the document
    assets,         \* of committed overlay_assets rows
    audits,         \* and of committed "document.classified" audit events
    overlays,       \* documents whose overlay is in MinIO
    pc, doc, sess, alarm,   \* per worker: the work-horse's step, document,
                            \* SQLAlchemy session and unspent job timer
    scheduler, faults, struck

rqVars == <<places, retries>>
results == <<predictions, assets, audits>>
dbVars == <<row, results>>
horse == <<pc, doc, sess, alarm>>
mishaps == <<faults, struck>>
vars == <<producer, rqVars, dbVars, overlays, horse, scheduler, mishaps>>

\* Where the work-horse is in persist_result, and what its session has flushed
\* there: the prediction, the overlay asset with it, the audit event too.
Persisting == {"flush", "asset", "job", "audit", "commit"}
Flushed == {"predicted", "drawn", "dirty"}

Places == {"queue", "started", "scheduled", "finished", "failed"}

StoresOK ==
    /\ producer \in [Docs -> {"none", "pushed", "done", "lost"}]
    /\ places \in [Docs -> SUBSET Places]
    /\ retries \in [Docs -> 0 .. MaxRetries]
    /\ row \in [Docs -> {"none", "queued", "running", "succeeded", "retryable_failed"}]
    /\ predictions \in [Docs -> Nat] /\ assets \in [Docs -> Nat] /\ audits \in [Docs -> Nat]
    /\ overlays \subseteq Docs

HorsesOK ==
    /\ pc \in [Workers -> {"idle", "lookup", "mark", "remark", "work", "overlay",
                           "after", "fail"} \cup Persisting]
    /\ doc \in [Workers -> Docs \cup {None}]
    /\ sess \in [Workers -> {"clean", "broken"} \cup Flushed]
    /\ alarm \in [Workers -> BOOLEAN]

MishapsOK ==
    /\ scheduler \in BOOLEAN
    /\ faults \in 0 .. MaxFaults /\ struck \subseteq Faults

\* Types only.
TypeOK == StoresOK /\ HorsesOK /\ MishapsOK

Init ==
    /\ producer = [d \in Docs |-> "none"]
    /\ places = [d \in Docs |-> {}]
    /\ retries = [d \in Docs |-> MaxRetries]
    /\ row = [d \in Docs |-> "none"]
    /\ predictions = [d \in Docs |-> 0]
    /\ assets = [d \in Docs |-> 0] /\ audits = [d \in Docs |-> 0]
    /\ overlays = {}
    /\ pc = [w \in Workers |-> "idle"]
    /\ doc = [w \in Workers |-> None]
    /\ sess = [w \in Workers |-> "clean"]
    /\ alarm = [w \in Workers |-> FALSE]
    /\ scheduler \in Schedulers
    /\ faults = 0 /\ struck = {}

Strike(kind) ==
    /\ kind \in Faults /\ faults < MaxFaults
    /\ faults' = faults + 1
    /\ struck' = struck \cup {kind}

-----------------------------------------------------------------------------
(* IngestionService.ingest_file: the message first, the commit after it.   *)

Push(d) ==
    /\ producer[d] = "none"
    /\ producer' = [producer EXCEPT ![d] = "pushed"]
    /\ places' = [places EXCEPT ![d] = {"queue"}]
    /\ UNCHANGED <<retries, dbVars, overlays, horse, scheduler, mishaps>>

Commits(d) ==
    /\ producer[d] = "pushed"
    /\ producer' = [producer EXCEPT ![d] = "done"]
    /\ row' = [row EXCEPT ![d] = "queued"]
    /\ UNCHANGED <<rqVars, results, overlays, horse, scheduler, mishaps>>

\* A message without a row: the ingestion worker dies or its commit fails after
\* the push, or the push itself raises although the message is in the queue.
NeverCommits(d) ==
    /\ producer[d] \in {"none", "pushed"}
    /\ Strike("producer")
    /\ producer' = [producer EXCEPT ![d] = "lost"]
    /\ places' = IF producer[d] = "none" THEN [places EXCEPT ![d] = {"queue"}] ELSE places
    /\ UNCHANGED <<retries, dbVars, overlays, horse, scheduler>>

-----------------------------------------------------------------------------
(* RQ.                                                                     *)

Move(d, from, to) == places' = [places EXCEPT ![d] = (@ \ {from}) \cup {to}]

\* Worker.handle_job_failure, and StartedJobRegistry.cleanup for an abandoned job.
RqFails(d) ==
    IF retries[d] > 0
    THEN /\ Move(d, "started", "scheduled")
         /\ retries' = [retries EXCEPT ![d] = @ - 1]
    ELSE /\ Move(d, "started", "failed")
         /\ UNCHANGED retries

Dequeue(w, d) ==
    /\ pc[w] = "idle" /\ "queue" \in places[d]
    /\ Move(d, "queue", "started")
    /\ pc' = [pc EXCEPT ![w] = "lookup"]
    /\ doc' = [doc EXCEPT ![w] = d]
    /\ alarm' = [alarm EXCEPT ![w] = TRUE]
    /\ UNCHANGED <<producer, retries, dbVars, overlays, sess, scheduler, mishaps>>

Held(d) == \E w \in Workers : doc[w] = d

\* Another worker's maintenance finds the heartbeat of a started job expired:
\* its worker is gone, or only paused.
Abandon(d) ==
    /\ "started" \in places[d]
    /\ IF Held(d) THEN Strike("pause") ELSE UNCHANGED mishaps
    /\ RqFails(d)
    /\ UNCHANGED <<producer, dbVars, overlays, horse, scheduler>>

Schedule(d) ==
    /\ scheduler /\ "scheduled" \in places[d]
    /\ Move(d, "scheduled", "queue")
    /\ UNCHANGED <<producer, retries, dbVars, overlays, horse, scheduler, mishaps>>

\* The work-horse is gone, and its session with it.
Idle(w) ==
    /\ pc' = [pc EXCEPT ![w] = "idle"]
    /\ doc' = [doc EXCEPT ![w] = None]
    /\ sess' = [sess EXCEPT ![w] = "clean"]
    /\ alarm' = [alarm EXCEPT ![w] = FALSE]

\* classify_document raises: the session closes, RQ handles the failure.
Raise(w) == RqFails(doc[w]) /\ Idle(w)

\* The work-horse is killed and the worker process reports the failure.
HorseDies(w) ==
    /\ pc[w] # "idle"
    /\ Strike("horse")
    /\ Raise(w)
    /\ UNCHANGED <<producer, dbVars, overlays, scheduler>>

\* The container dies and is restarted: the message stays in the started registry.
WorkerDies(w) ==
    /\ pc[w] # "idle"
    /\ Strike("worker")
    /\ Idle(w)
    /\ UNCHANGED <<producer, rqVars, dbVars, overlays, scheduler>>

-----------------------------------------------------------------------------
(* classify_document.                                                      *)

Goto(w, step) == pc' = [pc EXCEPT ![w] = step] /\ UNCHANGED <<doc, alarm>>

\* Mutant: an attempt that failed counts as still in progress.
ActiveWhenFailed(d) == row[d] \in {"queued", "running", "retryable_failed"}

\* Mutant: a job that some worker has started is nobody else's to take up.
ActiveWhenQueued(d) == row[d] = "queued"

\* Mutant: a job is looked up only once it runs.
ActiveWhenRunning(d) == row[d] = "running"

\* get_active_by_document.
Active(d) == row[d] \in {"queued", "running"}

\* The status found stays in the session: to set it to running has no effect
\* when it was found running.
FindJob(w) ==
    /\ pc[w] = "lookup" /\ Active(doc[w])
    /\ Goto(w, IF row[doc[w]] = "queued" THEN "mark" ELSE "remark")
    /\ UNCHANGED <<producer, rqVars, dbVars, overlays, sess, scheduler, mishaps>>

\* Mutant: a message that came before its row waits for the row.
WaitForJob(w) ==
    /\ pc[w] = "lookup" /\ ~Active(doc[w]) /\ row[doc[w]] # "none"
    /\ Raise(w)
    /\ UNCHANGED <<producer, dbVars, overlays, scheduler, mishaps>>

\* "No active classification job": raised outside the try.
NoActiveJob(w) ==
    /\ pc[w] = "lookup" /\ ~Active(doc[w])
    /\ IF producer[doc[w]] = "pushed" THEN Strike("race") ELSE UNCHANGED mishaps
    /\ Raise(w)
    /\ UNCHANGED <<producer, dbVars, overlays, scheduler>>

LookupFails(w) ==
    /\ pc[w] = "lookup"
    /\ Strike("db")
    /\ Raise(w)
    /\ UNCHANGED <<producer, dbVars, overlays, scheduler>>

\* Mutant: a status the enumeration does not have.
MarkStarted(w) ==
    /\ pc[w] \in {"mark", "remark"}
    /\ row' = [row EXCEPT ![doc[w]] = "started"]
    /\ Goto(w, "work")
    /\ UNCHANGED <<producer, rqVars, results, overlays, sess, scheduler, mishaps>>

\* What the row holds once mark_running commits, whatever it held by then.
Marked(w) == IF pc[w] = "mark" THEN [row EXCEPT ![doc[w]] = "running"] ELSE row

MarkRunning(w) ==
    /\ pc[w] \in {"mark", "remark"}
    /\ row' = Marked(w)
    /\ Goto(w, "work")
    /\ UNCHANGED <<producer, rqVars, results, overlays, sess, scheduler, mishaps>>

\* Also outside the try; the commit may have gone through.
MarkRunningFails(w) ==
    /\ pc[w] \in {"mark", "remark"}
    /\ Strike("db")
    /\ row' \in {row, Marked(w)}
    /\ Raise(w)
    /\ UNCHANGED <<producer, results, overlays, scheduler>>

\* The document row, the download, preprocessing, inference and the drawing.
RunPipeline(w) ==
    /\ pc[w] = "work"
    /\ Goto(w, "overlay")
    /\ UNCHANGED <<producer, rqVars, dbVars, overlays, sess, scheduler, mishaps>>

UploadOverlay(w) ==
    /\ pc[w] = "overlay"
    /\ overlays' = overlays \cup {doc[w]}
    /\ Goto(w, "flush")
    /\ UNCHANGED <<producer, rqVars, dbVars, sess, scheduler, mishaps>>

\* The steps of persist_result: each flushes its row, and the timer, a failure or
\* the end of the process can come between any two.
Flush(w, flushed, next) ==
    /\ sess' = [sess EXCEPT ![w] = flushed]
    /\ Goto(w, next)
    /\ UNCHANGED <<producer, rqVars, dbVars, overlays, scheduler, mishaps>>

\* Mutant: the prediction is committed when it is created.
CommitPrediction(w) ==
    /\ pc[w] = "flush"
    /\ predictions' = [predictions EXCEPT ![doc[w]] = @ + 1]
    /\ Goto(w, "asset")
    /\ UNCHANGED <<producer, rqVars, row, assets, audits, overlays, sess, scheduler, mishaps>>

FlushPrediction(w) == pc[w] = "flush" /\ Flush(w, "predicted", "asset")

FlushAsset(w) == pc[w] = "asset" /\ Flush(w, "drawn", "job")

\* The status is flushed as well, but whatever commits next sets it once more.
FlushJob(w) == pc[w] = "job" /\ Flush(w, "drawn", "audit")

FlushAudit(w) == pc[w] = "audit" /\ Flush(w, "dirty", "commit")

\* Mutant: the job's status is not part of the transaction.
PredictionCommitted(w, status) ==
    /\ predictions' = [predictions EXCEPT ![doc[w]] = @ + 1]
    /\ assets' = [assets EXCEPT ![doc[w]] = @ + 1]
    /\ audits' = [audits EXCEPT ![doc[w]] = @ + 1]
    /\ UNCHANGED row

\* What the flushed part of a result becomes once its transaction commits.
ResultCommitted(w, status) ==
    /\ predictions' = [predictions EXCEPT ![doc[w]] = @ + 1]
    /\ assets' = IF sess[w] \in {"drawn", "dirty"}
                 THEN [assets EXCEPT ![doc[w]] = @ + 1] ELSE assets
    /\ audits' = IF sess[w] = "dirty" THEN [audits EXCEPT ![doc[w]] = @ + 1] ELSE audits
    /\ row' = [row EXCEPT ![doc[w]] = status]

CommitResult(w) ==
    /\ pc[w] = "commit"
    /\ ResultCommitted(w, "succeeded")
    /\ sess' = [sess EXCEPT ![w] = "clean"]
    /\ Goto(w, "after")
    /\ UNCHANGED <<producer, rqVars, overlays, scheduler, mishaps>>

\* Cache invalidation and logging, then the return: Worker.handle_job_success.
Return(w) ==
    /\ pc[w] = "after"
    /\ Move(doc[w], "started", "finished")
    /\ Idle(w)
    /\ UNCHANGED <<producer, retries, dbVars, overlays, scheduler, mishaps>>

-----------------------------------------------------------------------------
(* The except clause.                                                      *)

PipelineFails(w) ==
    /\ pc[w] = "work"
    /\ Strike("pipeline")
    /\ Goto(w, "fail")
    /\ UNCHANGED <<producer, rqVars, dbVars, overlays, sess, scheduler>>

OverlayFails(w) ==
    /\ pc[w] = "overlay"
    /\ Strike("storage")
    /\ overlays' \in {overlays, overlays \cup {doc[w]}}
    /\ Goto(w, "fail")
    /\ UNCHANGED <<producer, rqVars, dbVars, sess, scheduler>>

\* A failed flush or commit leaves a session that refuses every further use;
\* the commit may have gone through before its reply was lost.
PersistFails(w) ==
    /\ pc[w] \in Persisting
    /\ Strike("db")
    /\ \/ UNCHANGED dbVars
       \/ pc[w] = "commit" /\ ResultCommitted(w, "succeeded")
    /\ sess' = [sess EXCEPT ![w] = "broken"]
    /\ Goto(w, "fail")
    /\ UNCHANGED <<producer, rqVars, overlays, scheduler>>

\* Mutant: the except clause does not raise again, so RQ sees a success.
MarkRetryableOnly(w) ==
    /\ pc[w] = "fail" /\ sess[w] # "broken"
    /\ row' = [row EXCEPT ![doc[w]] = "retryable_failed"]
    /\ Move(doc[w], "started", "finished")
    /\ Idle(w)
    /\ UNCHANGED <<producer, retries, results, overlays, scheduler, mishaps>>

\* mark_retryable_failure on the same session: its commit takes along whatever
\* persist_result has flushed, be it a prediction without its asset.
MarkRetryable(w) ==
    /\ pc[w] = "fail" /\ sess[w] # "broken"
    /\ IF sess[w] \in Flushed
       THEN ResultCommitted(w, "retryable_failed")
       ELSE row' = [row EXCEPT ![doc[w]] = "retryable_failed"] /\ UNCHANGED results
    /\ Raise(w)
    /\ UNCHANGED <<producer, overlays, scheduler, mishaps>>

\* It raises in turn (PendingRollbackError on a broken session) and the row
\* keeps the status it had.  If only the reply to its commit is lost, the step
\* is MarkRetryable.
MarkRetryableFails(w) ==
    /\ pc[w] = "fail"
    /\ IF sess[w] = "broken" THEN UNCHANGED mishaps ELSE Strike("db")
    /\ Raise(w)
    /\ UNCHANGED <<producer, dbVars, overlays, scheduler>>

\* RQ's death penalty raises JobTimeoutException, an Exception, once, at any
\* point of the job.  Outside the try, and in the except clause, it ends the job.
TimeoutOutsideTry(w) ==
    /\ pc[w] \in {"lookup", "mark", "remark", "work", "fail"} /\ alarm[w]
    /\ Strike("timeout")
    /\ Raise(w)
    /\ UNCHANGED <<producer, dbVars, overlays, scheduler>>

\* Inside the try it is one more failure, which may hit the session in mid-flush.
\* After the commit the job has succeeded, and still the except clause runs.
TimeoutInsideTry(w) ==
    /\ pc[w] \in {"work", "overlay", "after"} \cup Persisting /\ alarm[w]
    /\ Strike("timeout")
    /\ pc' = [pc EXCEPT ![w] = "fail"]
    /\ \/ UNCHANGED sess
       \/ pc[w] \in Persisting /\ sess' = [sess EXCEPT ![w] = "broken"]
    /\ alarm' = [alarm EXCEPT ![w] = FALSE]
    /\ UNCHANGED <<producer, rqVars, dbVars, overlays, doc, scheduler>>

-----------------------------------------------------------------------------
\* What becomes of a message that is sent.
Produce(d) == Commits(d) \/ NeverCommits(d)

Step(w) ==
    \/ \E d \in Docs : Dequeue(w, d)
    \/ FindJob(w) \/ NoActiveJob(w) \/ LookupFails(w)
    \/ MarkRunning(w) \/ MarkRunningFails(w)
    \/ RunPipeline(w) \/ PipelineFails(w)
    \/ UploadOverlay(w) \/ OverlayFails(w)
    \/ FlushPrediction(w) \/ FlushAsset(w) \/ FlushJob(w) \/ FlushAudit(w)
    \/ CommitResult(w) \/ PersistFails(w) \/ Return(w)
    \/ MarkRetryable(w) \/ MarkRetryableFails(w)
    \/ TimeoutOutsideTry(w) \/ TimeoutInsideTry(w)
    \/ HorseDies(w) \/ WorkerDies(w)

Next ==
    \/ \E d \in Docs : Push(d) \/ Produce(d) \/ Abandon(d) \/ Schedule(d)
    \/ \E w \in Workers : Step(w)

Spec == Init /\ [][Next]_vars

\* Running workers and a running scheduler make progress, expired heartbeats
\* are found, and a sender that has pushed goes on to commit or dies.
Fairness ==
    /\ \A d \in Docs : /\ WF_vars(producer[d] = "pushed" /\ Produce(d))
                       /\ WF_vars(~Held(d) /\ Abandon(d))
                       /\ WF_vars(Schedule(d))
    /\ \A w \in Workers : WF_vars(Step(w))

FairSpec == Spec /\ Fairness

-----------------------------------------------------------------------------
(* What classification promises.                                           *)

\* A document has at most one prediction, however often its job was retried
\* (data-model.md:54, repositories/predictions.py:27), unless RQ took a paused worker for dead.
OnePrediction ==
    "pause" \notin struck => \A d \in Docs : predictions[d] <= 1

\* A job that reads succeeded has a prediction with its overlay asset and its audit
\* event, and a prediction is never visible before its overlay is stored
\* (inference_worker.py:92-111).  Whatever dies, fails or is delivered twice, a
\* document has as many assets and events as predictions, as they commit in one
\* transaction (classification_jobs.py:55); but not if the job timer has struck,
\* because the except clause commits what was flushed by then.
SucceededIsComplete ==
    \A d \in Docs :
        /\ row[d] = "succeeded" => predictions[d] > 0 /\ assets[d] > 0 /\ audits[d] > 0
        /\ predictions[d] > 0 => d \in overlays
        /\ "timeout" \notin struck => assets[d] = predictions[d] /\ audits[d] = predictions[d]

\* Job status and prediction commit together: only the job timer, which can
\* fire between flush and commit or after it, and a paused worker part them.
PredictionMeansSucceeded ==
    struck \cap {"timeout", "pause"} = {} =>
        \A d \in Docs : predictions[d] > 0 => row[d] = "succeeded"

\* RQ calls a message finished only when its document is classified.
FinishedMeansClassified ==
    \A d \in Docs : "finished" \in places[d] => predictions[d] > 0

\* What an operator is told of a document: its prediction, or else its job.
fate == [d \in Docs |->
    IF predictions[d] > 0 THEN "classified"
    ELSE IF row[d] = "none" THEN "unfiled"
    ELSE IF Active(d) THEN "pending"
    ELSE "failed"]

Life == INSTANCE Lifecycle WITH results <- predictions, suspected <- "pause" \in struck

\* Attempts, retries, deaths and half-done transactions come to this: the fate of a
\* document is decided once, and a failed attempt that was recorded is final.
ImplementsLifecycle == Life!Spec

\* With a scheduler every message comes to rest, finished or failed.
EveryMessageSettles ==
    [](scheduler => \A d \in Docs :
         places[d] # {} => <>[](places[d] \subseteq {"finished", "failed"}))

\* Dying workers alone cannot keep a document from being classified, as long as
\* its retries last: the row stays active and the next attempt starts over.
CrashesAreSurvived ==
    scheduler /\ MaxFaults <= MaxRetries /\ [](struck \subseteq {"horse", "worker"}) =>
        \A d \in Docs : producer[d] = "done" ~> row[d] = "succeeded"

\* Without any fault a document is classified even with no scheduler.
EveryDocumentClassified ==
    [](struck = {}) => \A d \in Docs : producer[d] = "pushed" ~> row[d] = "succeeded"

\* A failed job is retried (queue.py:11, inference_worker.py:13): no message
\* stays in the scheduled registry.
RetriesHappen == \A d \in Docs : "scheduled" \in places[d] ~> "scheduled" \notin places[d]

\* A retryable failure can be requeued (classification_jobs.py:126,
\* data-model.md:70): a retry takes the job out of retryable_failed.
FailedAttemptsRecover ==
    \A d \in Docs : row[d] = "retryable_failed" /\ "scheduled" \in places[d]
                    ~> row[d] # "retryable_failed"
=============================================================================
