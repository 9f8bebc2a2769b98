------------------------------ MODULE Pipeline ------------------------------
(***************************************************************************)
(* The two workers put together, with the model files between them.        *)
(*                                                                         *)
(* Ingestion and Classification meet in two places: the RQ message that    *)
(* ingest_file pushes before it commits, and the classification_jobs row   *)
(* that it commits.  Here the one module's steps feed the other's state,   *)
(* and what Classification assumed of its producer is what Ingestion does. *)
(*                                                                         *)
(* A prediction names a model twice over.  The model_metadata id travels   *)
(* from the ingestion worker, which looks it up once per connection, in    *)
(* the message; the weights are whatever files the work-horse finds when   *)
(* it runs (_get_model; every job has a work-horse of its own, so nothing  *)
(* is cached from one to the next).  Nobody compares the two.              *)
(***************************************************************************)
EXTENDS Naturals, FiniteSets, Sequences

CONSTANTS
    Ingesters, Files, Bytes, Complete, Tiffs, DocIds, MaxWrites, Lapses,
    IngestFaults, MaxIngestFaults,
    Classifiers, MaxRetries, Schedulers, ClassifyFaults, MaxClassifyFaults,
    Models,     \* versions of the classifier
    First,      \* the one deployed and registered to begin with
    None

VARIABLES
    drop, docRow, saved, jobs, blobs, rq, rejected,
    ipc, link, isess, txn, seen, todo, cur, ifaults, istruck, lapsed,
    places, retries, jobRow, predictions, assets, audits, overlays,
    cpc, doc, csess, alarm, scheduler, cfaults, cstruck,
    deployed,   \* the version of classifier.pt and model_card.json
    registered, \* model_metadata, in the order of created_at
    naming,     \* per ingestion worker: model_metadata_id
    sent,       \* per document: the model its message names
    loaded,     \* per inference worker: the model its work-horse runs
    madeBy,     \* per document: the models that made its predictions
    hasty       \* has the operator changed the model in a way that cannot go well

ingestVars == <<drop, docRow, saved, jobs, blobs, rq, rejected, ipc, link, isess, txn, seen,
                todo, cur, ifaults, istruck, lapsed>>
classifyVars == <<places, retries, jobRow, predictions, assets, audits, overlays,
                  cpc, doc, csess, alarm, scheduler, cfaults, cstruck>>
modelVars == <<deployed, registered, naming, sent, loaded, madeBy, hasty>>
vars == <<ingestVars, classifyVars, modelVars>>

I == INSTANCE Ingestion WITH
    Workers <- Ingesters, Faults <- IngestFaults, MaxFaults <- MaxIngestFaults,
    row <- docRow, pc <- ipc, sess <- isess, faults <- ifaults, struck <- istruck

\* How far ingestion has come with a document, as Classification sees it.
Committing(d) == \E w \in Ingesters : ipc[w] = "commit" /\ cur[w].doc = d

producer == [d \in DocIds |->
    IF d \in jobs THEN "done"
    ELSE IF d \notin rq THEN "none"
    ELSE IF Committing(d) THEN "pushed" ELSE "lost"]

C == INSTANCE Classification WITH
    Docs <- DocIds, Workers <- Classifiers, Faults <- ClassifyFaults,
    MaxFaults <- MaxClassifyFaults, row <- jobRow, pc <- cpc, sess <- csess,
    faults <- cfaults, struck <- cstruck

ASSUME PipelineAssumption ==
    /\ IsFiniteSet(DocIds)
    /\ Complete \subseteq Bytes /\ Tiffs \subseteq Bytes
    /\ None \notin Files \cup Bytes \cup DocIds \cup I!Rows
    /\ MaxWrites \in [Files -> Nat]
    /\ Lapses \subseteq {"stall", "rewrite"}
    /\ IngestFaults \subseteq I!FaultKinds /\ MaxIngestFaults \in Nat
    /\ MaxRetries \in Nat /\ Schedulers \subseteq BOOLEAN
    /\ ClassifyFaults \subseteq C!FaultKinds \ {"producer"} /\ MaxClassifyFaults \in Nat
    /\ First \in Models /\ None \notin Models

\* Types only.
TypeOK ==
    /\ I!TypeOK /\ C!TypeOK
    /\ deployed \in Models /\ registered \in Seq(Models)
    /\ naming \in [Ingesters -> Models \cup {None}]
    /\ sent \in [DocIds -> Models \cup {None}]
    /\ loaded \in [Classifiers -> Models \cup {None}]
    /\ madeBy \in [DocIds -> SUBSET Models]
    /\ hasty \in BOOLEAN

Init ==
    /\ I!Init
    /\ C!Init
    /\ deployed = First /\ registered = <<First>>
    /\ naming = [w \in Ingesters |-> None]
    /\ sent = [d \in DocIds |-> None]
    /\ loaded = [w \in Classifiers |-> None]
    /\ madeBy = [d \in DocIds |-> {}]
    /\ hasty = FALSE

-----------------------------------------------------------------------------
(* Ingestion, and what it leaves for classification.                       *)

\* Mutant: the job row is committed before the message is pushed.
JobRowsFirst == [d \in DocIds |-> IF d \in rq' \ rq THEN "queued" ELSE jobRow[d]]

\* A committed job row is queued; a message goes to the queue.
JobRows == [d \in DocIds |-> IF d \in jobs' \ jobs THEN "queued" ELSE jobRow[d]]
Messages == [d \in DocIds |-> IF d \in rq' \ rq THEN {"queue"} ELSE places[d]]

\* Mutant: the model that was registered first.
Oldest == registered[1]

Registered(m) == \E k \in 1 .. Len(registered) : registered[k] = m

\* ModelMetadataRepository.get_latest.
Latest == registered[Len(registered)]

Connects(w) == ipc[w] = "start" /\ ipc'[w] = "loop"

\* _get_model_metadata_id, once per connection, and the message that carries it.
Names(w) ==
    /\ naming' = [naming EXCEPT ![w] = IF Connects(w) THEN Latest
                                       ELSE IF ipc'[w] \in {"down", "start"} THEN None ELSE @]
    /\ sent' = [d \in DocIds |-> IF d \in rq' \ rq THEN naming[w] ELSE sent[d]]
    /\ hasty' = (hasty \/ (Connects(w) /\ ~Registered(deployed)))

Ingest(w) ==
    /\ I!Progress(w) \/ I!Mishap(w)
    /\ jobRow' = JobRows
    /\ places' = Messages
    /\ Names(w)
    /\ UNCHANGED <<retries, predictions, assets, audits, overlays, cpc, doc, csess, alarm,
                   scheduler, cfaults, cstruck, deployed, registered, loaded, madeBy>>

Vendor == I!Vendor /\ UNCHANGED <<classifyVars, modelVars>>

-----------------------------------------------------------------------------
(* Classification.                                                         *)

\* _get_model loads and validates the files that are there; a prediction is
\* filed under the model that the message names.
Classify(w) ==
    /\ UNCHANGED ingestVars
    /\ C!Step(w)
    /\ loaded' = [loaded EXCEPT ![w] = IF cpc[w] = "work" /\ cpc'[w] = "overlay" THEN deployed
                                       ELSE IF cpc'[w] = "idle" THEN None ELSE @]
    /\ madeBy' = [d \in DocIds |-> IF predictions'[d] > predictions[d]
                                   THEN madeBy[d] \cup {loaded[w]} ELSE madeBy[d]]
    /\ UNCHANGED <<deployed, registered, naming, sent, hasty>>

Abandon(d) == UNCHANGED ingestVars /\ C!Abandon(d) /\ UNCHANGED modelVars

Schedule(d) == UNCHANGED ingestVars /\ C!Schedule(d) /\ UNCHANGED modelVars

-----------------------------------------------------------------------------
(* The operator.                                                           *)

\* No ingestion worker has a model in hand, and no message is on its way.
Drained ==
    /\ \A w \in Ingesters : ipc[w] \in {"down", "start"}
    /\ \A d \in DocIds : places[d] \subseteq {"finished", "failed"}

\* New files.  To bring an old version back is hasty in any case: its row is
\* never the latest again.
Deploy(m) ==
    /\ m # deployed
    /\ deployed' = m
    /\ hasty' = (hasty \/ ~Drained \/ Registered(m))
    /\ UNCHANGED <<ingestVars, classifyVars, registered, naming, sent, loaded, madeBy>>

\* seed_model_metadata skips a classifier that it knows by its checksum.
Register ==
    /\ ~Registered(deployed)
    /\ registered' = Append(registered, deployed)
    /\ UNCHANGED <<ingestVars, classifyVars, deployed, naming, sent, loaded, madeBy, hasty>>

-----------------------------------------------------------------------------
Next ==
    \/ Vendor \/ Register
    \/ \E w \in Ingesters : Ingest(w)
    \/ \E w \in Classifiers : Classify(w)
    \/ \E d \in DocIds : Abandon(d) \/ Schedule(d)
    \/ \E m \in Models : Deploy(m)

Spec == Init /\ [][Next]_vars

\* That of the two workers; nothing is assumed of the operator or the vendor.
Fairness ==
    /\ \A w \in Ingesters : WF_vars(Ingest(w))
    /\ \A w \in Classifiers : WF_vars(Classify(w))
    /\ \A d \in DocIds : WF_vars(~C!Held(d) /\ Abandon(d)) /\ WF_vars(Schedule(d))

FairSpec == Spec /\ Fairness

-----------------------------------------------------------------------------
(* What the two promise together.                                          *)

\* A work-horse past its lookup has a committed document with its original in
\* MinIO: the two checks of inference_worker.py:82-88 never fire.
WorkIsThere ==
    \A w \in Classifiers : cpc[w] \notin {"idle", "lookup"} => doc[w] \in saved \cap blobs

\* A prediction names the model that made it, if the operator changes models
\* only between a drained queue and the next connection, and never back, and no
\* paused work-horse is taken for dead (data-model.md:110).
PredictionsNameTheirModel ==
    ~hasty /\ "pause" \notin cstruck => \A d \in DocIds : madeBy[d] \subseteq {sent[d]}

Lost == {d \in DocIds : producer[d] = "lost"}

Alone == INSTANCE Classification WITH
    Docs <- DocIds, Workers <- Classifiers, Faults <- ClassifyFaults \cup {"producer"},
    MaxFaults <- MaxClassifyFaults + Cardinality(DocIds), row <- jobRow, pc <- cpc,
    sess <- csess, faults <- cfaults + Cardinality(Lost),
    struck <- IF Lost = {} THEN cstruck ELSE cstruck \cup {"producer"}

\* Ingestion is the producer that Classification assumes: all that is shown of
\* Classification alone holds here.
FeedsClassification == Alone!Spec

\* A document with a prediction is a committed one whose original and overlay are
\* in MinIO, and a whole scan if the vendor keeps to its side; an orphan message
\* classifies nothing (ingestion.py:107-131, inference_worker.py:82-111).  Unless the
\* job timer has struck, the row that leads to the overlay is there as well.
PredictionsAreBacked ==
    \A d \in DocIds : predictions[d] > 0 =>
        /\ d \in jobs \cap saved \cap blobs \cap overlays
        /\ docRow[d].status = "queued" /\ docRow[d].bytes \in Tiffs
        /\ ~lapsed => docRow[d].bytes \in Complete
        /\ "timeout" \notin cstruck => assets[d] = predictions[d]

-----------------------------------------------------------------------------
(* From the drop directory to the prediction.                              *)

\* A scan is a path with its contents; an operator finds it by its documents, of
\* which there should be one.
Scans == Files \X Bytes
DocsOf(s) == {d \in jobs : docRow[d].path = s[1] /\ docRow[d].bytes = s[2]}
ResultsOf(s) == UNION {{d} \X (1 .. predictions[d]) : d \in DocsOf(s)}

scanFate == [s \in Scans |->
    IF DocsOf(s) = {} THEN "unfiled" ELSE C!fate[CHOOSE d \in DocsOf(s) : TRUE]]

scanResults == [s \in Scans |-> Cardinality(ResultsOf(s))]

ScanLife == INSTANCE Lifecycle WITH
    Docs <- Scans, fate <- scanFate, results <- scanResults,
    suspected <- "pause" \in cstruck

\* With one ingestion worker the whole system treats a scan as Lifecycle treats a
\* document: whatever crashes, is pushed twice or filed late, the scan is taken up
\* once, as one document, and its fate is decided once (ingestion.py:61-69,
\* inference_worker.py:76-90).
ImplementsScanLifecycle == ScanLife!Spec

Classified(f, b) ==
    \E d \in DocIds : docRow[d] # None /\ docRow[d].path = f /\ docRow[d].bytes = b /\ predictions[d] > 0

\* A TIFF that stays in the directory is in the end classified (spec.md:127), if
\* nothing fails but an ingestion worker that crashes.  With a scheduler and enough
\* retries it survives dying inference workers too, and a work-horse that is
\* faster than ingestion's commit.
EveryScanClassified ==
    [](/\ istruck \subseteq {"crash"}
       /\ \/ cstruck = {}
          \/ /\ scheduler /\ MaxClassifyFaults <= MaxRetries
             /\ cstruck \subseteq {"race", "horse", "worker"}) =>
        \A f \in Files, b \in Tiffs : <>[](drop[f].bytes = b) => <>Classified(f, b)
=============================================================================
