--------------------------- MODULE PipelineProofs ----------------------------
(***************************************************************************)
(* The two workers together, for any numbers of them, of files, documents, *)
(* retries and faults.  What is proved of Ingestion alone holds, because   *)
(* nothing else writes its variables; what is proved of Classification     *)
(* alone holds, because the ingestion workers are one of the producers     *)
(* that it allows for.                                                     *)
(***************************************************************************)
EXTENDS Pipeline, FiniteSetTheorems, SequenceTheorems, TLAPS

\* Ingestion and its theorems.
IP == INSTANCE IngestionSafetyProofs WITH
    Workers <- Ingesters, Faults <- IngestFaults, MaxFaults <- MaxIngestFaults,
    row <- docRow, pc <- ipc, sess <- isess, faults <- ifaults, struck <- istruck

\* Classification as Alone has it, and its theorems.
AP == INSTANCE LifecycleProofs WITH
    Docs <- DocIds, Workers <- Classifiers, Faults <- ClassifyFaults \cup {"producer"},
    MaxFaults <- MaxClassifyFaults + Cardinality(DocIds), row <- jobRow, pc <- cpc,
    sess <- csess, faults <- cfaults + Cardinality(Lost),
    struck <- IF Lost = {} THEN cstruck ELSE cstruck \cup {"producer"}

\* What the two modules assume of their constants.
LEMMA IngestionAssumed == IP!IngestionAssumption /\ IP!RowsAssumption
BY PipelineAssumption
DEF IP!IngestionAssumption, IP!RowsAssumption, IP!FaultKinds, IP!Rows, I!FaultKinds, I!Rows

\* The document ids can be counted.
LEMMA DocumentsCounted == Cardinality(DocIds) \in Nat
BY PipelineAssumption, FS_CardinalityType

\* The constants of the pipeline are such as Classification asks for.
LEMMA ClassificationAssumed == AP!ClassificationAssumption
BY PipelineAssumption, DocumentsCounted
DEF AP!ClassificationAssumption, AP!FaultKinds, C!FaultKinds

-----------------------------------------------------------------------------
(* Ingestion goes on as if it were alone.                                  *)

\* A step of an ingestion worker is the same step under the names of this module.
LEMMA SameWorker ==
    ASSUME NEW w \in Ingesters, I!Progress(w) \/ I!Mishap(w)
    PROVE  IP!Progress(w) \/ IP!Mishap(w)
BY DEF I!vars, IP!vars, I!dbVars, IP!dbVars, I!worker, IP!worker, I!mishaps, IP!mishaps, I!NoFile,
       IP!NoFile, I!Strike, IP!Strike, I!Lapse, IP!Lapse, I!Present, IP!Present, I!Start,
       IP!Start, I!Connect, IP!Connect, I!Without, IP!Without, I!Crash, IP!Crash,
       I!LinkDrops, IP!LinkDrops, I!Listing, IP!Listing, I!Stable, IP!Stable, I!Stalled,
       IP!Stalled, I!Poll, IP!Poll, I!ListFails, IP!ListFails, I!Verdict, IP!Verdict,
       I!Read, IP!Read, I!ReadFails, IP!ReadFails, I!NextFile, IP!NextFile, I!SessionBreaks,
       IP!SessionBreaks, I!Visible, IP!Visible, I!SameSource, IP!SameSource, I!Duplicate,
       IP!Duplicate, I!SkipDuplicate, IP!SkipDuplicate, I!LookupFindsNone,
       IP!LookupFindsNone, I!LookupFails, IP!LookupFails, I!Unused, IP!Unused, I!NewId,
       IP!NewId, I!Create, IP!Create, I!CreateFails, IP!CreateFails, I!SetStatus,
       IP!SetStatus, I!Upload, IP!Upload, I!UploadFails, IP!UploadFails, I!Enqueue,
       IP!Enqueue, I!EnqueueFails, IP!EnqueueFails, I!Committed, IP!Committed,
       I!CommitIngest, IP!CommitIngest, I!CommitFails, IP!CommitFails, I!MarkFailed,
       IP!MarkFailed, I!MarkFailedRaises, IP!MarkFailedRaises, I!Progress, IP!Progress,
       I!Mishap, IP!Mishap

\* So is one of the vendor.
LEMMA SameVendor == I!Vendor => IP!Vendor
BY DEF I!Vendor, IP!Vendor, I!VendorWrite, IP!VendorWrite, I!VendorRemove, IP!VendorRemove,
       I!Rewrites, IP!Rewrites, I!Present, IP!Present, I!Lapse, IP!Lapse, I!dbVars,
       IP!dbVars, I!worker, IP!worker, I!mishaps, IP!mishaps

\* Seen by itself, ingestion does what its own specification says.
LEMMA IngestsAlone == Spec => IP!Spec
<1>1. Init => IP!Init
  BY DEF Init, I!Init, IP!Init, I!NoFile, IP!NoFile
<1>2. [Next]_vars => [IP!Next]_(IP!vars)
  <2>1. ASSUME NEW w \in Ingesters, Ingest(w)
        PROVE  IP!Next
    BY <2>1, SameWorker DEF Ingest, IP!Next
  <2>2. CASE Vendor
    BY <2>2, SameVendor DEF Vendor, IP!Next
  <2>3. CASE \/ Register \/ \E w \in Classifiers : Classify(w)
             \/ \E d \in DocIds : Abandon(d) \/ Schedule(d)
             \/ \E m \in Models : Deploy(m)
    <3>1. UNCHANGED ingestVars
      BY <2>3 DEF Register, Classify, Abandon, Schedule, Deploy
    <3> QED
      BY <3>1 DEF ingestVars, IP!vars, IP!dbVars, IP!worker, IP!mishaps
  <2>4. CASE UNCHANGED vars
    BY <2>4 DEF vars, ingestVars, IP!vars, IP!dbVars, IP!worker, IP!mishaps
  <2> QED
    BY <2>1, <2>2, <2>3, <2>4 DEF Next
<1> QED
  BY <1>1, <1>2, PTL DEF Spec, IP!Spec

\* What ingestion's own proofs provide: types, backed jobs, no second push.
Supply == IP!Typed /\ IP!Backed /\ IP!Unpushed

\* So what was proved of ingestion holds here.
LEMMA Supplied == Spec => []Supply
<1>1. IP!Spec => []IP!Typed
  BY IP!TypedInvariant, IngestionAssumed
  DEF IP!TypedInvariant, IP!IngestionAssumption, IP!RowsAssumption, IP!FaultKinds, IP!Rows
<1>2. IP!Spec => []IP!Backed
  BY IP!BackedInvariant, IngestionAssumed
  DEF IP!BackedInvariant, IP!IngestionAssumption, IP!RowsAssumption, IP!FaultKinds, IP!Rows
<1>3. IP!Spec => []IP!Unpushed
  BY IP!UnpushedInvariant, IngestionAssumed
  DEF IP!UnpushedInvariant, IP!IngestionAssumption, IP!RowsAssumption, IP!FaultKinds, IP!Rows
<1> QED
  BY <1>1, <1>2, <1>3, IngestsAlone, PTL DEF Supply

-----------------------------------------------------------------------------
(* Classification goes on as if ingestion were any producer.               *)

\* Every lost message counts as one fault more, and there are only so many.
LEMMA LostCounted ==
    /\ IsFiniteSet(Lost) /\ Cardinality(Lost) \in Nat
    /\ Cardinality(Lost) <= Cardinality(DocIds)
<1>1. Lost \subseteq DocIds
  BY DEF Lost
<1> QED
  BY <1>1, PipelineAssumption, FS_Subset, FS_CardinalityType

\* Faults of classification itself stay within their own bound.
Bounded == cfaults \in 0 .. MaxClassifyFaults

\* A fault of classification is one of Alone's, as long as no message is lost with it.
LEMMA SameMishaps ==
    ASSUME Bounded, Lost' = Lost
    PROVE  /\ UNCHANGED C!mishaps => UNCHANGED AP!mishaps
           /\ \A kind : C!Strike(kind) => AP!Strike(kind)
<1>1. UNCHANGED C!mishaps => UNCHANGED AP!mishaps
  BY DEF C!mishaps, AP!mishaps
<1>2. ASSUME NEW kind, C!Strike(kind)
      PROVE  AP!Strike(kind)
  <2>1. /\ kind \in ClassifyFaults /\ cfaults < MaxClassifyFaults
        /\ cfaults' = cfaults + 1 /\ cstruck' = cstruck \cup {kind}
    BY <1>2 DEF C!Strike
  <2>2. cfaults + Cardinality(Lost) < MaxClassifyFaults + Cardinality(DocIds)
    BY <2>1, LostCounted, DocumentsCounted, PipelineAssumption DEF Bounded
  <2>3. cfaults' + Cardinality(Lost') = (cfaults + Cardinality(Lost)) + 1
    BY <2>1, LostCounted DEF Bounded
  <2> QED
    BY <2>1, <2>2, <2>3 DEF AP!Strike
<1> QED
  BY <1>1, <1>2

\* Only ingestion loses messages.
LEMMA LostKept == ASSUME UNCHANGED ingestVars PROVE producer' = producer /\ Lost' = Lost
<1>1. producer' = producer
  BY DEF ingestVars, producer, Committing
<1> QED
  BY <1>1 DEF Lost

\* A step of an inference worker is one of Classification with the larger bound.
LEMMA SameStep ==
    ASSUME Bounded, UNCHANGED ingestVars, NEW w \in Classifiers, C!Step(w)
    PROVE  AP!Step(w)
<1>0. /\ UNCHANGED C!mishaps => UNCHANGED AP!mishaps
      /\ \A kind : C!Strike(kind) => AP!Strike(kind)
  BY LostKept, SameMishaps
<1>1. ASSUME NEW d \in DocIds, C!Dequeue(w, d)
      PROVE  AP!Dequeue(w, d)
  BY <1>0, <1>1 DEF C!Dequeue, AP!Dequeue, C!Move, AP!Move, C!dbVars, C!results, AP!dbVars, AP!results
<1>2. C!FindJob(w) => AP!FindJob(w)
  BY <1>0 DEF C!FindJob, AP!FindJob, C!Active, AP!Active, C!Goto, AP!Goto, C!rqVars,
         AP!rqVars, C!dbVars, C!results, AP!dbVars, AP!results
<1>3. C!NoActiveJob(w) => AP!NoActiveJob(w)
  BY <1>0 DEF C!NoActiveJob, AP!NoActiveJob, C!Active, AP!Active, C!Raise, AP!Raise,
         C!RqFails, AP!RqFails, C!Move, AP!Move, C!Idle, AP!Idle, C!dbVars, C!results, AP!dbVars, AP!results
<1>4. C!LookupFails(w) => AP!LookupFails(w)
  BY <1>0 DEF C!LookupFails, AP!LookupFails, C!Raise, AP!Raise, C!RqFails, AP!RqFails,
         C!Move, AP!Move, C!Idle, AP!Idle, C!dbVars, C!results, AP!dbVars, AP!results
<1>5. C!MarkRunning(w) => AP!MarkRunning(w)
  BY <1>0 DEF C!results, AP!results, C!MarkRunning, AP!MarkRunning, C!Marked, AP!Marked, C!Goto,
       AP!Goto, C!rqVars,
         AP!rqVars
<1>6. C!MarkRunningFails(w) => AP!MarkRunningFails(w)
  BY <1>0 DEF C!results, AP!results, C!MarkRunningFails, AP!MarkRunningFails, C!Marked,
       AP!Marked, C!Raise,
         AP!Raise, C!RqFails, AP!RqFails, C!Move, AP!Move, C!Idle, AP!Idle
<1>7. C!RunPipeline(w) => AP!RunPipeline(w)
  BY <1>0 DEF C!RunPipeline, AP!RunPipeline, C!Goto, AP!Goto, C!rqVars, AP!rqVars, C!dbVars, C!results,
         AP!dbVars, AP!results
<1>8. C!PipelineFails(w) => AP!PipelineFails(w)
  BY <1>0 DEF C!PipelineFails, AP!PipelineFails, C!Goto, AP!Goto, C!rqVars, AP!rqVars,
         C!dbVars, C!results, AP!dbVars, AP!results
<1>9. C!UploadOverlay(w) => AP!UploadOverlay(w)
  BY <1>0 DEF C!UploadOverlay, AP!UploadOverlay, C!Goto, AP!Goto, C!rqVars, AP!rqVars,
         C!dbVars, C!results, AP!dbVars, AP!results
<1>10. C!OverlayFails(w) => AP!OverlayFails(w)
  BY <1>0 DEF C!OverlayFails, AP!OverlayFails, C!Goto, AP!Goto, C!rqVars, AP!rqVars,
         C!dbVars, C!results, AP!dbVars, AP!results
<1>11. /\ C!FlushPrediction(w) => AP!FlushPrediction(w)
       /\ C!FlushAsset(w) => AP!FlushAsset(w)
       /\ C!FlushJob(w) => AP!FlushJob(w)
       /\ C!FlushAudit(w) => AP!FlushAudit(w)
  BY <1>0 DEF C!FlushPrediction, AP!FlushPrediction, C!FlushAsset, AP!FlushAsset, C!FlushJob,
         AP!FlushJob, C!FlushAudit, AP!FlushAudit, C!Flush, AP!Flush, C!Goto, AP!Goto, C!rqVars,
         AP!rqVars, C!dbVars, C!results, AP!dbVars, AP!results
<1>12. C!CommitResult(w) => AP!CommitResult(w)
  BY <1>0 DEF C!CommitResult, AP!CommitResult, C!ResultCommitted, AP!ResultCommitted,
         C!Goto, AP!Goto, C!rqVars, AP!rqVars
<1>13. C!PersistFails(w) => AP!PersistFails(w)
  BY <1>0 DEF C!Persisting, AP!Persisting, C!PersistFails, AP!PersistFails, C!ResultCommitted,
       AP!ResultCommitted,
         C!Goto, AP!Goto, C!rqVars, AP!rqVars, C!dbVars, C!results, AP!dbVars, AP!results
<1>14. C!Return(w) => AP!Return(w)
  BY <1>0 DEF C!Return, AP!Return, C!Move, AP!Move, C!Idle, AP!Idle, C!dbVars, C!results,
       AP!dbVars, AP!results
<1>15. C!MarkRetryable(w) => AP!MarkRetryable(w)
  BY <1>0 DEF C!Flushed, AP!Flushed, C!results, AP!results, C!MarkRetryable, AP!MarkRetryable,
       C!ResultCommitted, AP!ResultCommitted,
         C!Raise, AP!Raise, C!RqFails, AP!RqFails, C!Move, AP!Move, C!Idle, AP!Idle
<1>16. C!MarkRetryableFails(w) => AP!MarkRetryableFails(w)
  BY <1>0 DEF C!MarkRetryableFails, AP!MarkRetryableFails, C!Raise, AP!Raise, C!RqFails,
         AP!RqFails, C!Move, AP!Move, C!Idle, AP!Idle, C!dbVars, C!results, AP!dbVars, AP!results
<1>17. C!TimeoutOutsideTry(w) => AP!TimeoutOutsideTry(w)
  BY <1>0 DEF C!TimeoutOutsideTry, AP!TimeoutOutsideTry, C!Raise, AP!Raise, C!RqFails,
         AP!RqFails, C!Move, AP!Move, C!Idle, AP!Idle, C!dbVars, C!results, AP!dbVars, AP!results
<1>18. C!TimeoutInsideTry(w) => AP!TimeoutInsideTry(w)
  BY <1>0 DEF C!Persisting, AP!Persisting, C!TimeoutInsideTry, AP!TimeoutInsideTry, C!rqVars,
       AP!rqVars, C!dbVars, C!results,
         AP!dbVars, AP!results
<1>19. C!HorseDies(w) => AP!HorseDies(w)
  BY <1>0 DEF C!HorseDies, AP!HorseDies, C!Raise, AP!Raise, C!RqFails, AP!RqFails, C!Move,
         AP!Move, C!Idle, AP!Idle, C!dbVars, C!results, AP!dbVars, AP!results
<1>20. C!WorkerDies(w) => AP!WorkerDies(w)
  BY <1>0 DEF C!WorkerDies, AP!WorkerDies, C!Idle, AP!Idle, C!rqVars, AP!rqVars, C!dbVars, C!results,
         AP!dbVars, AP!results
<1> QED
  BY <1>1, <1>2, <1>3, <1>4, <1>5, <1>6, <1>7, <1>8, <1>9, <1>10, <1>11, <1>12, <1>13,
         <1>14, <1>15, <1>16, <1>17, <1>18, <1>19, <1>20 DEF C!Step, AP!Step

\* So is one of RQ.
LEMMA SameRq ==
    ASSUME Bounded, UNCHANGED ingestVars, NEW d \in DocIds, C!Abandon(d) \/ C!Schedule(d)
    PROVE  AP!Abandon(d) \/ AP!Schedule(d)
<1>0. /\ UNCHANGED C!mishaps => UNCHANGED AP!mishaps
      /\ \A kind : C!Strike(kind) => AP!Strike(kind)
  BY LostKept, SameMishaps
<1>1. C!Abandon(d) => AP!Abandon(d)
  BY <1>0 DEF C!Abandon, AP!Abandon, C!Held, AP!Held, C!RqFails, AP!RqFails, C!Move,
         AP!Move, C!dbVars, C!results, AP!dbVars, AP!results, C!horse, AP!horse
<1>2. C!Schedule(d) => AP!Schedule(d)
  BY <1>0 DEF C!Schedule, AP!Schedule, C!Move, AP!Move, C!dbVars, C!results, AP!dbVars,
       AP!results, C!horse,
         AP!horse
<1> QED
  BY <1>1, <1>2

\* A step brings no fault of classification, or one.
LEMMA FaultsStrike ==
    ASSUME [Next]_vars
    PROVE  UNCHANGED C!mishaps \/ \E kind \in C!FaultKinds : C!Strike(kind)
<1>1. ASSUME NEW w \in Classifiers, C!Step(w)
      PROVE  UNCHANGED C!mishaps \/ \E kind \in C!FaultKinds : C!Strike(kind)
  BY <1>1 DEF C!Step, C!Dequeue, C!FindJob, C!NoActiveJob, C!LookupFails, C!MarkRunning,
         C!MarkRunningFails, C!RunPipeline, C!PipelineFails, C!UploadOverlay,
         C!OverlayFails, C!FlushPrediction, C!FlushAsset, C!FlushJob, C!FlushAudit, C!Flush, C!CommitResult, C!PersistFails, C!Return,
         C!MarkRetryable, C!MarkRetryableFails, C!TimeoutOutsideTry, C!TimeoutInsideTry,
         C!HorseDies, C!WorkerDies, C!FaultKinds
<1>2. ASSUME NEW d \in DocIds, C!Abandon(d) \/ C!Schedule(d)
      PROVE  UNCHANGED C!mishaps \/ \E kind \in C!FaultKinds : C!Strike(kind)
  BY <1>2 DEF C!Abandon, C!Schedule, C!FaultKinds
<1>3. CASE \/ Vendor \/ Register \/ \E m \in Models : Deploy(m)
           \/ \E w \in Ingesters : Ingest(w)
           \/ UNCHANGED vars
  BY <1>3 DEF Vendor, Register, Deploy, Ingest, vars, classifyVars, C!mishaps
<1> QED
  BY <1>1, <1>2, <1>3 DEF Next, Classify, Abandon, Schedule

\* The bound holds whatever fails.
LEMMA BoundKept ==
    ASSUME Bounded, [Next]_vars
    PROVE  Bounded'
<1> QED
  BY FaultsStrike, PipelineAssumption DEF Bounded, C!Strike, C!mishaps

-----------------------------------------------------------------------------
(* An ingestion worker is a producer.                                      *)

\* The effects and the locality of a worker's step, as proved of Ingestion.
LEMMA WorkerEffects ==
    ASSUME IP!Typed, NEW w \in Ingesters, Ingest(w)
    PROVE  /\ IP!Local(w)
           /\ \/ IP!Quiet(w) \/ IP!RollsBack(w) \/ IP!CommitsRows(w) \/ IP!CommitsJob(w)
              \/ IP!Create(w) \/ IP!Upload(w) \/ IP!UploadFails(w)
              \/ IP!Enqueue(w) \/ IP!EnqueueFails(w)
<1>1. IP!Progress(w) \/ IP!Mishap(w)
  BY SameWorker DEF Ingest
<1>2. IP!Local(w)
  BY <1>1, IP!Locality, IngestionAssumed
  DEF IP!IngestionAssumption, IP!RowsAssumption, IP!FaultKinds, IP!Rows
<1>3. \/ IP!Quiet(w) \/ IP!RollsBack(w) \/ IP!CommitsRows(w) \/ IP!CommitsJob(w)
      \/ IP!Create(w) \/ IP!Upload(w) \/ IP!UploadFails(w)
      \/ IP!Enqueue(w) \/ IP!EnqueueFails(w)
  BY <1>1, IP!Effects, IngestionAssumed
  DEF IP!IngestionAssumption, IP!RowsAssumption, IP!FaultKinds, IP!Rows
<1> QED
  BY <1>2, <1>3

\* What Ingest leaves alone of classification's state.
Aside ==
    UNCHANGED <<retries, predictions, assets, audits, overlays, cpc, doc, csess, alarm, scheduler,
                cfaults, cstruck>>

\* A document in the hands of a worker: nobody else's, not filed, not queued twice.
LEMMA OneSender ==
    ASSUME Supply, NEW w \in Ingesters, ipc[w] \in {"enqueue", "commit"}
    PROVE  /\ cur[w].doc \in DocIds \ jobs
           /\ ipc[w] = "enqueue" => cur[w].doc \notin rq
           /\ ipc[w] = "commit" => cur[w].doc \in rq
           /\ jobs \subseteq rq /\ rq \subseteq DocIds
           /\ \A v \in Ingesters \ {w} : ipc[v] = "commit" => cur[v].doc # cur[w].doc
<1>1. cur[w].doc \in txn[w] /\ txn[w] \subseteq DocIds
  BY DEF Supply, IP!Typed, IP!InHand, IP!TypeOK, IP!WorkersOK
<1>2. cur[w].doc \notin saved
  BY <1>1 DEF Supply, IP!Typed, IP!Owned
<1>3. jobs \subseteq saved /\ jobs \subseteq rq /\ rq \subseteq DocIds
  BY DEF Supply, IP!Typed, IP!TypeOK, IP!StoresOK, IP!Backed, IP!JobsAreBacked
<1>4. /\ ipc[w] = "enqueue" => cur[w].doc \notin rq
      /\ ipc[w] = "commit" => cur[w].doc \in rq
  BY DEF Supply, IP!Unpushed, IP!Backed, IP!InFlight
<1>5. \A v \in Ingesters \ {w} : ipc[v] = "commit" => cur[v].doc # cur[w].doc
  BY <1>1 DEF Supply, IP!Typed, IP!InHand, IP!Owned
<1> QED
  BY <1>1, <1>2, <1>3, <1>4, <1>5

\* Without a push or a commit classification notices nothing.
LEMMA Unnoticed ==
    ASSUME AP!Typed, Aside, jobRow' = JobRows, places' = Messages, jobs' = jobs, rq' = rq,
           \A v \in Ingesters : /\ ipc'[v] = "commit" <=> ipc[v] = "commit"
                                /\ ipc[v] = "commit" => cur'[v] = cur[v]
    PROVE  UNCHANGED AP!vars
<1>1. jobRow' = jobRow /\ places' = places
  BY DEF JobRows, Messages, AP!Typed, AP!TypeOK, AP!StoresOK
<1>2. producer' = producer
  BY DEF producer, Committing
<1>3. Lost' = Lost
  BY <1>2 DEF Lost
<1> QED
  BY <1>1, <1>2, <1>3 DEF Aside, AP!vars, AP!rqVars, AP!dbVars, AP!results, AP!horse, AP!mishaps

\* A message whose sender does not come to commit it is lost.
LEMMA LosesMessage ==
    ASSUME Supply, AP!Typed, Bounded, Aside, jobRow' = JobRows, places' = Messages,
           NEW w \in Ingesters, IP!Local(w),
           ipc[w] \in {"enqueue", "commit"}, ipc'[w] # "commit",
           jobs' = jobs, rq' = rq \cup {cur[w].doc}
    PROVE  AP!NeverCommits(cur[w].doc)
<1> DEFINE d == cur[w].doc
<1>1. /\ d \in DocIds \ jobs /\ jobs \subseteq rq /\ rq \subseteq DocIds
      /\ ipc[w] = "enqueue" => d \notin rq
      /\ ipc[w] = "commit" => d \in rq
      /\ \A v \in Ingesters \ {w} : ipc[v] = "commit" => cur[v].doc # d
  BY OneSender
<1>2. \A v \in Ingesters \ {w} : ipc'[v] = ipc[v] /\ cur'[v] = cur[v]
  BY DEF IP!Local
<1>3. producer[d] = IF ipc[w] = "commit" THEN "pushed" ELSE "none"
  BY <1>1 DEF producer, Committing
<1>4. \A v \in Ingesters : ipc'[v] = "commit" => cur'[v].doc # d
  BY <1>1, <1>2
<1>5. \A e \in DocIds \ {d} : Committing(e)' <=> Committing(e)
  BY <1>2 DEF Committing
<1>6. producer' = [producer EXCEPT ![d] = "lost"]
  <2>1. \A e \in DocIds : producer'[e] = IF e = d THEN "lost" ELSE producer[e]
    BY <1>1, <1>4, <1>5 DEF producer, Committing
  <2>2. producer = [e \in DocIds |-> producer[e]] /\ producer' = [e \in DocIds |-> producer'[e]]
    BY DEF producer
  <2> QED
    BY <2>1, <2>2
<1>7. Lost' = Lost \cup {d} /\ d \notin Lost
  BY <1>1, <1>3, <1>6 DEF Lost, producer
<1>8. Cardinality(Lost \cup {d}) = Cardinality(Lost) + 1
  BY <1>7, LostCounted, FS_AddElement
<1>9. Cardinality(Lost \cup {d}) <= Cardinality(DocIds)
  <2>1. Lost \cup {d} \subseteq DocIds
    BY <1>1 DEF Lost
  <2> QED
    BY <2>1, PipelineAssumption, FS_Subset
<1>10. AP!Strike("producer")
  <2>1. cfaults + Cardinality(Lost) < MaxClassifyFaults + Cardinality(DocIds)
    BY <1>8, <1>9, LostCounted, DocumentsCounted, PipelineAssumption DEF Bounded
  <2>2. cfaults' + Cardinality(Lost') = (cfaults + Cardinality(Lost)) + 1
    BY <1>7, <1>8, LostCounted DEF Aside, Bounded
  <2> QED
    BY <1>7, <2>1, <2>2 DEF AP!Strike, Aside
<1>11. jobRow' = jobRow
  BY DEF JobRows, AP!Typed, AP!TypeOK, AP!StoresOK
<1>12. places' = IF producer[d] = "none" THEN [places EXCEPT ![d] = {"queue"}] ELSE places
  BY <1>1, <1>3 DEF Messages, AP!Typed, AP!TypeOK, AP!StoresOK
<1> QED
  BY <1>3, <1>6, <1>10, <1>11, <1>12 DEF AP!NeverCommits, Aside, AP!dbVars, AP!results, AP!horse

\* A push.
LEMMA Pushes ==
    ASSUME Supply, AP!Typed, Aside, jobRow' = JobRows, places' = Messages,
           NEW w \in Ingesters, IP!Local(w), IP!Enqueue(w)
    PROVE  AP!Push(cur[w].doc)
<1> DEFINE d == cur[w].doc
<1>1. /\ d \in DocIds \ jobs /\ jobs \subseteq rq /\ d \notin rq
  BY OneSender DEF IP!Enqueue
<1>2. /\ \A v \in Ingesters \ {w} : ipc'[v] = ipc[v] /\ cur'[v] = cur[v]
      /\ ipc[w] = "enqueue" /\ ipc'[w] = "commit" /\ cur' = cur
      /\ jobs' = jobs /\ rq' = rq \cup {d}
  BY DEF IP!Local, IP!Enqueue, IP!dbVars, Supply, IP!Typed, IP!TypeOK, IP!WorkersOK
<1>3. producer[d] = "none"
  BY <1>1 DEF producer
<1>4. Committing(d)' /\ \A e \in DocIds \ {d} : Committing(e)' <=> Committing(e)
  BY <1>2 DEF Committing
<1>5. producer' = [producer EXCEPT ![d] = "pushed"]
  BY <1>1, <1>2, <1>4 DEF producer
<1>6. Lost' = Lost
  BY <1>1, <1>3, <1>5 DEF Lost, producer
<1>7. jobRow' = jobRow /\ places' = [places EXCEPT ![d] = {"queue"}]
  BY <1>1, <1>2 DEF JobRows, Messages, AP!Typed, AP!TypeOK, AP!StoresOK
<1> QED
  BY <1>3, <1>5, <1>6, <1>7 DEF AP!Push, Aside, AP!dbVars, AP!results, AP!horse, AP!mishaps

\* A commit.
LEMMA FilesJob ==
    ASSUME Supply, AP!Typed, Aside, jobRow' = JobRows, places' = Messages,
           NEW w \in Ingesters, IP!Local(w), IP!CommitsJob(w)
    PROVE  AP!Commits(cur[w].doc)
<1> DEFINE d == cur[w].doc
<1>1. /\ d \in DocIds \ jobs /\ jobs \subseteq rq /\ d \in rq
      /\ \A v \in Ingesters \ {w} : ipc[v] = "commit" => cur[v].doc # d
  BY OneSender DEF IP!CommitsJob
<1>2. /\ \A v \in Ingesters \ {w} : ipc'[v] = ipc[v] /\ cur'[v] = cur[v]
      /\ ipc[w] = "commit" /\ ipc'[w] = "loop"
      /\ jobs' = jobs \cup {d} /\ rq' = rq
  BY DEF IP!Local, IP!CommitsJob
<1>3. producer[d] = "pushed"
  BY <1>1, <1>2 DEF producer, Committing
<1>4. \A e \in DocIds \ {d} : Committing(e)' <=> Committing(e)
  BY <1>2 DEF Committing
<1>5. producer' = [producer EXCEPT ![d] = "done"]
  BY <1>1, <1>2, <1>4 DEF producer
<1>6. Lost' = Lost
  BY <1>1, <1>3, <1>5 DEF Lost, producer
<1>7. jobRow' = [jobRow EXCEPT ![d] = "queued"] /\ places' = places
  BY <1>1, <1>2 DEF JobRows, Messages, AP!Typed, AP!TypeOK, AP!StoresOK
<1> QED
  BY <1>3, <1>5, <1>6, <1>7 DEF AP!Commits, Aside, AP!rqVars, AP!results, AP!horse, AP!mishaps

\* A step of ingestion is one of the producer, or changes nothing of it.
LEMMA IngestFeeds ==
    ASSUME Supply, AP!Typed, Bounded, NEW w \in Ingesters, Ingest(w)
    PROVE  AP!Next \/ UNCHANGED AP!vars
<1>1. IP!Local(w) /\ Aside /\ jobRow' = JobRows /\ places' = Messages
  BY WorkerEffects DEF Supply, Ingest, Aside
<1>2. \A v \in Ingesters \ {w} : ipc'[v] = ipc[v] /\ cur'[v] = cur[v]
  BY <1>1 DEF IP!Local
<1>3. ipc \in [Ingesters -> {"down", "start", "loop", "lookup", "create",
                             "upload", "enqueue", "commit", "reject"}]
  BY DEF Supply, IP!Typed, IP!TypeOK, IP!WorkersOK
<1>4. CASE IP!Quiet(w)
  BY <1>1, <1>2, <1>4, Unnoticed DEF IP!Quiet, IP!Working
<1>5. CASE IP!RollsBack(w)
  <2>1. CASE ipc[w] = "commit"
    <3>1. cur[w].doc \in DocIds /\ rq' = rq \cup {cur[w].doc}
      BY <1>5, <2>1, OneSender DEF IP!RollsBack
    <3> QED
      BY <1>1, <1>5, <2>1, <3>1, LosesMessage DEF IP!RollsBack, AP!Next, AP!Produce
  <2>2. CASE ipc[w] # "commit"
    BY <1>1, <1>2, <1>5, <2>2, Unnoticed DEF IP!RollsBack
  <2> QED
    BY <2>1, <2>2
<1>6. CASE IP!CommitsRows(w)
  BY <1>1, <1>2, <1>6, Unnoticed DEF IP!CommitsRows
<1>7. CASE IP!CommitsJob(w)
  <2>1. cur[w].doc \in DocIds
    BY <1>7, OneSender DEF IP!CommitsJob
  <2> QED
    BY <1>1, <1>7, <2>1, FilesJob DEF AP!Next, AP!Produce
<1>8. CASE IP!Create(w) \/ IP!Upload(w) \/ IP!UploadFails(w)
  BY <1>1, <1>2, <1>3, <1>8, Unnoticed
  DEF IP!Create, IP!Upload, IP!UploadFails, IP!NextFile, IP!dbVars
<1>9. CASE IP!Enqueue(w)
  <2>1. cur[w].doc \in DocIds
    BY <1>9, OneSender DEF IP!Enqueue
  <2> QED
    BY <1>1, <1>9, <2>1, Pushes DEF AP!Next
<1>10. CASE IP!EnqueueFails(w)
  <2>1. /\ ipc[w] = "enqueue" /\ ipc'[w] = "loop" /\ jobs' = jobs
        /\ rq' \in {rq, rq \cup {cur[w].doc}}
    BY <1>3, <1>10 DEF IP!EnqueueFails, IP!NextFile, IP!dbVars
  <2>2. CASE rq' = rq
    BY <1>1, <1>2, <2>1, <2>2, Unnoticed
  <2>3. CASE rq' = rq \cup {cur[w].doc}
    <3>1. cur[w].doc \in DocIds
      BY <2>1, OneSender
    <3> QED
      BY <1>1, <2>1, <2>3, <3>1, LosesMessage DEF AP!Next, AP!Produce
  <2> QED
    BY <2>1, <2>2, <2>3
<1> QED
  BY <1>4, <1>5, <1>6, <1>7, <1>8, <1>9, <1>10, WorkerEffects DEF Supply

-----------------------------------------------------------------------------
(* The refinement, and what it brings.                                     *)

\* Every step of the pipeline is one of Classification or changes nothing of it.
LEMMA PipelineStep ==
    ASSUME Supply, AP!Typed, Bounded, [Next]_vars
    PROVE  AP!Next \/ UNCHANGED AP!vars
<1>1. ASSUME NEW w \in Classifiers, Classify(w)
      PROVE  AP!Next
  BY <1>1, SameStep DEF Classify, AP!Next
<1>2. ASSUME NEW d \in DocIds, Abandon(d) \/ Schedule(d)
      PROVE  AP!Next
  BY <1>2, SameRq DEF Abandon, Schedule, AP!Next
<1>3. CASE Vendor \/ Register \/ (\E m \in Models : Deploy(m)) \/ UNCHANGED vars
  <2>1. UNCHANGED <<jobs, rq, ipc, cur, classifyVars>>
    BY <1>3 DEF Vendor, I!Vendor, I!VendorWrite, I!VendorRemove, I!worker, I!dbVars, Register,
                Deploy, vars, ingestVars
  <2>2. producer' = producer
    BY <2>1 DEF producer, Committing
  <2>3. Lost' = Lost
    BY <2>2 DEF Lost
  <2> QED
    BY <2>1, <2>2, <2>3
    DEF classifyVars, AP!vars, AP!rqVars, AP!dbVars, AP!results, AP!horse, AP!mishaps
<1> QED
  BY <1>1, <1>2, <1>3, IngestFeeds DEF Next

\* The pipeline starts where Classification does, with no message lost.
LEMMA PipelineInit == Init => AP!Init /\ Bounded
<1> SUFFICES ASSUME Init PROVE AP!Init /\ Bounded
  OBVIOUS
<1>1. producer = [d \in DocIds |-> "none"]
  BY DEF Init, I!Init, producer
<1>2. Lost = {} /\ Cardinality(Lost) = 0
  BY <1>1, FS_EmptySet DEF Lost
<1>3. C!Init
  BY DEF Init
<1> QED
  BY <1>1, <1>2, <1>3, PipelineAssumption DEF C!Init, AP!Init, Bounded

\* Seen by itself, classification does what its own specification says.
LEMMA ClassifiesAlone == Spec => AP!Spec
<1>1. AP!Init => AP!Typed
  BY AP!TypedInit, ClassificationAssumed DEF AP!ClassificationAssumption, AP!FaultKinds
<1>2. AP!Typed /\ [AP!Next]_(AP!vars) => AP!Typed'
  BY AP!TypedStep, ClassificationAssumed DEF AP!ClassificationAssumption, AP!FaultKinds
<1>3. Supply /\ AP!Typed /\ Bounded /\ [Next]_vars
        => [AP!Next]_(AP!vars) /\ AP!Typed' /\ Bounded'
  BY <1>2, PipelineStep, BoundKept
<1> QED
  BY <1>1, <1>3, PipelineInit, Supplied, PTL DEF Spec, AP!Spec

\* Ingestion is the producer that Classification assumes: the push before the
\* commit, and all that can go wrong between them (ingestion.py:164-186).
THEOREM IngestionFeedsClassification == Spec => FeedsClassification
<1>1. AP!Init => Alone!Init
  BY DEF AP!Init, Alone!Init
<1>2. [AP!Next]_(AP!vars) => [Alone!Next]_(Alone!vars)
  BY DEF AP!vars, Alone!vars, AP!rqVars, Alone!rqVars, AP!dbVars, AP!results, Alone!dbVars,
       Alone!results, AP!horse,
         Alone!horse, AP!mishaps, Alone!mishaps, AP!Strike, Alone!Strike, AP!Push,
         Alone!Push, AP!Commits, Alone!Commits, AP!NeverCommits, Alone!NeverCommits,
         AP!Produce, Alone!Produce, AP!Move, Alone!Move, AP!RqFails, Alone!RqFails,
         AP!Dequeue, Alone!Dequeue, AP!Held, Alone!Held, AP!Abandon, Alone!Abandon,
         AP!Schedule, Alone!Schedule, AP!Idle, Alone!Idle, AP!Raise, Alone!Raise,
         AP!HorseDies, Alone!HorseDies, AP!WorkerDies, Alone!WorkerDies, AP!Goto,
         Alone!Goto, AP!Active, Alone!Active, AP!FindJob, Alone!FindJob, AP!NoActiveJob,
         Alone!NoActiveJob, AP!LookupFails, Alone!LookupFails, AP!Marked, Alone!Marked,
         AP!MarkRunning, Alone!MarkRunning, AP!MarkRunningFails, Alone!MarkRunningFails,
         AP!RunPipeline, Alone!RunPipeline, AP!UploadOverlay, Alone!UploadOverlay,
         AP!Persisting, Alone!Persisting, AP!Flushed, Alone!Flushed, AP!Flush, Alone!Flush,
         AP!FlushPrediction, Alone!FlushPrediction, AP!FlushAsset, Alone!FlushAsset,
         AP!FlushJob, Alone!FlushJob, AP!FlushAudit, Alone!FlushAudit, AP!ResultCommitted, Alone!ResultCommitted,
         AP!CommitResult, Alone!CommitResult, AP!Return, Alone!Return, AP!PipelineFails,
         Alone!PipelineFails, AP!OverlayFails, Alone!OverlayFails, AP!PersistFails,
         Alone!PersistFails, AP!MarkRetryable, Alone!MarkRetryable, AP!MarkRetryableFails,
         Alone!MarkRetryableFails, AP!TimeoutOutsideTry, Alone!TimeoutOutsideTry,
         AP!TimeoutInsideTry, Alone!TimeoutInsideTry, AP!Step, Alone!Step, AP!Next,
         Alone!Next
<1> QED
  BY <1>1, <1>2, ClassifiesAlone, PTL DEF AP!Spec, Alone!Spec, FeedsClassification

\* A work-horse past its lookup finds a committed document and its original, for
\* any number of workers of either kind (inference_worker.py:82-88).
THEOREM WorkFound == Spec => []WorkIsThere
<1>1. AP!Spec => []AP!Exclusive
  BY AP!ExclusiveInvariant, ClassificationAssumed
  DEF AP!ExclusiveInvariant, AP!ClassificationAssumption, AP!FaultKinds
<1>2. AP!Spec => []AP!Typed
  BY AP!TypedInvariant, ClassificationAssumed
  DEF AP!TypedInvariant, AP!ClassificationAssumption, AP!FaultKinds
<1>3. Supply /\ AP!Typed /\ AP!Exclusive => WorkIsThere
  <2> SUFFICES ASSUME Supply, AP!Typed, AP!Exclusive,
                      NEW w \in Classifiers, cpc[w] \notin {"idle", "lookup"}
               PROVE  doc[w] \in saved \cap blobs
    BY DEF WorkIsThere
  <2>1. doc[w] \in DocIds /\ producer[doc[w]] = "done"
    BY DEF AP!Typed, AP!Holding, AP!Exclusive, AP!Unsent
  <2>2. doc[w] \in jobs
    BY <2>1 DEF producer
  <2> QED
    BY <2>2 DEF Supply, IP!Backed, IP!JobsAreBacked
<1> QED
  BY <1>1, <1>2, <1>3, ClassifiesAlone, Supplied, PTL

-----------------------------------------------------------------------------
(* The model that a prediction names, and the one that made it.            *)

\* The faults on its side stay within their bound.
LEMMA BoundedInvariant == Spec => []Bounded
<1>1. Init => Bounded
  BY PipelineInit
<1>2. Bounded /\ [Next]_vars => Bounded'
  BY BoundKept
<1> QED
  BY <1>1, <1>2, PTL DEF Spec

\* What the two workers' own invariants say, for use with the models.
Working == Supply /\ AP!Typed /\ AP!Exclusive /\ Bounded

\* What was proved of both holds of the pipeline.
LEMMA WorkingInvariant == Spec => []Working
<1>1. AP!Spec => []AP!Exclusive
  BY AP!ExclusiveInvariant, ClassificationAssumed
  DEF AP!ExclusiveInvariant, AP!ClassificationAssumption, AP!FaultKinds
<1>2. AP!Spec => []AP!Typed
  BY AP!TypedInvariant, ClassificationAssumed
  DEF AP!TypedInvariant, AP!ClassificationAssumption, AP!FaultKinds
<1> QED
  BY <1>1, <1>2, ClassifiesAlone, Supplied, BoundedInvariant, PTL DEF Working

\* A work-horse that has a model's work in hand.
HoldsModel(w) == cpc[w] \in {"overlay"} \cup C!Persisting \/ csess[w] \in C!Flushed

\* Types, and a model in hand from the load to the end of the work-horse.
Equipped ==
    /\ deployed \in Models /\ registered \in Seq(Models) /\ registered # <<>>
    /\ naming \in [Ingesters -> Models \cup {None}]
    /\ sent \in [DocIds -> Models \cup {None}]
    /\ loaded \in [Classifiers -> Models \cup {None}]
    /\ madeBy \in [DocIds -> SUBSET Models]
    /\ hasty \in BOOLEAN /\ cstruck \subseteq ClassifyFaults
    /\ \A w \in Classifiers :
          /\ cpc[w] = "idle" => loaded[w] = None
          /\ HoldsModel(w) => loaded[w] \in Models
    /\ \A d \in DocIds : predictions[d] = 0 => madeBy[d] = {}

\* The latest model is one that was registered.
LEMMA LatestRegistered ==
    ASSUME registered \in Seq(Models), registered # <<>>
    PROVE  Latest \in Models
<1>1. Len(registered) \in Nat /\ Len(registered) >= 1
  BY LenProperties
<1>2. Len(registered) \in 1 .. Len(registered)
  BY <1>1
<1> QED
  BY <1>2, ElementOfSeq DEF Latest

\* How a work-horse moves, and what it commits.
LEMMA HorseMoves ==
    ASSUME Working, NEW w \in Classifiers, Classify(w)
    PROVE  /\ \A v \in Classifiers \ {w} : cpc'[v] = cpc[v] /\ doc'[v] = doc[v] /\ csess'[v] = csess[v]
           /\ \/ /\ cpc[w] # "idle" /\ cpc'[w] # "idle" /\ doc'[w] = doc[w]
                 /\ HoldsModel(w)' =>
                       \/ cpc[w] = "work" /\ cpc'[w] = "overlay"
                       \/ HoldsModel(w)
              \/ cpc[w] # "idle" /\ cpc'[w] = "idle" /\ ~HoldsModel(w)'
              \/ cpc[w] = "idle" /\ cpc'[w] = "lookup" /\ ~HoldsModel(w)'
           /\ \/ predictions' = predictions
              \/ /\ HoldsModel(w)
                 /\ cpc[w] # "idle" /\ predictions' = [predictions EXCEPT ![doc[w]] = @ + 1]
<1>1. AP!Step(w)
  BY SameStep DEF Classify, Working
<1>2. /\ AP!Local(w)
      /\ AP!GoesOn(w) \/ (AP!Idle(w) /\ cpc[w] # "idle") \/ \E d \in DocIds : AP!Dequeue(w, d)
      /\ \/ UNCHANGED AP!dbVars \/ AP!MarksRow(w) \/ AP!FailsRow(w) \/ AP!Succeeds(w)
         \/ AP!SucceedsLate(w)
  <2>1. AP!Typed
    BY DEF Working
  <2>2. AP!Local(w)
    BY <1>1, <2>1, AP!Locality, ClassificationAssumed DEF AP!ClassificationAssumption, AP!FaultKinds
  <2>3. AP!GoesOn(w) \/ (AP!Idle(w) /\ cpc[w] # "idle") \/ \E d \in DocIds : AP!Dequeue(w, d)
    BY <1>1, <2>1, AP!Moves, ClassificationAssumed DEF AP!ClassificationAssumption, AP!FaultKinds
  <2>4. \/ UNCHANGED AP!dbVars \/ AP!MarksRow(w) \/ AP!FailsRow(w) \/ AP!Succeeds(w)
        \/ AP!SucceedsLate(w)
    BY <1>1, <2>1, AP!DbEffects, ClassificationAssumed DEF AP!ClassificationAssumption, AP!FaultKinds
  <2> QED
    BY <2>2, <2>3, <2>4
<1>. USE DEF C!Persisting, C!Flushed, AP!Persisting, AP!Flushed
<1>3. /\ cpc \in [Classifiers -> {"idle", "lookup", "mark", "remark", "work", "overlay",
                                  "after", "fail"} \cup C!Persisting]
      /\ csess \in [Classifiers -> {"clean", "broken"} \cup C!Flushed]
  BY DEF Working, AP!Typed, AP!TypeOK, AP!HorsesOK
<1>4. csess[w] \in C!Flushed => cpc[w] \in {"fail"} \cup C!Persisting
  BY DEF Working, AP!Exclusive, AP!Stored, AP!StoredBy
<1>5. \/ predictions' = predictions
      \/ /\ HoldsModel(w)
         /\ cpc[w] # "idle" /\ predictions' = [predictions EXCEPT ![doc[w]] = @ + 1]
  BY <1>2 DEF AP!dbVars, AP!results, AP!MarksRow, AP!FailsRow, AP!Succeeds, AP!SucceedsLate,
       AP!ResultCommitted, HoldsModel
<1>6. CASE AP!GoesOn(w)
  <2>1. /\ cpc[w] # "idle" /\ cpc'[w] # "idle" /\ doc'[w] = doc[w]
        /\ HoldsModel(w)' =>
              \/ cpc[w] = "work" /\ cpc'[w] = "overlay"
              \/ HoldsModel(w)
    BY <1>3, <1>6 DEF AP!GoesOn, AP!Persists, HoldsModel
  <2> QED
    BY <1>2, <1>5, <2>1 DEF AP!Local
<1>7. CASE AP!Idle(w) /\ cpc[w] # "idle"
  <2>1. cpc'[w] = "idle" /\ ~HoldsModel(w)'
    BY <1>3, <1>7 DEF AP!Idle, HoldsModel
  <2> QED
    BY <1>2, <1>5, <1>7, <2>1 DEF AP!Local
<1>8. CASE \E d \in DocIds : AP!Dequeue(w, d)
  <2>1. cpc[w] = "idle" /\ cpc'[w] = "lookup" /\ ~HoldsModel(w)'
    BY <1>3, <1>4, <1>8 DEF AP!Dequeue, HoldsModel
  <2> QED
    BY <1>2, <1>5, <2>1 DEF AP!Local
<1> QED
  BY <1>2, <1>6, <1>7, <1>8

\* A work-horse loads a model before it has anything to file.
LEMMA EquippedHorse ==
    ASSUME Working, Equipped, NEW w \in Classifiers, Classify(w)
    PROVE  Equipped'
<1>1. /\ loaded' = [loaded EXCEPT ![w] = IF cpc[w] = "work" /\ cpc'[w] = "overlay" THEN deployed
                                         ELSE IF cpc'[w] = "idle" THEN None ELSE @]
      /\ madeBy' = [d \in DocIds |-> IF predictions'[d] > predictions[d]
                                     THEN madeBy[d] \cup {loaded[w]} ELSE madeBy[d]]
      /\ UNCHANGED <<deployed, registered, naming, sent, hasty>>
  BY DEF Classify
<1>2. predictions \in [DocIds -> Nat] /\ (cpc[w] # "idle" => doc[w] \in DocIds)
  BY DEF Working, AP!Typed, AP!TypeOK, AP!StoresOK, AP!Holding
<1>3. \A d \in DocIds : /\ predictions'[d] > predictions[d] => loaded[w] \in Models
                        /\ predictions'[d] >= predictions[d]
  <2>1. \/ predictions' = predictions
        \/ /\ loaded[w] \in Models
           /\ cpc[w] # "idle" /\ predictions' = [predictions EXCEPT ![doc[w]] = @ + 1]
    BY HorseMoves DEF Equipped
  <2> QED
    BY <1>2, <2>1
<1>4. madeBy' \in [DocIds -> SUBSET Models]
  BY <1>1, <1>3 DEF Equipped
<1>5. \A d \in DocIds : predictions'[d] = 0 => madeBy'[d] = {}
  <2>1. TAKE d \in DocIds
  <2>2. predictions[d] \in Nat
    BY <1>2
  <2>3. predictions'[d] = 0 => predictions[d] = 0 /\ ~(predictions'[d] > predictions[d])
    BY <1>3, <2>2
  <2> QED
    BY <1>1, <2>3 DEF Equipped
<1>6. loaded' \in [Classifiers -> Models \cup {None}]
  BY <1>1 DEF Equipped
<1>7. \A v \in Classifiers :
          /\ cpc'[v] = "idle" => loaded'[v] = None
          /\ HoldsModel(v)' => loaded'[v] \in Models
  <2>1. TAKE v \in Classifiers
  <2>2. CASE v # w
    BY <1>1, <2>2, HorseMoves DEF Equipped, HoldsModel
  <2>3. CASE v = w
    <3>1. loaded'[w] = IF cpc[w] = "work" /\ cpc'[w] = "overlay" THEN deployed
                       ELSE IF cpc'[w] = "idle" THEN None ELSE loaded[w]
      BY <1>1 DEF Equipped
    <3> QED
      BY <2>3, <3>1, HorseMoves DEF Equipped
  <2> QED
    BY <2>2, <2>3
<1>8. cstruck' \subseteq ClassifyFaults
  BY FaultsStrike DEF Next, Equipped, C!mishaps, C!Strike
<1> QED
  BY <1>1, <1>4, <1>5, <1>6, <1>7, <1>8 DEF Equipped

\* Every step keeps the model variables typed and the work-horses equipped.
LEMMA EquippedStep == ASSUME Working, Equipped, [Next]_vars PROVE Equipped'
<1>1. ASSUME NEW w \in Ingesters, Ingest(w)
      PROVE  Equipped'
  <2>1. /\ naming' = [naming EXCEPT ![w] = IF Connects(w) THEN Latest
                                           ELSE IF ipc'[w] \in {"down", "start"} THEN None ELSE @]
        /\ sent' = [d \in DocIds |-> IF d \in rq' \ rq THEN naming[w] ELSE sent[d]]
        /\ hasty' = (hasty \/ (Connects(w) /\ ~Registered(deployed)))
        /\ UNCHANGED <<predictions, cpc, csess, cstruck, deployed, registered, loaded, madeBy>>
    BY <1>1 DEF Ingest, Names
  <2>2. naming' \in [Ingesters -> Models \cup {None}]
    BY <2>1, LatestRegistered DEF Equipped
  <2>3. sent' \in [DocIds -> Models \cup {None}]
    BY <2>1 DEF Equipped
  <2> QED
    BY <2>1, <2>2, <2>3 DEF Equipped, HoldsModel
<1>2. CASE Vendor \/ (\E d \in DocIds : Abandon(d) \/ Schedule(d)) \/ UNCHANGED vars
  <2>1. UNCHANGED <<predictions, cpc, csess, modelVars>>
    BY <1>2 DEF Vendor, classifyVars, Abandon, C!Abandon, Schedule, C!Schedule, C!dbVars,
         C!results, C!horse, vars
  <2>2. cstruck' \subseteq ClassifyFaults
    BY FaultsStrike DEF Equipped, C!mishaps, C!Strike
  <2> QED
    BY <2>1, <2>2 DEF Equipped, HoldsModel, modelVars
<1>3. CASE Register
  <2>1. /\ registered' = Append(registered, deployed)
        /\ UNCHANGED <<predictions, cpc, csess, cstruck, deployed, naming, sent, loaded, madeBy, hasty>>
    BY <1>3 DEF Register, classifyVars
  <2>2. registered' \in Seq(Models) /\ registered' # <<>>
    BY <2>1, AppendProperties DEF Equipped
  <2> QED
    BY <2>1, <2>2 DEF Equipped, HoldsModel
<1>4. ASSUME NEW m \in Models, Deploy(m)
      PROVE  Equipped'
  BY <1>4 DEF Deploy, classifyVars, Equipped, HoldsModel
<1> QED
  BY <1>1, <1>2, <1>3, <1>4, EquippedHorse DEF Next

\* Equipped is an invariant.
LEMMA EquippedInvariant == Spec => [](Working /\ Equipped)
<1>1. Init => Equipped
  <2> SUFFICES ASSUME Init PROVE Equipped
    OBVIOUS
  <2>1. <<First>> \in Seq(Models) /\ <<First>> # <<>>
    BY PipelineAssumption
  <2>2. /\ \A w \in Classifiers : cpc[w] = "idle" /\ csess[w] = "clean"
        /\ cstruck = {}
    BY DEF Init, C!Init
  <2> QED
    BY <2>1, <2>2, PipelineAssumption DEF Init, Equipped, HoldsModel, C!Persisting, C!Flushed
<1>2. Working /\ Equipped /\ [Next]_vars => Equipped'
  BY EquippedStep
<1> QED
  BY <1>1, <1>2, WorkingInvariant, PTL DEF Spec

\* Type correctness of the whole.
THEOREM PipelineTyped == Spec => []TypeOK
<1>1. Working /\ Equipped => TypeOK
  <2> SUFFICES ASSUME Working, Equipped PROVE TypeOK
    OBVIOUS
  <2>1. I!TypeOK
    BY DEF Working, Supply, IP!Typed, IP!TypeOK, I!TypeOK, IP!StoresOK, I!StoresOK, IP!WorkersOK,
           I!WorkersOK, IP!MishapsOK, I!MishapsOK, IP!Rows, I!Rows
  <2>2. C!TypeOK
    BY DEF Working, Bounded, Equipped, AP!Typed, AP!TypeOK, C!TypeOK, AP!StoresOK, C!StoresOK,
           AP!HorsesOK, C!HorsesOK, AP!MishapsOK, C!MishapsOK, AP!Places, C!Places,
           AP!Persisting, C!Persisting, AP!Flushed, C!Flushed
  <2> QED
    BY <2>1, <2>2 DEF Equipped, TypeOK
<1> QED
  BY <1>1, EquippedInvariant, PTL

\* Short of haste and of a pause: the registered model is the deployed one, or
\* nothing is under way; whoever names a model names that one, and whatever
\* runs on a model is filed under it.
Named ==
    ~hasty /\ "pause" \notin cstruck =>
        /\ deployed = Latest \/ (Drained /\ ~Registered(deployed))
        /\ \A w \in Ingesters : ipc[w] \notin {"down", "start"} => naming[w] = deployed
        /\ \A d \in DocIds : ~(places[d] \subseteq {"finished", "failed"}) => sent[d] = deployed
        /\ \A w \in Classifiers : loaded[w] # None => loaded[w] = sent[doc[w]]
        /\ \A d \in DocIds : madeBy[d] \subseteq {sent[d]}

\* A busy work-horse's message is neither finished nor failed.
LEMMA BusyHolds ==
    ASSUME Working, "pause" \notin cstruck, NEW w \in Classifiers, cpc[w] # "idle"
    PROVE  /\ doc[w] \in DocIds /\ "started" \in places[doc[w]]
           /\ ~(places[doc[w]] \subseteq {"finished", "failed"})
           /\ doc[w] \in rq
<1>1. doc[w] \in DocIds /\ producer[doc[w]] # "none"
  BY DEF Working, AP!Typed, AP!Holding, AP!Exclusive, AP!Unsent
<1>2. "pause" \notin (IF Lost = {} THEN cstruck ELSE cstruck \cup {"producer"})
  OBVIOUS
<1>3. "started" \in places[doc[w]]
  BY <1>2 DEF Working, AP!Exclusive, AP!OneHolder
<1>4. jobs \subseteq rq
  BY DEF Working, Supply, IP!Backed, IP!JobsAreBacked
<1>5. doc[w] \in rq
  BY <1>1, <1>4 DEF producer
<1> QED
  BY <1>1, <1>3, <1>5

\* An ingestion worker leaves the start by connecting, and pushes from one step.
LEMMA IngesterMoves ==
    ASSUME Working, NEW w \in Ingesters, Ingest(w)
    PROVE  /\ \A v \in Ingesters \ {w} : ipc'[v] = ipc[v]
           /\ ipc[w] \in {"down", "start"} /\ ipc'[w] \notin {"down", "start"} => Connects(w)
           /\ rq' # rq => ipc[w] = "enqueue"
<1>1. \A v \in Ingesters \ {w} : ipc'[v] = ipc[v]
  BY WorkerEffects DEF Working, Supply, IP!Local
<1>2. rq' # rq => ipc[w] = "enqueue"
  BY WorkerEffects DEF Working, Supply, IP!Quiet, IP!RollsBack, IP!CommitsRows, IP!CommitsJob,
     IP!Create, IP!Upload, IP!UploadFails, IP!Enqueue, IP!EnqueueFails, IP!dbVars
<1>3. ipc \in [Ingesters -> {"down", "start", "loop", "lookup", "create",
                             "upload", "enqueue", "commit", "reject"}]
  BY DEF Working, Supply, IP!Typed, IP!TypeOK, IP!WorkersOK
<1>4. ipc[w] \in {"down", "start"} /\ ipc'[w] \notin {"down", "start"} => Connects(w)
  <2>1. IP!Progress(w) \/ IP!Mishap(w)
    BY SameWorker DEF Ingest
  <2> QED
    BY <1>3, <2>1 DEF Connects, IP!Progress, IP!Mishap, IP!Start, IP!Connect, IP!Crash, IP!LinkDrops,
       IP!Poll, IP!ListFails, IP!Read, IP!ReadFails, IP!SkipDuplicate, IP!LookupFindsNone,
       IP!LookupFails, IP!Create, IP!CreateFails, IP!Upload, IP!UploadFails, IP!Enqueue,
       IP!EnqueueFails, IP!CommitIngest, IP!CommitFails, IP!MarkFailed, IP!MarkFailedRaises,
       IP!vars, IP!worker
<1> QED
  BY <1>1, <1>2, <1>4

\* A message new to the queue carries the name its worker looked up.
LEMMA NamedIngest ==
    ASSUME Working, Equipped, Named, NEW w \in Ingesters, Ingest(w)
    PROVE  Named'
<1> SUFFICES ASSUME ~hasty', "pause" \notin cstruck'
             PROVE  Named'
  BY DEF Named
<1>1. /\ naming' = [naming EXCEPT ![w] = IF Connects(w) THEN Latest
                                         ELSE IF ipc'[w] \in {"down", "start"} THEN None ELSE @]
      /\ sent' = [d \in DocIds |-> IF d \in rq' \ rq THEN naming[w] ELSE sent[d]]
      /\ hasty' = (hasty \/ (Connects(w) /\ ~Registered(deployed)))
      /\ places' = [d \in DocIds |-> IF d \in rq' \ rq THEN {"queue"} ELSE places[d]]
      /\ UNCHANGED <<predictions, cpc, doc, cstruck, deployed, registered, loaded, madeBy>>
  BY DEF Ingest, Names, Messages
<1>2. /\ deployed = Latest \/ (Drained /\ ~Registered(deployed))
      /\ \A v \in Ingesters : ipc[v] \notin {"down", "start"} => naming[v] = deployed
      /\ \A d \in DocIds : ~(places[d] \subseteq {"finished", "failed"}) => sent[d] = deployed
      /\ \A v \in Classifiers : loaded[v] # None => loaded[v] = sent[doc[v]]
      /\ \A d \in DocIds : madeBy[d] \subseteq {sent[d]}
  BY <1>1 DEF Named
<1>3. Connects(w) => deployed = Latest
  BY <1>1, <1>2
<1>4. \A d \in rq' \ rq : ipc[w] = "enqueue" /\ naming[w] = deployed
  BY <1>2, IngesterMoves
<1>5. deployed' = Latest' \/ (Drained' /\ ~Registered(deployed)')
  <2>1. CASE deployed = Latest
    BY <1>1, <2>1 DEF Latest
  <2>2. CASE Drained /\ ~Registered(deployed)
    <3>1. ~Connects(w) /\ ipc[w] \in {"down", "start"}
      BY <1>1, <2>2 DEF Drained
    <3>2. \A v \in Ingesters : ipc'[v] \in {"down", "start"}
      BY <2>2, <3>1, IngesterMoves DEF Drained
    <3>3. rq' = rq
      BY <3>1, IngesterMoves
    <3>4. \A d \in DocIds : places'[d] \subseteq {"finished", "failed"}
      BY <1>1, <2>2, <3>3 DEF Drained
    <3> QED
      BY <1>1, <2>2, <3>2, <3>4 DEF Drained, Registered
  <2> QED
    BY <1>2, <2>1, <2>2
<1>6. \A v \in Ingesters : ipc'[v] \notin {"down", "start"} => naming'[v] = deployed
  <2>1. TAKE v \in Ingesters
  <2>2. CASE v # w
    BY <1>1, <1>2, <2>2, IngesterMoves DEF Equipped
  <2>3. CASE v = w
    <3>1. naming'[w] = IF Connects(w) THEN Latest
                       ELSE IF ipc'[w] \in {"down", "start"} THEN None ELSE naming[w]
      BY <1>1 DEF Equipped
    <3> QED
      BY <1>2, <1>3, <2>3, <3>1, IngesterMoves
  <2> QED
    BY <2>2, <2>3
<1>7. \A d \in DocIds : ~(places'[d] \subseteq {"finished", "failed"}) => sent'[d] = deployed
  BY <1>1, <1>2, <1>4
<1>8. \A v \in Classifiers : loaded[v] # None => loaded[v] = sent'[doc[v]]
  <2>1. TAKE v \in Classifiers
  <2>2. loaded[v] # None => cpc[v] # "idle"
    BY DEF Equipped
  <2>3. cpc[v] # "idle" => doc[v] \in DocIds /\ doc[v] \in rq
    BY <1>1, BusyHolds
  <2> QED
    BY <1>1, <1>2, <2>2, <2>3
<1>9. \A d \in DocIds : madeBy[d] \subseteq {sent'[d]}
  <2>1. TAKE d \in DocIds
  <2>2. CASE d \in rq' \ rq
    <3>1. producer[d] = "none"
      BY <2>2 DEF producer, Working, Supply, IP!Backed, IP!JobsAreBacked
    <3>2. predictions[d] = 0
      BY <3>1 DEF Working, AP!Exclusive, AP!Unsent
    <3> QED
      BY <3>2 DEF Equipped
  <2>3. CASE d \notin rq' \ rq
    BY <1>1, <1>2, <2>3
  <2> QED
    BY <2>2, <2>3
<1> QED
  BY <1>1, <1>5, <1>6, <1>7, <1>8, <1>9 DEF Named

\* A message that comes to rest stays there.
LEMMA RestStays ==
    ASSUME Working, "pause" \notin cstruck, NEW w \in Classifiers, Classify(w)
    PROVE  /\ \A d \in DocIds : places[d] \subseteq {"finished", "failed"} =>
                  places'[d] \subseteq {"finished", "failed"}
           /\ cpc[w] = "idle" => \E d \in DocIds : ~(places[d] \subseteq {"finished", "failed"})
<1>1. AP!Typed /\ places \in [DocIds -> SUBSET AP!Places]
  BY DEF Working, AP!Typed, AP!TypeOK, AP!StoresOK
<1>2. AP!Step(w)
  BY SameStep DEF Classify, Working
<1>3. \/ AP!GoesOn(w) \/ AP!Return(w) \/ AP!WorkerDies(w)
      \/ \E d \in DocIds : AP!Dequeue(w, d)
      \/ AP!RqFails(doc[w]) /\ AP!Idle(w) /\ cpc[w] # "idle"
  BY <1>1, <1>2, AP!Ends, ClassificationAssumed DEF AP!ClassificationAssumption, AP!FaultKinds
<1>4. cpc[w] # "idle" => doc[w] \in DocIds /\ "started" \in places[doc[w]]
  BY BusyHolds
<1>5. CASE AP!GoesOn(w) \/ AP!WorkerDies(w)
  BY <1>5 DEF AP!GoesOn, AP!WorkerDies, AP!rqVars
<1>6. CASE AP!Return(w)
  BY <1>1, <1>4, <1>6 DEF AP!Return, AP!Move
<1>7. CASE \E d \in DocIds : AP!Dequeue(w, d)
  BY <1>1, <1>7 DEF AP!Dequeue, AP!Move
<1>8. CASE AP!RqFails(doc[w]) /\ AP!Idle(w) /\ cpc[w] # "idle"
  BY <1>1, <1>4, <1>8 DEF AP!RqFails, AP!Move
<1> QED
  BY <1>3, <1>5, <1>6, <1>7, <1>8

\* A work-horse loads the deployed model, which its message names, and files under it.
LEMMA NamedHorse ==
    ASSUME Working, Equipped, Named, NEW w \in Classifiers, Classify(w)
    PROVE  Named'
<1> SUFFICES ASSUME ~hasty', "pause" \notin cstruck'
             PROVE  Named'
  BY DEF Named
<1>1. /\ loaded' = [loaded EXCEPT ![w] = IF cpc[w] = "work" /\ cpc'[w] = "overlay" THEN deployed
                                         ELSE IF cpc'[w] = "idle" THEN None ELSE @]
      /\ madeBy' = [d \in DocIds |-> IF predictions'[d] > predictions[d]
                                     THEN madeBy[d] \cup {loaded[w]} ELSE madeBy[d]]
      /\ UNCHANGED <<deployed, registered, naming, sent, hasty, ipc>>
  BY DEF Classify, ingestVars
<1>2. ~hasty /\ "pause" \notin cstruck
  BY <1>1, FaultsStrike DEF Next, C!mishaps, C!Strike
<1>3. /\ deployed = Latest \/ (Drained /\ ~Registered(deployed))
      /\ \A v \in Ingesters : ipc[v] \notin {"down", "start"} => naming[v] = deployed
      /\ \A d \in DocIds : ~(places[d] \subseteq {"finished", "failed"}) => sent[d] = deployed
      /\ \A v \in Classifiers : loaded[v] # None => loaded[v] = sent[doc[v]]
      /\ \A d \in DocIds : madeBy[d] \subseteq {sent[d]}
  BY <1>2 DEF Named
<1>4. deployed = Latest
  <2>1. ~Drained
    BY <1>2, RestStays, BusyHolds DEF Drained
  <2> QED
    BY <1>3, <2>1
<1>5. \A d \in DocIds : ~(places'[d] \subseteq {"finished", "failed"}) => sent[d] = deployed
  BY <1>2, <1>3, RestStays
<1>6. \A v \in Classifiers : loaded'[v] # None => loaded'[v] = sent[doc'[v]]
  <2>1. TAKE v \in Classifiers
  <2>2. CASE v # w
    BY <1>1, <1>3, <2>2, HorseMoves DEF Equipped
  <2>3. CASE v = w
    <3>1. loaded'[w] = IF cpc[w] = "work" /\ cpc'[w] = "overlay" THEN deployed
                       ELSE IF cpc'[w] = "idle" THEN None ELSE loaded[w]
      BY <1>1 DEF Equipped
    <3>2. cpc[w] = "work" => sent[doc[w]] = deployed
      BY <1>2, <1>3, BusyHolds
    <3>3. cpc[w] = "idle" => loaded[w] = None
      BY DEF Equipped
    <3>4. cpc[w] # "idle" /\ cpc'[w] # "idle" => doc'[w] = doc[w]
      BY HorseMoves
    <3> QED
      BY <1>3, <2>3, <3>1, <3>2, <3>3, <3>4
  <2> QED
    BY <2>2, <2>3
<1>7. \A d \in DocIds : madeBy'[d] \subseteq {sent[d]}
  <2>1. TAKE d \in DocIds
  <2>2. predictions \in [DocIds -> Nat]
    BY DEF Working, AP!Typed, AP!TypeOK, AP!StoresOK
  <2>3. CASE predictions'[d] > predictions[d]
    <3>1. /\ d = doc[w] /\ (HoldsModel(w))
      BY <2>2, <2>3, HorseMoves
    <3>2. loaded[w] = sent[d]
      <4>1. loaded[w] # None
        BY <3>1, PipelineAssumption DEF Equipped
      <4> QED
        BY <1>3, <3>1, <4>1
    <3> QED
      BY <1>1, <1>3, <2>3, <3>2
  <2>4. CASE ~(predictions'[d] > predictions[d])
    BY <1>1, <1>3, <2>4
  <2> QED
    BY <2>3, <2>4
<1>8. deployed' = Latest'
  BY <1>1, <1>4 DEF Latest
<1> QED
  BY <1>1, <1>3, <1>5, <1>6, <1>7, <1>8 DEF Named

\* The operator waits for the queue to drain, and for the ingestion workers.
LEMMA NamedOperator ==
    ASSUME Working, Equipped, Named, Register \/ \E m \in Models : Deploy(m)
    PROVE  Named'
<1> SUFFICES ASSUME ~hasty', "pause" \notin cstruck'
             PROVE  Named'
  BY DEF Named
<1>1. UNCHANGED <<ipc, places, doc, cpc, cstruck, naming, sent, loaded, madeBy>>
  BY DEF Register, Deploy, ingestVars, classifyVars
<1>2. ~hasty
  BY DEF Register, Deploy
<1>3. CASE Register
  <2>1. registered' = Append(registered, deployed) /\ deployed' = deployed
    BY <1>3 DEF Register
  <2>2. Latest' = deployed
    <3>1. /\ Len(registered') = Len(registered) + 1
          /\ registered'[Len(registered) + 1] = deployed
      BY <2>1, AppendProperties DEF Equipped
    <3> QED
      BY <3>1 DEF Latest
  <2> QED
    BY <1>1, <1>2, <2>1, <2>2 DEF Named
<1>4. ASSUME NEW m \in Models, Deploy(m)
      PROVE  Named'
  <2>1. Drained /\ ~Registered(m) /\ deployed' = m /\ registered' = registered
    BY <1>4 DEF Deploy
  <2>2. Drained' /\ ~Registered(deployed)'
    BY <1>1, <2>1 DEF Drained, Registered
  <2>3. \A w \in Classifiers : loaded[w] = None
    BY <1>1, <2>1, BusyHolds DEF Drained, Equipped
  <2> QED
    BY <1>1, <1>2, <2>1, <2>2, <2>3 DEF Named, Drained
<1> QED
  BY <1>3, <1>4

\* Every step keeps names and models together, short of haste and a pause.
LEMMA NamedStep == ASSUME Working, Equipped, Named, [Next]_vars PROVE Named'
<1>1. CASE Vendor \/ UNCHANGED vars
  <2>1. UNCHANGED <<ipc, classifyVars, modelVars>>
    BY <1>1 DEF Vendor, I!Vendor, I!VendorWrite, I!VendorRemove, I!worker, vars, ingestVars
  <2> QED
    BY <2>1 DEF classifyVars, modelVars, Named, Drained, Latest, Registered
<1>2. ASSUME NEW d \in DocIds, Abandon(d) \/ Schedule(d)
      PROVE  Named'
  <2> SUFFICES ASSUME ~hasty', "pause" \notin cstruck'
               PROVE  Named'
    BY DEF Named
  <2>1. /\ UNCHANGED <<ipc, doc, cpc, modelVars>> /\ "pause" \notin cstruck
    <3>1. UNCHANGED <<ipc, doc, cpc, modelVars>>
      BY <1>2 DEF Abandon, Schedule, C!Abandon, C!Schedule, C!horse, ingestVars
    <3>2. UNCHANGED C!mishaps \/ \E kind : C!Strike(kind)
      BY <1>2 DEF Abandon, Schedule, C!Abandon, C!Schedule
    <3> QED
      BY <3>1, <3>2 DEF C!mishaps, C!Strike
  <2>2. ~(places[d] \subseteq {"finished", "failed"})
    BY <1>2 DEF Abandon, Schedule, C!Abandon, C!Schedule
  <2>3. \A e \in DocIds \ {d} : places'[e] = places[e]
    <3>1. places \in [DocIds -> SUBSET AP!Places]
      BY DEF Working, AP!Typed, AP!TypeOK, AP!StoresOK
    <3> QED
      BY <1>2, <3>1 DEF Abandon, Schedule, C!Abandon, C!Schedule, C!RqFails, C!Move
  <2>4. ~Drained
    BY <2>2 DEF Drained
  <2> QED
    BY <2>1, <2>2, <2>3, <2>4 DEF modelVars, Named, Latest
<1> QED
  BY <1>1, <1>2, NamedIngest, NamedHorse, NamedOperator DEF Next

\* A prediction names the model that made it, for any number of workers and
\* models, on the conditions that nobody checks (data-model.md:110).
THEOREM PredictionsNamed == Spec => []PredictionsNameTheirModel
<1>1. Init => Named
  <2> SUFFICES ASSUME Init PROVE Named
    OBVIOUS
  <2>1. Latest = First /\ deployed = First
    <3>1. registered = <<First>> /\ Len(<<First>>) = 1
      BY DEF Init
    <3> QED
      BY <3>1 DEF Init, Latest
  <2>2. /\ \A w \in Ingesters : ipc[w] = "down"
        /\ \A d \in DocIds : places[d] = {}
        /\ \A w \in Classifiers : loaded[w] = None
        /\ \A d \in DocIds : madeBy[d] = {}
    BY DEF Init, I!Init, C!Init
  <2> QED
    BY <2>1, <2>2 DEF Named
<1>2. Working /\ Equipped /\ Named /\ [Next]_vars => Named'
  BY NamedStep
<1>3. Named => PredictionsNameTheirModel
  BY DEF Named, PredictionsNameTheirModel
<1> QED
  BY <1>1, <1>2, <1>3, EquippedInvariant, PTL DEF Spec

-----------------------------------------------------------------------------
(* From the drop directory to the prediction.                              *)

\* What a prediction rests on, for any number of workers of either kind, whatever
\* fails (ingestion.py:107-131, inference_worker.py:82-111).
THEOREM PredictionsBacked == Spec => []PredictionsAreBacked
<1>1. IP!Spec => []IP!OnlyCompleteScans
  BY IP!ScansAreComplete, IngestionAssumed
  DEF IP!ScansAreComplete, IP!IngestionAssumption, IP!RowsAssumption, IP!FaultKinds, IP!Rows
<1>2. IP!Spec => []IP!Validated
  BY IP!ValidatedInvariant, IngestionAssumed
  DEF IP!ValidatedInvariant, IP!IngestionAssumption, IP!RowsAssumption, IP!FaultKinds, IP!Rows
<1>3. AP!Spec => []AP!SucceededIsComplete
  BY AP!SuccessIsComplete, ClassificationAssumed
  DEF AP!SuccessIsComplete, AP!ClassificationAssumption, AP!FaultKinds
<1>4. Working /\ IP!OnlyCompleteScans /\ IP!Validated /\ AP!SucceededIsComplete => PredictionsAreBacked
  <2> SUFFICES ASSUME Working, IP!OnlyCompleteScans, IP!Validated, AP!SucceededIsComplete,
                      NEW d \in DocIds, predictions[d] > 0
               PROVE  /\ d \in jobs \cap saved \cap blobs \cap overlays
                      /\ docRow[d].status = "queued" /\ docRow[d].bytes \in Tiffs
                      /\ ~lapsed => docRow[d].bytes \in Complete
                      /\ "timeout" \notin cstruck => assets[d] = predictions[d]
    BY DEF PredictionsAreBacked
  <2>1. d \in jobs
    <3>1. producer[d] = "done"
      BY DEF Working, AP!Exclusive, AP!Unsent
    <3> QED
      BY <3>1 DEF producer
  <2>2. d \in saved \cap blobs /\ docRow[d] # None /\ docRow[d].status = "queued"
    BY <2>1 DEF Working, Supply, IP!Backed, IP!JobsAreBacked
  <2> QED
    BY <2>1, <2>2 DEF AP!SucceededIsComplete, IP!Validated, IP!OnlyCompleteScans
<1> QED
  BY <1>1, <1>2, <1>3, <1>4, IngestsAlone, ClassifiesAlone, WorkingInvariant, PTL

\* The refinement of Classification is one of the pipeline: document by document it
\* implements Lifecycle, for any number of workers of either kind.
THEOREM DocumentsLive == Spec => AP!ImplementsLifecycle
  BY ClassifiesAlone, AP!LifecycleImplemented, ClassificationAssumed
  DEF AP!LifecycleImplemented, AP!ClassificationAssumption, AP!FaultKinds

OneIngester == \A v, w \in Ingesters : v = w

ScanOf(d) == <<docRow[d].path, docRow[d].bytes>>

\* A scan with a document has one, and is told of like it.  The other scans and the
\* documents without a job are untouched.
Scanned ==
    /\ \A d \in jobs :
          /\ d \in DocIds /\ ScanOf(d) \in Scans
          /\ \A e \in jobs : ScanOf(e) = ScanOf(d) => e = d
          /\ scanFate[ScanOf(d)] = C!fate[d] /\ scanResults[ScanOf(d)] = predictions[d]
          /\ C!fate[d] # "unfiled"
    /\ \A d \in DocIds \ jobs : C!fate[d] = "unfiled" /\ predictions[d] = 0
    /\ \A s \in Scans :
          (\A d \in jobs : ScanOf(d) # s) => scanFate[s] = "unfiled" /\ scanResults[s] = 0

\* What the mapping says of a scan with one document, and of one with none.
LEMMA ScanTold ==
    ASSUME NEW s \in Scans, predictions \in [DocIds -> Nat]
    PROVE  /\ DocsOf(s) = {} => scanFate[s] = "unfiled" /\ scanResults[s] = 0
           /\ \A d \in DocIds : DocsOf(s) = {d} =>
                 scanFate[s] = C!fate[d] /\ scanResults[s] = predictions[d]
<1>1. ASSUME DocsOf(s) = {}
      PROVE  scanFate[s] = "unfiled" /\ scanResults[s] = 0
  <2>1. ResultsOf(s) = {}
    BY <1>1 DEF ResultsOf
  <2> QED
    BY <1>1, <2>1, FS_EmptySet DEF scanFate, scanResults
<1>2. ASSUME NEW d \in DocIds, DocsOf(s) = {d}
      PROVE  scanFate[s] = C!fate[d] /\ scanResults[s] = predictions[d]
  <2>1. scanFate[s] = C!fate[d]
    BY <1>2 DEF scanFate
  <2>2. ResultsOf(s) = {d} \X (1 .. predictions[d])
    BY <1>2 DEF ResultsOf
  <2>3. IsFiniteSet(1 .. predictions[d]) /\ Cardinality(1 .. predictions[d]) = predictions[d]
    <3>1. predictions[d] \in Nat
      OBVIOUS
    <3> QED
      BY <3>1, FS_Interval
  <2>4. IsFiniteSet({d}) /\ Cardinality({d}) = 1
    BY FS_Singleton
  <2>5. Cardinality({d} \X (1 .. predictions[d])) = Cardinality({d}) * Cardinality(1 .. predictions[d])
    BY <2>3, <2>4, FS_Product, Zenon
  <2>6. 1 * predictions[d] = predictions[d]
    OBVIOUS
  <2>7. Cardinality(ResultsOf(s)) = predictions[d]
    BY <2>2, <2>3, <2>4, <2>5, <2>6
  <2> QED
    BY <2>1, <2>7 DEF scanResults
<1> QED
  BY <1>1, <1>2

\* Fates read the same in either instance of Classification.
LEMMA SameFate ==
    /\ C!fate = AP!fate
    /\ "pause" \in (IF Lost = {} THEN cstruck ELSE cstruck \cup {"producer"}) <=> "pause" \in cstruck
BY DEF C!fate, AP!fate, C!Active, AP!Active

\* With one ingestion worker every scan is told of like its one document.
LEMMA ScannedInvariant == OneIngester => (Spec => []Scanned)
<1> SUFFICES ASSUME OneIngester PROVE Spec => []Scanned
  OBVIOUS
<1>1. IP!Spec => []IP!NoDuplicateActive
  BY IP!OneWorkerFilesOnce, IngestionAssumed
  DEF IP!OneWorkerFilesOnce, IP!OneWorker, OneIngester,
      IP!IngestionAssumption, IP!RowsAssumption, IP!FaultKinds, IP!Rows
<1>2. AP!Spec => []AP!Fine
  BY AP!FineInvariant, ClassificationAssumed
  DEF AP!FineInvariant, AP!ClassificationAssumption, AP!FaultKinds
<1>3. Working /\ IP!NoDuplicateActive /\ AP!Fine => Scanned
  <2> SUFFICES ASSUME Working, IP!NoDuplicateActive, AP!Fine PROVE Scanned
    OBVIOUS
  <2>1. /\ jobs \subseteq saved /\ jobs \subseteq DocIds
        /\ predictions \in [DocIds -> Nat] /\ docRow \in [DocIds -> IP!Rows \cup {None}]
    BY DEF Working, Supply, IP!Typed, IP!TypeOK, IP!StoresOK, IP!Backed, IP!JobsAreBacked,
           AP!Typed, AP!TypeOK, AP!StoresOK
  <2>2. \A d \in jobs : ScanOf(d) \in Scans
    <3> TAKE d \in jobs
    <3>1. docRow[d] \in IP!Rows
      BY <2>1 DEF Working, Supply, IP!Backed, IP!JobsAreBacked
    <3> QED
      BY <3>1 DEF IP!Rows, ScanOf, Scans
  <2>3. \A d, e \in jobs : ScanOf(e) = ScanOf(d) => e = d
    BY <2>1 DEF IP!NoDuplicateActive, ScanOf
  <2>4. \A d \in jobs : DocsOf(ScanOf(d)) = {d}
    BY <2>3 DEF DocsOf, ScanOf
  <2>5. \A d \in jobs : C!fate[d] # "unfiled"
    <3> TAKE d \in jobs
    <3>1. jobRow[d] # "none"
      BY <2>1 DEF producer, AP!Fine, AP!Filed
    <3> QED
      BY <2>1, <3>1 DEF C!fate
  <2>6. \A d \in DocIds \ jobs : C!fate[d] = "unfiled" /\ predictions[d] = 0
    <3> TAKE d \in DocIds \ jobs
    <3>1. jobRow[d] = "none" /\ predictions[d] = 0
      BY DEF producer, Working, AP!Exclusive, AP!Unsent
    <3> QED
      BY <3>1 DEF C!fate
  <2>7. \A s \in Scans : (\A d \in jobs : ScanOf(d) # s) => DocsOf(s) = {}
    BY DEF DocsOf, ScanOf, Scans
  <2> QED
    BY <2>1, <2>2, <2>3, <2>4, <2>5, <2>6, <2>7, ScanTold DEF Scanned
<1> QED
  BY <1>1, <1>2, <1>3, IngestsAlone, ClassifiesAlone, WorkingInvariant, PTL

\* A document keeps its job, its path and its contents.
LEMMA SourcesKept ==
    ASSUME Working, [Next]_vars
    PROVE  jobs \subseteq jobs' /\ \A d \in jobs : ScanOf(d)' = ScanOf(d)
<1>1. /\ jobs \subseteq saved /\ saved \subseteq DocIds
      /\ docRow \in [DocIds -> IP!Rows \cup {None}]
  BY DEF Working, Supply, IP!Typed, IP!TypeOK, IP!StoresOK, IP!Backed, IP!JobsAreBacked
<1>2. ASSUME NEW w \in Ingesters, Ingest(w)
      PROVE  jobs \subseteq jobs' /\ \A d \in jobs : ScanOf(d)' = ScanOf(d)
  <2>1. CASE IP!Quiet(w) \/ IP!CommitsRows(w) \/ IP!UploadFails(w) \/ IP!Enqueue(w) \/ IP!EnqueueFails(w)
    BY <2>1 DEF IP!Quiet, IP!CommitsRows, IP!UploadFails, IP!Enqueue, IP!EnqueueFails, IP!dbVars, ScanOf
  <2>2. CASE IP!RollsBack(w)
    BY <1>1, <2>2 DEF IP!RollsBack, IP!Without, Working, Supply, IP!Typed, IP!Owned, ScanOf
  <2>3. CASE IP!CommitsJob(w) \/ IP!Upload(w)
    <3>1. jobs \subseteq jobs' /\ \E status : IP!SetStatus(cur[w].doc, status)
      BY <2>3 DEF IP!CommitsJob, IP!Upload
    <3>2. \A d \in jobs : docRow'[d].path = docRow[d].path /\ docRow'[d].bytes = docRow[d].bytes
      BY <1>1, <3>1 DEF IP!SetStatus
    <3> QED
      BY <3>1, <3>2 DEF ScanOf
  <2>4. CASE IP!Create(w)
    <3>1. IP!NewId \notin saved
      BY <2>4 DEF IP!Create, IP!NewId, IP!Unused, Working, Supply, IP!Typed, IP!Owned
    <3> QED
      BY <1>1, <2>4, <3>1 DEF IP!Create, ScanOf
  <2> QED
    BY <1>2, <2>1, <2>2, <2>3, <2>4, WorkerEffects DEF Working, Supply
<1>3. CASE \/ Vendor \/ Register \/ \E w \in Classifiers : Classify(w)
           \/ \E d \in DocIds : Abandon(d) \/ Schedule(d)
           \/ \E m \in Models : Deploy(m)
           \/ UNCHANGED vars
  <2>1. UNCHANGED <<jobs, docRow>>
    BY <1>3 DEF Vendor, I!Vendor, I!VendorWrite, I!VendorRemove, I!dbVars, Register, Classify,
                Abandon, Schedule, Deploy, vars, ingestVars
  <2> QED
    BY <2>1 DEF ScanOf
<1> QED
  BY <1>2, <1>3 DEF Next

\* The jobs that a step keeps, and the sources of their documents.
Keeps == jobs \subseteq jobs' /\ \A d \in jobs : ScanOf(d)' = ScanOf(d)

\* A step that tells nothing new of any document but one tells nothing new of any
\* scan but that document's.
LEMMA ScanFollows ==
    ASSUME Scanned, Scanned', Keeps, NEW d \in jobs',
           \A e \in DocIds \ {d} : C!fate'[e] = C!fate[e] /\ predictions'[e] = predictions[e]
    PROVE  LET s == ScanOf(d)'
           IN  /\ s \in Scans /\ scanFate[s] = C!fate[d] /\ scanResults[s] = predictions[d]
               /\ scanFate' = [scanFate EXCEPT ![s] = C!fate'[d]]
               /\ scanResults' = [scanResults EXCEPT ![s] = predictions'[d]]
<1> DEFINE s == ScanOf(d)'
<1>1. d \in DocIds /\ s \in Scans /\ scanFate'[s] = C!fate'[d] /\ scanResults'[s] = predictions'[d]
  BY DEF Scanned
<1>2. \A e \in jobs' \ {d} : e \in jobs
  BY DEF Scanned
<1>3. scanFate[s] = C!fate[d] /\ scanResults[s] = predictions[d]
  <2>1. CASE d \in jobs
    BY <2>1 DEF Scanned, Keeps
  <2>2. CASE d \notin jobs
    <3>1. \A e \in jobs : ScanOf(e) # s
      BY <2>2 DEF Scanned, Keeps
    <3> QED
      BY <1>1, <2>2, <3>1 DEF Scanned
  <2> QED
    BY <2>1, <2>2
<1>4. \A t \in Scans \ {s} : scanFate'[t] = scanFate[t] /\ scanResults'[t] = scanResults[t]
  <2>1. TAKE t \in Scans \ {s}
  <2>2. ASSUME NEW e \in jobs, ScanOf(e) = t
        PROVE  scanFate'[t] = scanFate[t] /\ scanResults'[t] = scanResults[t]
    <3>1. e \in jobs' /\ ScanOf(e)' = t /\ e # d /\ e \in DocIds
      BY <2>2 DEF Keeps, Scanned
    <3>2. scanFate[t] = C!fate[e] /\ scanResults[t] = predictions[e]
      BY <2>2 DEF Scanned
    <3>3. scanFate'[t] = C!fate'[e] /\ scanResults'[t] = predictions'[e]
      BY <3>1 DEF Scanned
    <3> QED
      BY <3>1, <3>2, <3>3
  <2>3. CASE \A e \in jobs : ScanOf(e) # t
    <3>1. \A e \in jobs' : ScanOf(e)' # t
      BY <1>2, <2>3 DEF Keeps
    <3> QED
      BY <2>3, <3>1 DEF Scanned
  <2> QED
    BY <2>2, <2>3
<1>5. /\ scanFate = [t \in Scans |-> scanFate[t]] /\ scanFate' = [t \in Scans |-> scanFate'[t]]
      /\ scanResults = [t \in Scans |-> scanResults[t]]
      /\ scanResults' = [t \in Scans |-> scanResults'[t]]
  BY DEF scanFate, scanResults
<1> HIDE DEF s
<1>6. /\ scanFate' = [scanFate EXCEPT ![s] = C!fate'[d]]
      /\ scanResults' = [scanResults EXCEPT ![s] = predictions'[d]]
  BY <1>1, <1>4, <1>5
<1> QED
  BY <1>1, <1>3, <1>6 DEF s

\* A step that tells nothing new of the documents tells nothing new of the scans.
LEMMA ScansKept ==
    ASSUME Scanned, Scanned', Keeps, C!fate' = C!fate, predictions' = predictions
    PROVE  UNCHANGED <<scanFate, scanResults>>
<1>1. jobs' = jobs
  BY DEF Scanned, Keeps
<1>2. ASSUME NEW s \in Scans
      PROVE  scanFate'[s] = scanFate[s] /\ scanResults'[s] = scanResults[s]
  <2>1. CASE \A d \in jobs : ScanOf(d) # s
    BY <1>1, <2>1 DEF Scanned, Keeps
  <2>2. ASSUME NEW d \in jobs, ScanOf(d) = s
        PROVE  scanFate'[s] = scanFate[s] /\ scanResults'[s] = scanResults[s]
    BY <1>1, <2>2 DEF Scanned, Keeps
  <2> QED
    BY <2>1, <2>2
<1>3. /\ scanFate = [t \in Scans |-> scanFate[t]] /\ scanFate' = [t \in Scans |-> scanFate'[t]]
      /\ scanResults = [t \in Scans |-> scanResults[t]]
      /\ scanResults' = [t \in Scans |-> scanResults'[t]]
  BY DEF scanFate, scanResults
<1> QED
  BY <1>2, <1>3

\* What happens to a document happens to its scan.
LEMMA ScanStep ==
    ASSUME Scanned, Scanned', Keeps, predictions \in [DocIds -> Nat],
           [AP!Life!Next]_(AP!Life!vars)
    PROVE  [ScanLife!Next]_(ScanLife!vars)
<1> DEFINE suspected == "pause" \in cstruck
           at(d) == ScanOf(d)'
<1>0. /\ C!fate = AP!fate /\ C!fate' = AP!fate'
      /\ "pause" \in (IF Lost = {} THEN cstruck ELSE cstruck \cup {"producer"}) <=> suspected
      /\ ("pause" \in (IF Lost = {} THEN cstruck ELSE cstruck \cup {"producer"}))' <=> suspected'
  <2>1. C!fate' = AP!fate'
    BY DEF C!fate, AP!fate, C!Active, AP!Active
  <2> QED
    BY <2>1, SameFate
<1>1. CASE UNCHANGED AP!Life!vars
  <2>1. C!fate' = C!fate /\ predictions' = predictions /\ suspected' = suspected
    BY <1>0, <1>1 DEF AP!Life!vars
  <2> QED
    BY <2>1, ScansKept DEF ScanLife!vars
<1>2. CASE AP!Life!Suspect
  <2>1. /\ C!fate' = C!fate /\ predictions' = predictions
        /\ ~suspected /\ suspected'
    BY <1>0, <1>2 DEF AP!Life!Suspect
  <2> QED
    BY <2>1, ScansKept DEF ScanLife!Suspect, ScanLife!Next
<1>3. ASSUME NEW d \in DocIds, AP!Life!File(d)
      PROVE  ScanLife!Next
  <2>1. /\ C!fate[d] = "unfiled" /\ C!fate' = [C!fate EXCEPT ![d] = "pending"]
        /\ predictions' = predictions /\ suspected' = suspected
    BY <1>0, <1>3 DEF AP!Life!File
  <2>2. C!fate'[d] = "pending" /\ \A e \in DocIds \ {d} : C!fate'[e] = C!fate[e]
    BY <2>1 DEF C!fate
  <2>3. d \in jobs'
    BY <2>2 DEF Scanned
  <2>4. /\ at(d) \in Scans /\ scanFate[at(d)] = "unfiled"
        /\ scanFate' = [scanFate EXCEPT ![at(d)] = "pending"]
        /\ scanResults' = [scanResults EXCEPT ![at(d)] = predictions[d]]
        /\ scanResults[at(d)] = predictions[d]
    BY <2>1, <2>2, <2>3, ScanFollows
  <2>5. scanResults' = scanResults
    BY <2>4 DEF scanResults
  <2> QED
    BY <2>1, <2>4, <2>5 DEF ScanLife!File, ScanLife!Next
<1>4. ASSUME NEW d \in DocIds, NEW f, C!fate[d] # "unfiled", C!fate' = [C!fate EXCEPT ![d] = f],
             \A e \in DocIds \ {d} : predictions'[e] = predictions[e]
      PROVE  /\ at(d) \in Scans /\ scanFate[at(d)] = C!fate[d]
             /\ scanFate' = [scanFate EXCEPT ![at(d)] = f]
             /\ scanResults' = [scanResults EXCEPT ![at(d)] = predictions'[d]]
             /\ scanResults[at(d)] = predictions[d]
  <2>1. C!fate'[d] = f /\ \A e \in DocIds \ {d} : C!fate'[e] = C!fate[e]
    BY <1>4 DEF C!fate
  <2>2. d \in jobs'
    BY <1>4 DEF Scanned, Keeps
  <2> QED
    BY <1>4, <2>1, <2>2, ScanFollows
<1>5. ASSUME NEW d \in DocIds, AP!Life!Classify(d)
      PROVE  ScanLife!Next
  <2>1. /\ C!fate[d] = "pending" \/ (suspected /\ C!fate[d] # "unfiled")
        /\ C!fate' = [C!fate EXCEPT ![d] = "classified"]
        /\ predictions' = [predictions EXCEPT ![d] = @ + 1] /\ suspected' = suspected
    BY <1>0, <1>5 DEF AP!Life!Classify
  <2>2. predictions'[d] = predictions[d] + 1 /\ \A e \in DocIds \ {d} : predictions'[e] = predictions[e]
    BY <2>1
  <2>3. /\ at(d) \in Scans /\ scanFate[at(d)] = C!fate[d]
        /\ scanFate' = [scanFate EXCEPT ![at(d)] = "classified"]
        /\ scanResults' = [scanResults EXCEPT ![at(d)] = @ + 1]
    BY <1>4, <2>1, <2>2
  <2> QED
    BY <2>1, <2>3 DEF ScanLife!Classify, ScanLife!Next
<1>6. ASSUME NEW d \in DocIds, AP!Life!Fail(d) \/ AP!Life!TakeUpAgain(d)
      PROVE  ScanLife!Next
  <2>1. \E f : /\ \/ C!fate[d] = "pending" /\ f = "failed"
                  \/ suspected /\ C!fate[d] = "failed" /\ f = "pending"
               /\ C!fate' = [C!fate EXCEPT ![d] = f]
               /\ predictions' = predictions /\ suspected' = suspected
    BY <1>0, <1>6 DEF AP!Life!Fail, AP!Life!TakeUpAgain
  <2>2. PICK f : /\ \/ C!fate[d] = "pending" /\ f = "failed"
                    \/ suspected /\ C!fate[d] = "failed" /\ f = "pending"
                 /\ C!fate' = [C!fate EXCEPT ![d] = f]
                 /\ predictions' = predictions /\ suspected' = suspected
    BY <2>1
  <2>3. /\ at(d) \in Scans /\ scanFate[at(d)] = C!fate[d]
        /\ scanFate' = [scanFate EXCEPT ![at(d)] = f]
        /\ scanResults' = [scanResults EXCEPT ![at(d)] = scanResults[at(d)]]
    BY <1>4, <2>2
  <2>4. scanResults' = scanResults
    BY <2>3 DEF scanResults
  <2> QED
    BY <2>2, <2>3, <2>4 DEF ScanLife!Fail, ScanLife!TakeUpAgain, ScanLife!Next
<1> QED
  BY <1>1, <1>2, <1>3, <1>5, <1>6 DEF AP!Life!Next

\* End to end: with one ingestion worker, any number of inference workers, and
\* whatever fails, a scan is taken up once and decided once (ingestion.py:82-86,
\* inference_worker.py:74-80).
THEOREM ScansLive == OneIngester => (Spec => ImplementsScanLifecycle)
<1> SUFFICES ASSUME OneIngester PROVE Spec => ImplementsScanLifecycle
  OBVIOUS
<1>1. Init /\ Working => ScanLife!Init
  <2> SUFFICES ASSUME Init, Working PROVE ScanLife!Init
    OBVIOUS
  <2>1. jobs = {} /\ cstruck = {} /\ predictions \in [DocIds -> Nat]
    BY DEF Init, I!Init, C!Init, Working, AP!Typed, AP!TypeOK, AP!StoresOK
  <2>2. \A s \in Scans : scanFate[s] = "unfiled" /\ scanResults[s] = 0
    <3>1. \A s \in Scans : DocsOf(s) = {}
      BY <2>1 DEF DocsOf
    <3> QED
      BY <2>1, <3>1, ScanTold
  <2>3. scanFate = [s \in Scans |-> "unfiled"] /\ scanResults = [s \in Scans |-> 0]
    <3>1. scanFate = [s \in Scans |-> scanFate[s]] /\ scanResults = [s \in Scans |-> scanResults[s]]
      BY DEF scanFate, scanResults
    <3> QED
      BY <2>2, <3>1
  <2> QED
    BY <2>1, <2>3 DEF ScanLife!Init
<1>2. /\ Working /\ Scanned /\ Scanned' /\ [Next]_vars /\ [AP!Life!Next]_(AP!Life!vars)
      => [ScanLife!Next]_(ScanLife!vars)
  <2> SUFFICES ASSUME Working, Scanned, Scanned', [Next]_vars, [AP!Life!Next]_(AP!Life!vars)
               PROVE  [ScanLife!Next]_(ScanLife!vars)
    OBVIOUS
  <2>1. Keeps
    BY SourcesKept DEF Keeps
  <2>2. predictions \in [DocIds -> Nat]
    BY DEF Working, AP!Typed, AP!TypeOK, AP!StoresOK
  <2> QED
    BY <2>1, <2>2, ScanStep
<1>3. Spec => [][AP!Life!Next]_(AP!Life!vars)
  BY DocumentsLive, PTL DEF AP!ImplementsLifecycle, AP!Life!Spec
<1>4. Spec => []Scanned
  BY ScannedInvariant
<1>5. Spec => []Working
  BY WorkingInvariant
<1> QED
  BY <1>1, <1>2, <1>3, <1>4, <1>5, PTL DEF Spec, ImplementsScanLifecycle, ScanLife!Spec

=============================================================================
