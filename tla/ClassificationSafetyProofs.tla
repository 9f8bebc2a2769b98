--------------------- MODULE ClassificationSafetyProofs ---------------------
(***************************************************************************)
(* What classification promises, proved.                                   *)
(***************************************************************************)
EXTENDS ClassificationProofs

-----------------------------------------------------------------------------
(* What a work-horse's step does to the database and to its own state.     *)

\* The steps at which a result is being worked out and is not yet committed.
Fresh(w) == pc[w] \in {"mark", "remark", "work", "overlay"} \cup Persisting

\* A step changes no other worker's state, loses no overlay and no fault.
Local(w) ==
    /\ \A v \in Workers \ {w} : pc'[v] = pc[v] /\ doc'[v] = doc[v] /\ sess'[v] = sess[v]
    /\ UNCHANGED producer
    /\ overlays \subseteq overlays' /\ struck \subseteq struck'

MarksRow(w) ==
    /\ pc[w] = "mark" /\ pc'[w] \in {"idle", "work"}
    /\ row' = [row EXCEPT ![doc[w]] = "running"]
    /\ UNCHANGED results

FailsRow(w) ==
    /\ pc[w] = "fail" /\ sess[w] = "clean" /\ pc'[w] = "idle"
    /\ row' = [row EXCEPT ![doc[w]] = "retryable_failed"]
    /\ UNCHANGED results

Succeeds(w) ==
    /\ pc[w] = "commit"
    /\ ResultCommitted(w, "succeeded")
    /\ \/ pc'[w] = "after" /\ sess'[w] = "clean"
       \/ pc'[w] = "fail" /\ sess'[w] = "broken"

SucceedsLate(w) ==
    /\ pc[w] = "fail" /\ sess[w] \in Flushed /\ pc'[w] = "idle"
    /\ ResultCommitted(w, "retryable_failed")

\* A work-horse's step leaves the database alone or does one of four things to it.
LEMMA DbEffects ==
    ASSUME Typed, NEW w \in Workers, Step(w)
    PROVE  UNCHANGED dbVars \/ MarksRow(w) \/ FailsRow(w) \/ Succeeds(w) \/ SucceedsLate(w)
<1>. USE DEF Typed, TypeOK, StoresOK, HorsesOK
<1>1. ASSUME \/ \E d \in Docs : Dequeue(w, d)
             \/ FindJob(w) \/ NoActiveJob(w) \/ LookupFails(w)
             \/ RunPipeline(w) \/ PipelineFails(w) \/ UploadOverlay(w) \/ OverlayFails(w)
             \/ Flushes(w) \/ Return(w) \/ MarkRetryableFails(w)
             \/ TimeoutOutsideTry(w) \/ TimeoutInsideTry(w) \/ HorseDies(w) \/ WorkerDies(w)
      PROVE  UNCHANGED dbVars
  BY <1>1, FlushesOn
  DEF Dequeue, FindJob, NoActiveJob, LookupFails, RunPipeline, PipelineFails,
              UploadOverlay, OverlayFails, Flush, Return, MarkRetryableFails,
              TimeoutOutsideTry, TimeoutInsideTry, HorseDies, WorkerDies
<1>2. ASSUME MarkRunning(w) \/ MarkRunningFails(w)
      PROVE  UNCHANGED dbVars \/ MarksRow(w)
  BY <1>2 DEF MarkRunning, MarkRunningFails, Marked, MarksRow, Goto, Raise, Idle, dbVars, results
<1>3. ASSUME CommitResult(w) \/ PersistFails(w)
      PROVE  UNCHANGED dbVars \/ Succeeds(w)
  BY <1>3 DEF CommitResult, PersistFails, Succeeds, Goto, dbVars, results
<1>4. ASSUME MarkRetryable(w)
      PROVE  FailsRow(w) \/ SucceedsLate(w)
  BY <1>4 DEF MarkRetryable, FailsRow, SucceedsLate, Raise, Idle
<1>. QED  BY <1>1, <1>2, <1>3, <1>4 DEF Step, Flushes

\* A step of one work-horse leaves the others alone.
LEMMA Locality ==
    ASSUME Typed, NEW w \in Workers, Step(w)
    PROVE  Local(w)
<1>. USE DEF Typed, TypeOK, HorsesOK, Local, Goto, Idle, Raise, Strike, mishaps
<1>1. ASSUME NEW d \in Docs, Dequeue(w, d)
      PROVE  Local(w)
  BY <1>1 DEF Dequeue
<1>2. ASSUME FindJob(w) \/ NoActiveJob(w) \/ LookupFails(w) \/ MarkRunning(w) \/ MarkRunningFails(w)
      PROVE  Local(w)
  BY <1>2 DEF FindJob, NoActiveJob, LookupFails, MarkRunning, MarkRunningFails
<1>3. ASSUME RunPipeline(w) \/ PipelineFails(w) \/ UploadOverlay(w) \/ OverlayFails(w)
      PROVE  Local(w)
  BY <1>3 DEF RunPipeline, PipelineFails, UploadOverlay, OverlayFails
<1>4. ASSUME Flushes(w) \/ CommitResult(w) \/ PersistFails(w) \/ Return(w)
      PROVE  Local(w)
  BY <1>4, FlushesOn DEF Flush, CommitResult, PersistFails, Return
<1>5. ASSUME MarkRetryable(w) \/ MarkRetryableFails(w) \/ TimeoutOutsideTry(w) \/ TimeoutInsideTry(w)
      PROVE  Local(w)
  BY <1>5 DEF MarkRetryable, MarkRetryableFails, TimeoutOutsideTry, TimeoutInsideTry
<1>6. ASSUME HorseDies(w) \/ WorkerDies(w)
      PROVE  Local(w)
  BY <1>6 DEF HorseDies, WorkerDies
<1>. QED  BY <1>1, <1>2, <1>3, <1>4, <1>5, <1>6 DEF Step, Flushes

\* The way through persist_result, and what it leaves in the session.
Persists(w) ==
    \/ pc[w] = "flush" /\ pc'[w] = "asset" /\ sess'[w] = "predicted"
    \/ pc[w] = "asset" /\ pc'[w] = "job" /\ sess'[w] = "drawn"
    \/ pc[w] = "job" /\ pc'[w] = "audit" /\ sess'[w] = "drawn"
    \/ pc[w] = "audit" /\ pc'[w] = "commit" /\ sess'[w] = "dirty"

\* Where a step takes a work-horse that goes on, and with which session.
GoesOn(w) ==
    /\ pc[w] # "idle" /\ doc'[w] = doc[w] /\ UNCHANGED places
    /\ \/ pc[w] = "lookup" /\ Active(doc[w]) /\ pc'[w] \in {"mark", "remark"} /\ UNCHANGED sess
       \/ pc[w] \in {"mark", "remark"} /\ pc'[w] = "work" /\ UNCHANGED sess
       \/ pc[w] \in {"work", "overlay"} /\ pc'[w] = "fail" /\ UNCHANGED sess
       \/ pc[w] = "work" /\ pc'[w] = "overlay" /\ UNCHANGED sess
       \/ pc[w] = "overlay" /\ pc'[w] = "flush" /\ UNCHANGED sess /\ doc[w] \in overlays'
       \/ Persists(w)
       \/ pc[w] = "commit" /\ pc'[w] = "after" /\ sess'[w] = "clean" /\ Succeeds(w)
       \/ pc[w] \in Persisting /\ pc'[w] = "fail" /\ sess'[w] = "broken"
       \/ /\ pc[w] \in Persisting \cup {"after"} /\ pc'[w] = "fail" /\ UNCHANGED sess
          /\ "timeout" \in struck'

\* A step starts a work-horse, takes it on, or ends it.
LEMMA Moves ==
    ASSUME Typed, NEW w \in Workers, Step(w)
    PROVE  \/ GoesOn(w)
           \/ Idle(w) /\ pc[w] # "idle"
           \/ \E d \in Docs : Dequeue(w, d)
<1>. USE DEF Typed, TypeOK, HorsesOK
<1>1. ASSUME \/ NoActiveJob(w) \/ LookupFails(w) \/ MarkRunningFails(w) \/ Return(w)
             \/ MarkRetryable(w) \/ MarkRetryableFails(w) \/ TimeoutOutsideTry(w)
             \/ HorseDies(w) \/ WorkerDies(w)
      PROVE  Idle(w) /\ pc[w] # "idle"
  BY <1>1 DEF NoActiveJob, LookupFails, MarkRunningFails, Return, MarkRetryable,
              MarkRetryableFails, TimeoutOutsideTry, HorseDies, WorkerDies, Raise
<1>2. ASSUME FindJob(w) \/ MarkRunning(w) \/ RunPipeline(w) \/ PipelineFails(w)
      PROVE  GoesOn(w)
  BY <1>2 DEF FindJob, MarkRunning, RunPipeline, PipelineFails, Goto, GoesOn, rqVars
<1>3. ASSUME UploadOverlay(w) \/ OverlayFails(w)
      PROVE  GoesOn(w)
  BY <1>3 DEF UploadOverlay, OverlayFails, Goto, GoesOn, rqVars
<1>4. ASSUME CommitResult(w) \/ PersistFails(w)
      PROVE  GoesOn(w)
  BY <1>4 DEF CommitResult, PersistFails, Succeeds, Goto, GoesOn, Persisting, rqVars
<1>5. ASSUME TimeoutInsideTry(w)
      PROVE  GoesOn(w)
  BY <1>5 DEF TimeoutInsideTry, Strike, GoesOn, Persisting, rqVars
<1>6. ASSUME Flushes(w)
      PROVE  GoesOn(w)
  <2>1. Persists(w)
    BY <1>6 DEF Flushes, FlushPrediction, FlushAsset, FlushJob, FlushAudit, Flush, Goto, Persists,
                Persisting, Flushed
  <2>2. pc[w] # "idle" /\ doc'[w] = doc[w] /\ UNCHANGED places
    BY <1>6, FlushesOn DEF Flush, Goto, rqVars, Persisting
  <2>. QED  BY <2>1, <2>2 DEF GoesOn
<1>. QED  BY <1>1, <1>2, <1>3, <1>4, <1>5, <1>6 DEF Step, Flushes

\* What a step does to its message.
LEMMA Ends ==
    ASSUME Typed, NEW w \in Workers, Step(w)
    PROVE  \/ GoesOn(w) \/ Return(w) \/ WorkerDies(w)
           \/ \E d \in Docs : Dequeue(w, d)
           \/ RqFails(doc[w]) /\ Idle(w) /\ pc[w] # "idle"
<1>1. ASSUME \/ NoActiveJob(w) \/ LookupFails(w) \/ MarkRunningFails(w)
             \/ MarkRetryable(w) \/ MarkRetryableFails(w) \/ TimeoutOutsideTry(w) \/ HorseDies(w)
      PROVE  RqFails(doc[w]) /\ Idle(w) /\ pc[w] # "idle"
  BY <1>1 DEF NoActiveJob, LookupFails, MarkRunningFails, MarkRetryable,
              MarkRetryableFails, TimeoutOutsideTry, HorseDies, Raise
<1>2. ASSUME \/ FindJob(w) \/ MarkRunning(w) \/ RunPipeline(w) \/ PipelineFails(w)
             \/ UploadOverlay(w) \/ OverlayFails(w) \/ Flushes(w) \/ CommitResult(w)
             \/ PersistFails(w) \/ TimeoutInsideTry(w)
      PROVE  GoesOn(w)
  <2>1. ~Idle(w) /\ \A d \in Docs : ~Dequeue(w, d)
    <3>1. pc[w] # "idle" /\ pc'[w] # "idle"
      BY <1>2, FlushesOn
      DEF FindJob, MarkRunning, RunPipeline, PipelineFails, UploadOverlay, OverlayFails, Flush,
          CommitResult, PersistFails, TimeoutInsideTry, Goto, Typed, TypeOK, HorsesOK, Persisting
    <3>. QED  BY <3>1 DEF Idle, Dequeue, Typed, TypeOK, HorsesOK
  <2>. QED  BY <2>1, Moves
<1>. QED  BY <1>1, <1>2 DEF Step, Flushes

-----------------------------------------------------------------------------
(* A prediction is complete: overlay first, then prediction and status.    *)

\* What a result rests on by the time it is committed: the stored overlay, and all its
\* rows in the session; only the timer leads to the except clause with some of them.
StoredBy(w) ==
    /\ pc[w] \in Persisting \cup {"after"} => doc[w] \in overlays
    /\ sess[w] \in Flushed => doc[w] \in overlays /\ pc[w] \in Persisting \cup {"fail"}
    /\ pc[w] = "commit" => sess[w] = "dirty"
    /\ pc[w] = "fail" /\ sess[w] \in Flushed => "timeout" \in struck
    /\ pc[w] = "after" => predictions[doc[w]] > 0

Stored == \A w \in Workers : StoredBy(w)

\* Every step keeps it so.
LEMMA StoredStep ==
    ASSUME Typed, Stored, NEW w \in Workers, Step(w)
    PROVE  Stored'
<1>. USE DEF Typed, TypeOK, StoresOK, HorsesOK, Holding, Persisting, Flushed
<1>1. Local(w)
  BY Locality
<1>2. \A d \in Docs : predictions[d] > 0 => predictions'[d] > 0
  BY DbEffects DEF MarksRow, FailsRow, Succeeds, SucceedsLate, ResultCommitted, dbVars, results
<1>3. \A v \in Workers \ {w} : StoredBy(v)'
  BY <1>1, <1>2 DEF Local, Stored, StoredBy
<1>4. StoredBy(w)'
  <2>1. CASE Idle(w) \/ \E d \in Docs : Dequeue(w, d)
    BY <2>1 DEF Idle, Dequeue, Stored, StoredBy
  <2>2. CASE GoesOn(w)
    BY <1>1, <2>2 DEF GoesOn, Persists, Succeeds, ResultCommitted, Stored, StoredBy, Local
  <2>. QED  BY <2>1, <2>2, Moves
<1>. QED  BY <1>3, <1>4 DEF Stored

\* No step completes a job without its overlay and prediction, and only the timer has
\* a part of a result committed.
LEMMA CompleteStep ==
    ASSUME Typed, Stored, SucceededIsComplete, NEW w \in Workers, Step(w)
    PROVE  SucceededIsComplete'
<1>. USE DEF Typed, TypeOK, StoresOK, HorsesOK, Holding
<1>1. overlays \subseteq overlays' /\ struck \subseteq struck'
  BY Locality DEF Local
<1>2. CASE UNCHANGED dbVars
  BY <1>1, <1>2 DEF SucceededIsComplete, dbVars, results
<1>3. CASE MarksRow(w) \/ FailsRow(w)
  BY <1>1, <1>3 DEF MarksRow, FailsRow, SucceededIsComplete, results
<1>4. CASE Succeeds(w) \/ SucceedsLate(w)
  <2>1. doc[w] \in Docs /\ doc[w] \in overlays
    BY <1>4 DEF Succeeds, SucceedsLate, Stored, StoredBy, Persisting
  <2>2. /\ predictions'[doc[w]] = predictions[doc[w]] + 1
        /\ \A d \in Docs \ {doc[w]} : /\ predictions'[d] = predictions[d] /\ row'[d] = row[d]
                                      /\ assets'[d] = assets[d] /\ audits'[d] = audits[d]
    BY <1>4, <2>1 DEF Succeeds, SucceedsLate, ResultCommitted
  <2>3. CASE Succeeds(w)
    <3>1. sess[w] = "dirty"
      BY <2>3 DEF Succeeds, Stored, StoredBy
    <3>2. assets'[doc[w]] = assets[doc[w]] + 1 /\ audits'[doc[w]] = audits[doc[w]] + 1
      BY <2>1, <2>3, <3>1 DEF Succeeds, ResultCommitted
    <3>. QED  BY <1>1, <2>1, <2>2, <3>2 DEF SucceededIsComplete
  <2>4. CASE SucceedsLate(w)
    <3>1. "timeout" \in struck'
      BY <1>1, <2>4 DEF SucceedsLate, Stored, StoredBy
    <3>2. row'[doc[w]] # "succeeded"
      BY <2>1, <2>4 DEF SucceedsLate, ResultCommitted
    <3>. QED  BY <1>1, <2>1, <2>2, <3>1, <3>2 DEF SucceededIsComplete
  <2>. QED  BY <1>4, <2>3, <2>4
<1>. QED  BY <1>2, <1>3, <1>4, DbEffects

\* Only a work-horse that has returned finishes its message.
LEMMA FinishedStep ==
    ASSUME Typed, Stored, FinishedMeansClassified, NEW w \in Workers, Step(w)
    PROVE  FinishedMeansClassified'
<1>. USE DEF Typed, TypeOK, StoresOK, HorsesOK, Holding
<1>1. \A d \in Docs : predictions[d] > 0 => predictions'[d] > 0
  BY DbEffects DEF MarksRow, FailsRow, Succeeds, SucceedsLate, ResultCommitted, dbVars, results
<1>2. ASSUME NEW d \in Docs, "finished" \in places'[d]
      PROVE  predictions'[d] > 0
  <2>1. CASE "finished" \in places[d]
    BY <1>1, <2>1 DEF FinishedMeansClassified
  <2>2. CASE Return(w)
    BY <1>1, <1>2, <2>1, <2>2 DEF Return, Move, Stored, StoredBy
  <2>3. CASE GoesOn(w) \/ \E e \in Docs : Dequeue(w, e)
    BY <1>2, <2>1, <2>3 DEF GoesOn, Dequeue, Move
  <2>4. CASE WorkerDies(w)
    BY <1>2, <2>1, <2>4 DEF WorkerDies, rqVars
  <2>5. CASE RqFails(doc[w]) /\ pc[w] # "idle"
    BY <1>2, <2>1, <2>5 DEF RqFails, Move
  <2>. QED  BY <2>2, <2>3, <2>4, <2>5, Ends
<1>. QED  BY <1>2 DEF FinishedMeansClassified

\* What happens outside the work-horses.
Elsewhere == \E d \in Docs : Push(d) \/ Produce(d) \/ Abandon(d) \/ Schedule(d)

\* Nothing of it touches a work-horse, a result or an overlay, or finishes a
\* message, and the only row it writes is a new one.
LEMMA ElsewhereEffects ==
    ASSUME Typed, Elsewhere
    PROVE  /\ UNCHANGED <<results, overlays, horse>> /\ struck \subseteq struck'
           /\ UNCHANGED <<row, producer>> \/ \E d \in Docs : Push(d) \/ Produce(d)
           /\ \A d \in Docs : "finished" \in places'[d] => "finished" \in places[d]
<1>. USE DEF Typed, TypeOK, StoresOK, dbVars, results, rqVars, mishaps
<1>1. ASSUME NEW d \in Docs, Push(d) \/ Produce(d)
      PROVE  /\ UNCHANGED <<results, overlays, horse>> /\ struck \subseteq struck'
             /\ \A e \in Docs : "finished" \in places'[e] => "finished" \in places[e]
  BY <1>1 DEF Push, Produce, Commits, NeverCommits, Strike
<1>2. ASSUME NEW d \in Docs, Abandon(d) \/ Schedule(d)
      PROVE  /\ UNCHANGED <<row, producer, results, overlays, horse>> /\ struck \subseteq struck'
             /\ \A e \in Docs : "finished" \in places'[e] => "finished" \in places[e]
  BY <1>2 DEF Abandon, Schedule, RqFails, Move, Strike
<1>. QED  BY <1>1, <1>2 DEF Elsewhere

\* A new row is neither succeeded nor classified.
LEMMA ElsewhereComplete ==
    ASSUME Typed, Stored, SucceededIsComplete, FinishedMeansClassified, Elsewhere
    PROVE  Stored' /\ SucceededIsComplete' /\ FinishedMeansClassified'
<1>. USE DEF Typed, TypeOK, StoresOK
<1>1. Stored' /\ FinishedMeansClassified'
  BY ElsewhereEffects DEF Stored, StoredBy, FinishedMeansClassified, horse, results
<1>2. \A d \in Docs : row'[d] = "succeeded" => row[d] = "succeeded"
  BY ElsewhereEffects DEF Push, Produce, Commits, NeverCommits, dbVars, results
<1>. QED  BY <1>1, <1>2, ElsewhereEffects DEF SucceededIsComplete, results

Complete == Stored /\ SucceededIsComplete /\ FinishedMeansClassified

\* The overlay, the prediction, the job's success and the message's end come in
\* this order, in every reachable state.
LEMMA CompleteInvariant == Spec => []Complete
<1>1. Init => Complete
  BY DEF Init, Complete, Stored, StoredBy, Persisting, Flushed, SucceededIsComplete,
       FinishedMeansClassified
<1>2. Typed /\ Complete /\ [Next]_vars => Complete'
  <2>1. ASSUME Typed, Complete, Next
        PROVE  Complete'
    BY <2>1, StoredStep, CompleteStep, FinishedStep, ElsewhereComplete DEF Next, Elsewhere, Complete
  <2>2. ASSUME Complete, UNCHANGED vars
        PROVE  Complete'
    BY <2>2 DEF vars, rqVars, dbVars, results, horse, mishaps, Complete, Stored, StoredBy,
         SucceededIsComplete,
                FinishedMeansClassified
  <2>. QED  BY <2>1, <2>2
<1>. QED  BY <1>1, <1>2, TypedInvariant, PTL DEF Spec

\* A job that reads succeeded has prediction, overlay asset and audit event, a prediction
\* has its overlay in MinIO, and unless the timer has struck the rows of a result are
\* all there or none is (classification_jobs.py:43-111).
THEOREM SuccessIsComplete == Spec => []SucceededIsComplete
  BY CompleteInvariant, PTL DEF Complete

\* RQ calls a message finished only when its document is classified.
THEOREM FinishedIsClassified == Spec => []FinishedMeansClassified
  BY CompleteInvariant, PTL DEF Complete

-----------------------------------------------------------------------------
(* One attempt at a time, as long as no paused worker is taken for dead.   *)

\* Nothing has come of a document whose ingestion has not committed.
Unsent ==
    /\ \A d \in Docs :
          /\ producer[d] = "none" => places[d] = {}
          /\ producer[d] # "done" => row[d] = "none" /\ predictions[d] = 0
    /\ \A w \in Workers :
          /\ pc[w] # "idle" => producer[doc[w]] # "none"
          /\ pc[w] \notin {"idle", "lookup"} => producer[doc[w]] = "done"

\* Every step keeps it so.
LEMMA UnsentStep == ASSUME Typed, Unsent, Next PROVE Unsent'
<1>. USE DEF Typed, TypeOK, StoresOK, HorsesOK, Holding, Persisting, Flushed, results
<1>1. ASSUME NEW d \in Docs, Push(d) \/ Produce(d)
      PROVE  Unsent'
  BY <1>1 DEF Push, Produce, Commits, NeverCommits, Unsent, dbVars, results, rqVars, horse
<1>2. ASSUME NEW d \in Docs, Abandon(d) \/ Schedule(d)
      PROVE  Unsent'
  BY <1>2 DEF Abandon, Schedule, RqFails, Move, Unsent, dbVars, results, horse
<1>3. ASSUME NEW w \in Workers, Step(w)
      PROVE  Unsent'
  <2>1. Local(w)
    BY <1>3, Locality
  <2>2. \A d \in Docs : producer'[d] = "none" => places'[d] = {}
    <3>1. CASE GoesOn(w) \/ WorkerDies(w)
      BY <2>1, <3>1 DEF GoesOn, WorkerDies, Local, Unsent, rqVars
    <3>2. CASE Return(w) \/ (RqFails(doc[w]) /\ pc[w] # "idle")
      <4>1. pc[w] # "idle" /\ \A d \in Docs \ {doc[w]} : places'[d] = places[d]
        BY <3>2 DEF Return, RqFails, Move
      <4>. QED  BY <2>1, <4>1 DEF Local, Unsent
    <3>3. ASSUME NEW d \in Docs, Dequeue(w, d)
          PROVE  \A e \in Docs : producer'[e] = "none" => places'[e] = {}
      <4>1. "queue" \in places[d] /\ \A e \in Docs \ {d} : places'[e] = places[e]
        BY <3>3 DEF Dequeue, Move
      <4>2. producer' = producer
        BY <2>1 DEF Local
      <4>. QED  BY <4>1, <4>2 DEF Unsent
    <3>. QED  BY <1>3, <3>1, <3>2, <3>3, Ends
  <2>3. \A d \in Docs : producer'[d] # "done" => row'[d] = "none" /\ predictions'[d] = 0
    <3>1. CASE UNCHANGED dbVars
      BY <2>1, <3>1 DEF Local, Unsent, dbVars, results
    <3>2. CASE MarksRow(w) \/ FailsRow(w) \/ Succeeds(w) \/ SucceedsLate(w)
      <4>1. /\ producer[doc[w]] = "done"
            /\ \A d \in Docs \ {doc[w]} : row'[d] = row[d] /\ predictions'[d] = predictions[d]
        BY <3>2 DEF MarksRow, FailsRow, Succeeds, SucceedsLate, ResultCommitted, Unsent
      <4>. QED  BY <2>1, <4>1 DEF Local, Unsent
    <3>. QED  BY <1>3, <3>1, <3>2, DbEffects
  <2>4. ASSUME NEW v \in Workers \ {w}
        PROVE  /\ pc'[v] # "idle" => producer'[doc'[v]] # "none"
               /\ pc'[v] \notin {"idle", "lookup"} => producer'[doc'[v]] = "done"
    BY <2>1 DEF Local, Unsent
  <2>5. /\ pc'[w] # "idle" => producer'[doc'[w]] # "none"
        /\ pc'[w] \notin {"idle", "lookup"} => producer'[doc'[w]] = "done"
    <3>1. CASE GoesOn(w)
      BY <2>1, <3>1 DEF GoesOn, Persists, Active, Local, Unsent
    <3>2. CASE Idle(w)
      BY <3>2 DEF Idle
    <3>3. ASSUME NEW d \in Docs, Dequeue(w, d)
          PROVE  /\ pc'[w] = "lookup" /\ producer'[doc'[w]] # "none"
      BY <3>3 DEF Dequeue, Unsent
    <3>. QED  BY <1>3, <3>1, <3>2, <3>3, Moves
  <2>. QED  BY <2>2, <2>3, <2>4, <2>5 DEF Unsent
<1>. QED  BY <1>1, <1>2, <1>3 DEF Next

\* Short of a pause, a message is in one place, and a busy worker is the only one
\* to hold its message, which RQ counts as started.
OneHolder ==
    "pause" \notin struck =>
        /\ \A d \in Docs : \A p, q \in places[d] : p = q
        /\ \A w \in Workers : pc[w] # "idle" =>
              /\ "started" \in places[doc[w]]
              /\ \A v \in Workers : pc[v] # "idle" /\ doc[v] = doc[w] => v = w

\* Every step keeps it so.
LEMMA OneHolderStep == ASSUME Typed, Unsent, OneHolder, Next PROVE OneHolder'
<1>. USE DEF Typed, TypeOK, StoresOK, HorsesOK, Holding
<1>1. ASSUME NEW d \in Docs, Push(d) \/ Produce(d) \/ Schedule(d)
      PROVE  OneHolder'
  BY <1>1 DEF Push, Produce, Commits, NeverCommits, Schedule, Strike, Move, OneHolder, Unsent,
              dbVars, results, rqVars, horse, mishaps
<1>2. ASSUME NEW d \in Docs, Abandon(d)
      PROVE  OneHolder'
  <2>1. CASE Held(d)
    BY <1>2, <2>1 DEF Abandon, Strike, OneHolder
  <2>2. CASE ~Held(d)
    BY <1>2, <2>2 DEF Abandon, Held, RqFails, Move, OneHolder, horse, mishaps
  <2>. QED  BY <2>1, <2>2
<1>3. ASSUME NEW w \in Workers, Step(w)
      PROVE  OneHolder'
  <2>. SUFFICES ASSUME "pause" \notin struck'
                PROVE  OneHolder'
    BY DEF OneHolder
  <2>1. Local(w) /\ "pause" \notin struck
    BY <1>3, Locality DEF Local
  <2>2. CASE GoesOn(w)
    BY <2>1, <2>2 DEF GoesOn, Local, OneHolder
  <2>3. CASE WorkerDies(w)
    BY <2>1, <2>3 DEF WorkerDies, Idle, Local, OneHolder, rqVars
  <2>4. CASE Return(w) \/ (RqFails(doc[w]) /\ Idle(w) /\ pc[w] # "idle")
    <3>1. /\ pc[w] # "idle" /\ pc'[w] = "idle"
          /\ \E to \in Places : Move(doc[w], "started", to)
      BY <2>4 DEF Return, RqFails, Idle, Places
    <3>. QED  BY <2>1, <3>1 DEF Move, Local, OneHolder
  <2>5. ASSUME NEW d \in Docs, Dequeue(w, d)
        PROVE  OneHolder'
    <3>1. places[d] = {"queue"}
      BY <2>1, <2>5 DEF Dequeue, OneHolder
    <3>2. \A v \in Workers : pc[v] # "idle" => doc[v] # d
      BY <2>1, <3>1 DEF OneHolder
    <3>3. places'[d] = {"started"} /\ \A e \in Docs \ {d} : places'[e] = places[e]
      BY <2>5, <3>1 DEF Dequeue, Move
    <3>4. /\ pc'[w] = "lookup" /\ doc'[w] = d
          /\ \A v \in Workers \ {w} : pc'[v] = pc[v] /\ doc'[v] = doc[v]
      BY <2>5 DEF Dequeue
    <3>5. \A e \in Docs : \A p, q \in places'[e] : p = q
      BY <2>1, <3>3 DEF OneHolder
    <3>6. \A v \in Workers : pc'[v] # "idle" => "started" \in places'[doc'[v]]
      BY <2>1, <3>2, <3>3, <3>4 DEF OneHolder
    <3>7. ASSUME NEW v \in Workers, NEW u \in Workers,
                 pc'[v] # "idle", pc'[u] # "idle", doc'[u] = doc'[v]
          PROVE  u = v
      BY <2>1, <3>2, <3>4, <3>7 DEF OneHolder
    <3>. QED  BY <3>5, <3>6, <3>7 DEF OneHolder
  <2>. QED  BY <1>3, <2>2, <2>3, <2>4, <2>5, Ends
<1>. QED  BY <1>1, <1>2, <1>3 DEF Next

\* An attempt under way is at a document without a prediction.
Undecided == \A w \in Workers : Fresh(w) \/ sess[w] \in Flushed => predictions[doc[w]] = 0

\* A classified document has one, and its job is never taken up again.
Decided ==
    \A d \in Docs : /\ predictions[d] <= 1
                    /\ predictions[d] > 0 => row[d] \notin {"queued", "running"}

Once == "pause" \notin struck => Undecided /\ Decided

\* Every step keeps it so.
LEMMA OnceStep == ASSUME Typed, Stored, Unsent, OneHolder, Once, Next PROVE Once'
<1>. USE DEF Typed, TypeOK, StoresOK, HorsesOK, Holding, Persisting, Flushed, StoredBy, Persists,
     results
<1>1. ASSUME NEW d \in Docs, Push(d) \/ Produce(d)
      PROVE  Once'
  BY <1>1 DEF Push, Produce, Commits, NeverCommits, Strike, Unsent, Once, Undecided, Decided,
              Fresh, dbVars, results, horse, mishaps
<1>2. ASSUME NEW d \in Docs, Abandon(d) \/ Schedule(d)
      PROVE  Once'
  BY <1>2 DEF Abandon, Schedule, Strike, Once, Undecided, Decided, Fresh, dbVars, results, horse,
       mishaps
<1>3. ASSUME NEW w \in Workers, Step(w)
      PROVE  Once'
  <2>. SUFFICES ASSUME "pause" \notin struck'
                PROVE  Once'
    BY DEF Once
  <2>1. Local(w) /\ "pause" \notin struck
    BY <1>3, Locality DEF Local
  <2>2. Stored'
    BY <1>3, StoredStep
  <2>3. Decided'
    <3>1. CASE UNCHANGED dbVars
      BY <2>1, <3>1 DEF Once, Decided, dbVars, results
    <3>2. CASE MarksRow(w) \/ FailsRow(w)
      BY <2>1, <3>2 DEF Once, Undecided, Decided, MarksRow, FailsRow, Fresh
    <3>3. CASE Succeeds(w) \/ SucceedsLate(w)
      <4>1. doc[w] \in Docs /\ predictions[doc[w]] = 0
        BY <2>1, <3>3 DEF Once, Undecided, Decided, Succeeds, SucceedsLate, Fresh
      <4>2. /\ predictions'[doc[w]] = 1 /\ row'[doc[w]] \notin {"queued", "running"}
            /\ \A d \in Docs \ {doc[w]} : predictions'[d] = predictions[d] /\ row'[d] = row[d]
        BY <3>3, <4>1 DEF Succeeds, SucceedsLate, ResultCommitted
      <4>. QED  BY <2>1, <4>2 DEF Once, Decided
    <3>. QED  BY <1>3, <3>1, <3>2, <3>3, DbEffects
  <2>4. ASSUME NEW v \in Workers \ {w}, Fresh(v)' \/ sess'[v] \in Flushed
        PROVE  predictions'[doc'[v]] = 0
    <3>1. pc[v] # "idle" /\ doc'[v] = doc[v] /\ predictions[doc[v]] = 0 /\ doc[v] \in Docs
      BY <2>1, <2>4 DEF Local, Fresh, Stored, Once, Undecided
    <3>2. pc[w] # "idle" => doc[w] # doc[v]
      BY <2>1, <3>1 DEF OneHolder
    <3>3. predictions'[doc[v]] = predictions[doc[v]]
      BY <1>3, <3>1, <3>2, DbEffects
      DEF MarksRow, FailsRow, Succeeds, SucceedsLate, ResultCommitted, dbVars, results
    <3>. QED  BY <3>1, <3>3
  <2>5. ASSUME Fresh(w)' \/ sess'[w] \in Flushed
        PROVE  predictions'[doc'[w]] = 0
    <3>1. GoesOn(w)
      BY <1>3, <2>2, <2>5, Moves DEF Idle, Dequeue, Fresh, Stored
    <3>2. doc[w] \in Docs /\ doc'[w] = doc[w] /\ predictions[doc[w]] = 0
      BY <2>1, <2>5, <3>1 DEF GoesOn, Fresh, Active, Once, Undecided, Decided
    <3>3. UNCHANGED predictions
      BY <1>3, <2>5, <3>1, DbEffects
      DEF GoesOn, MarksRow, FailsRow, Succeeds, SucceedsLate, Fresh, dbVars, results
    <3>. QED  BY <3>2, <3>3
  <2>6. Undecided'
    BY <2>4, <2>5 DEF Undecided
  <2>. QED  BY <2>3, <2>6 DEF Once
<1>. QED  BY <1>1, <1>2, <1>3 DEF Next

\* As long as neither timer nor pause has struck, a prediction's job has succeeded
\* and a failed attempt has nothing to commit.
Prompt ==
    struck \cap {"timeout", "pause"} = {} =>
        /\ \A d \in Docs : predictions[d] > 0 => row[d] = "succeeded"
        /\ \A w \in Workers : pc[w] = "fail" =>
              \/ sess[w] = "broken"
              \/ sess[w] = "clean" /\ predictions[doc[w]] = 0

\* Every step keeps it so.
LEMMA PromptStep == ASSUME Typed, Stored, Unsent, OneHolder, Once, Prompt, Next PROVE Prompt'
<1>. USE DEF Typed, TypeOK, StoresOK, HorsesOK, Holding, Persisting, Flushed, StoredBy, Persists,
     results
<1>1. ASSUME NEW d \in Docs, Push(d) \/ Produce(d)
      PROVE  Prompt'
  BY <1>1 DEF Push, Produce, Commits, NeverCommits, Strike, Unsent, Prompt, dbVars, results, horse,
              mishaps
<1>2. ASSUME NEW d \in Docs, Abandon(d) \/ Schedule(d)
      PROVE  Prompt'
  BY <1>2 DEF Abandon, Schedule, Strike, Prompt, dbVars, results, horse, mishaps
<1>3. ASSUME NEW w \in Workers, Step(w)
      PROVE  Prompt'
  <2>. SUFFICES ASSUME struck' \cap {"timeout", "pause"} = {}
                PROVE  Prompt'
    BY DEF Prompt
  <2>1. Local(w) /\ struck \cap {"timeout", "pause"} = {} /\ "pause" \notin struck
    BY <1>3, Locality DEF Local
  <2>2. ~SucceedsLate(w)
    BY <2>1 DEF SucceedsLate, Prompt
  <2>3. \A d \in Docs : predictions'[d] > 0 => row'[d] = "succeeded"
    <3>1. CASE UNCHANGED dbVars
      BY <2>1, <3>1 DEF Prompt, dbVars, results
    <3>2. CASE MarksRow(w) \/ FailsRow(w)
      BY <2>1, <3>2 DEF Once, Undecided, Decided, Prompt, MarksRow, FailsRow, Fresh
    <3>3. CASE Succeeds(w)
      BY <2>1, <3>3 DEF Succeeds, ResultCommitted, Prompt
    <3>. QED  BY <1>3, <2>2, <3>1, <3>2, <3>3, DbEffects
  <2>4. ASSUME NEW v \in Workers \ {w}, pc'[v] = "fail"
        PROVE  \/ sess'[v] = "broken"
               \/ sess'[v] = "clean" /\ predictions'[doc'[v]] = 0
    <3>1. pc[v] = "fail" /\ doc'[v] = doc[v] /\ sess'[v] = sess[v] /\ doc[v] \in Docs
      BY <2>1, <2>4 DEF Local
    <3>2. pc[w] # "idle" => doc[w] # doc[v]
      BY <2>1, <3>1 DEF OneHolder
    <3>3. predictions'[doc[v]] = predictions[doc[v]]
      BY <1>3, <3>1, <3>2, DbEffects
      DEF MarksRow, FailsRow, Succeeds, SucceedsLate, ResultCommitted, dbVars, results
    <3>. QED  BY <2>1, <3>1, <3>3 DEF Prompt
  <2>5. ASSUME pc'[w] = "fail", sess'[w] # "broken"
        PROVE  sess'[w] = "clean" /\ predictions'[doc'[w]] = 0
    <3>1. GoesOn(w)
      BY <1>3, <2>5, Moves DEF Idle, Dequeue
    <3>2. pc[w] \in {"work", "overlay"} /\ doc'[w] = doc[w] /\ sess'[w] = sess[w]
      BY <2>5, <3>1 DEF GoesOn
    <3>3. sess'[w] = "clean" /\ predictions[doc[w]] = 0
      BY <2>1, <2>5, <3>2 DEF Stored, Once, Undecided, Fresh
    <3>4. UNCHANGED predictions
      BY <1>3, <3>2, DbEffects DEF MarksRow, FailsRow, Succeeds, SucceedsLate, dbVars, results
    <3>. QED  BY <3>2, <3>3, <3>4
  <2>. QED  BY <2>3, <2>4, <2>5 DEF Prompt
<1>. QED  BY <1>1, <1>2, <1>3 DEF Next

Exclusive == Stored /\ Unsent /\ OneHolder /\ Once /\ Prompt

\* One attempt at a time leaves one prediction.
LEMMA ExclusiveInvariant == Spec => []Exclusive
<1>1. Init => Unsent /\ OneHolder /\ Once /\ Prompt
  BY DEF Init, Unsent, OneHolder, Once, Undecided, Decided, Prompt, Fresh, Persisting, Flushed
<1>2. Typed /\ Stored /\ Unsent /\ OneHolder /\ Once /\ Prompt /\ [Next]_vars
          => (Unsent /\ OneHolder /\ Once /\ Prompt)'
  <2>1. ASSUME Typed, Stored, Unsent, OneHolder, Once, Prompt, Next
        PROVE  (Unsent /\ OneHolder /\ Once /\ Prompt)'
    BY <2>1, UnsentStep, OneHolderStep, OnceStep, PromptStep
  <2>2. ASSUME Unsent, OneHolder, Once, Prompt, UNCHANGED vars
        PROVE  (Unsent /\ OneHolder /\ Once /\ Prompt)'
    BY <2>2 DEF vars, rqVars, dbVars, results, horse, mishaps, Unsent, OneHolder, Once, Undecided,
                Decided, Prompt, Fresh
  <2>. QED  BY <2>1, <2>2
<1>3. Complete => Stored
  BY DEF Complete
<1>. QED  BY <1>1, <1>2, <1>3, TypedInvariant, CompleteInvariant, PTL DEF Spec, Exclusive

\* A document has at most one prediction, however often its job was retried,
\* unless RQ took a paused worker for dead.
THEOREM PredictedOnce == Spec => []OnePrediction
<1>1. Exclusive => OnePrediction
  BY DEF Exclusive, Once, Decided, OnePrediction
<1>. QED  BY <1>1, ExclusiveInvariant, PTL

\* Job status and prediction commit together, but for the timer and the pause.
THEOREM PredictedJobSucceeded == Spec => []PredictionMeansSucceeded
<1>1. Exclusive => PredictionMeansSucceeded
  BY DEF Exclusive, Prompt, PredictionMeansSucceeded
<1>. QED  BY <1>1, ExclusiveInvariant, PTL
=============================================================================
