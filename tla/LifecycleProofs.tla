-------------------------- MODULE LifecycleProofs ---------------------------
(***************************************************************************)
(* Classification implements Lifecycle, for any number of documents,       *)
(* workers, retries and faults.                                            *)
(***************************************************************************)
EXTENDS ClassificationSafetyProofs

-----------------------------------------------------------------------------
(* What the fate of a document stands for.                                 *)

Told ==
    /\ fate = [d \in Docs |-> fate[d]]
    /\ \A d \in Docs :
          /\ predictions[d] > 0 => fate[d] = "classified"
          /\ predictions[d] = 0 =>
                /\ row[d] = "none" => fate[d] = "unfiled"
                /\ row[d] \in {"queued", "running"} => fate[d] = "pending"
                /\ row[d] \in {"succeeded", "retryable_failed"} => fate[d] = "failed"

\* The four cases of fate are those of Told.
LEMMA FateTold == ASSUME StoresOK PROVE Told
  BY DEF StoresOK, Told, fate, Active

\* And so after a step.
LEMMA FateToldNext == ASSUME StoresOK' PROVE Told'
  BY DEF StoresOK, Told, fate, Active

\* A document whose row and predictions a step leaves alone keeps its fate.
LEMMA FateKept ==
    ASSUME StoresOK, NEW d \in Docs, row'[d] = row[d], predictions'[d] = predictions[d]
    PROVE  fate'[d] = fate[d]
  BY DEF fate, Active

-----------------------------------------------------------------------------
(* The job of an attempt under way.                                        *)

\* A document that ingestion has committed has a job.
Filed == \A d \in Docs : producer[d] = "done" => row[d] # "none"

\* Short of a pause, an attempt that may yet commit finds its job active, unless
\* it has committed before.
ActiveAttempt ==
    "pause" \notin struck =>
        \A w \in Workers : Fresh(w) \/ (pc[w] = "fail" /\ sess[w] # "broken") =>
            Active(doc[w]) \/ (pc[w] = "fail" /\ sess[w] = "clean" /\ predictions[doc[w]] > 0)

Fine == Filed /\ ActiveAttempt

\* Every step keeps it so.
LEMMA FiledStep == ASSUME Typed, Exclusive, Filed, Next PROVE Filed'
<1>. USE DEF Typed, TypeOK, StoresOK
<1>1. ASSUME NEW d \in Docs, Push(d) \/ Produce(d)
      PROVE  Filed'
  BY <1>1 DEF Push, Produce, Commits, NeverCommits, Filed, dbVars, results
<1>2. ASSUME NEW d \in Docs, Abandon(d) \/ Schedule(d)
      PROVE  Filed'
  BY <1>2 DEF Abandon, Schedule, Filed, dbVars, results
<1>3. ASSUME NEW w \in Workers, Step(w)
      PROVE  Filed'
  BY <1>3, DbEffects, Locality
  DEF MarksRow, FailsRow, Succeeds, SucceedsLate, ResultCommitted, dbVars, results, Local, Filed
<1>. QED  BY <1>1, <1>2, <1>3 DEF Next

\* Every step keeps it so.
LEMMA ActiveAttemptStep ==
    ASSUME Typed, Exclusive, Complete, ActiveAttempt, Next
    PROVE  ActiveAttempt'
<1>. USE DEF Typed, TypeOK, StoresOK, HorsesOK, Holding, results
<1>1. ASSUME NEW d \in Docs, Push(d) \/ Produce(d)
      PROVE  ActiveAttempt'
  <2>1. \A w \in Workers : pc[w] \notin {"idle", "lookup"} =>
            producer[doc[w]] = "done" /\ row'[doc[w]] = row[doc[w]]
    BY <1>1 DEF Push, Produce, Commits, NeverCommits, Exclusive, Unsent, dbVars, results
  <2>2. UNCHANGED <<pc, doc, sess, predictions>> /\ struck \subseteq struck'
    BY <1>1 DEF Push, Produce, Commits, NeverCommits, Strike, dbVars, results, horse, mishaps
  <2>. QED  BY <2>1, <2>2 DEF ActiveAttempt, Fresh, Persisting, Active
<1>2. ASSUME NEW d \in Docs, Abandon(d) \/ Schedule(d)
      PROVE  ActiveAttempt'
  BY <1>2 DEF Abandon, Schedule, Strike, ActiveAttempt, Fresh, Active, dbVars, results, horse, mishaps
<1>3. ASSUME NEW w \in Workers, Step(w)
      PROVE  ActiveAttempt'
  <2>. SUFFICES ASSUME "pause" \notin struck'
                PROVE  ActiveAttempt'
    BY DEF ActiveAttempt
  <2>1. Local(w) /\ "pause" \notin struck
    BY <1>3, Locality DEF Local
  <2>2. ASSUME NEW v \in Workers \ {w}, Fresh(v)' \/ (pc'[v] = "fail" /\ sess'[v] # "broken")
        PROVE  Active(doc[v])' \/ (pc'[v] = "fail" /\ sess'[v] = "clean" /\ predictions'[doc'[v]] > 0)
    <3>1. /\ pc'[v] = pc[v] /\ doc'[v] = doc[v] /\ sess'[v] = sess[v]
          /\ pc[v] # "idle" /\ doc[v] \in Docs
      BY <2>1, <2>2 DEF Local, Fresh, Persisting
    <3>2. pc[w] # "idle" => doc[w] # doc[v]
      BY <2>1, <3>1 DEF Exclusive, OneHolder
    <3>3. predictions'[doc[v]] = predictions[doc[v]] /\ row'[doc[v]] = row[doc[v]]
      BY <1>3, <3>1, <3>2, DbEffects
      DEF MarksRow, FailsRow, Succeeds, SucceedsLate, ResultCommitted, dbVars, results
    <3>. QED  BY <2>1, <2>2, <3>1, <3>3 DEF ActiveAttempt, Fresh, Active
  <2>3. ASSUME Fresh(w)' \/ (pc'[w] = "fail" /\ sess'[w] # "broken")
        PROVE  Active(doc[w])' \/ (pc'[w] = "fail" /\ sess'[w] = "clean" /\ predictions'[doc'[w]] > 0)
    <3>1. GoesOn(w)
      BY <1>3, <2>3, Moves DEF Idle, Dequeue, Fresh, Persisting
    <3>2. doc'[w] = doc[w] /\ doc[w] \in Docs
      BY <3>1 DEF GoesOn
    <3>3. CASE MarksRow(w)
      BY <3>2, <3>3 DEF MarksRow, Active
    <3>4. CASE UNCHANGED dbVars
      <4>1. CASE pc[w] = "after"
        BY <2>3, <3>1, <3>2, <3>4, <4>1 DEF GoesOn, Persists, Persisting, Exclusive, Stored,
             StoredBy, Fresh, dbVars, results
      <4>2. CASE pc[w] # "after"
        BY <2>1, <2>3, <3>1, <3>2, <3>4, <4>2 DEF GoesOn, Persists, Persisting, Fresh,
             ActiveAttempt, Active, dbVars, results
      <4>. QED  BY <4>1, <4>2
    <3>. QED  BY <1>3, <2>3, <3>1, <3>3, <3>4, DbEffects
              DEF GoesOn, FailsRow, Succeeds, SucceedsLate, Fresh, Persisting
  <2>. QED  BY <2>2, <2>3 DEF ActiveAttempt
<1>. QED  BY <1>1, <1>2, <1>3 DEF Next

\* A filed document has a job and an attempt under way an active one.
LEMMA FineInvariant == Spec => []Fine
<1>1. Init => Fine
  BY DEF Init, Fine, Filed, ActiveAttempt, Fresh, Persisting
<1>2. Typed /\ Exclusive /\ Complete /\ Fine /\ [Next]_vars => Fine'
  <2>1. ASSUME Typed, Exclusive, Complete, Fine, Next
        PROVE  Fine'
    BY <2>1, FiledStep, ActiveAttemptStep DEF Fine
  <2>2. ASSUME Fine, UNCHANGED vars
        PROVE  Fine'
    BY <2>2 DEF vars, rqVars, dbVars, results, horse, mishaps, Fine, Filed, ActiveAttempt, Fresh, Active
  <2>. QED  BY <2>1, <2>2
<1>. QED  BY <1>1, <1>2, TypedInvariant, ExclusiveInvariant, CompleteInvariant, PTL DEF Spec

-----------------------------------------------------------------------------
(* Every step is a step of Lifecycle or changes nothing there.             *)

\* What happens outside the work-horses is at most a filing or a suspicion.
LEMMA ElsewhereMaps ==
    ASSUME Typed, Typed', Exclusive, Elsewhere
    PROVE  [Life!Next]_(Life!vars)
<1>. USE DEF Typed, TypeOK
<1>0. Told /\ Told'
  BY FateTold, FateToldNext
<1>1. ASSUME NEW d \in Docs, Commits(d)
      PROVE  Life!File(d)
  <2>1. /\ row[d] = "none" /\ predictions[d] = 0 /\ row'[d] = "queued"
        /\ UNCHANGED <<predictions, struck>>
        /\ \A e \in Docs \ {d} : row'[e] = row[e]
    BY <1>1 DEF Commits, Exclusive, Unsent, StoresOK, mishaps, results
  <2>2. \A e \in Docs \ {d} : fate'[e] = fate[e]
    BY <2>1, FateKept
  <2>3. fate[d] = "unfiled" /\ fate'[d] = "pending"
    BY <1>0, <2>1 DEF Told
  <2>4. fate' = [fate EXCEPT ![d] = "pending"]
    BY <1>0, <2>2, <2>3 DEF Told
  <2>. QED  BY <2>1, <2>3, <2>4 DEF Life!File
<1>2. ASSUME NEW d \in Docs, Push(d) \/ NeverCommits(d) \/ Schedule(d) \/ Abandon(d)
      PROVE  Life!Suspect \/ UNCHANGED Life!vars
  <2>1. UNCHANGED <<row, predictions>>
    BY <1>2 DEF Push, NeverCommits, Schedule, Abandon, dbVars, results
  <2>2. fate' = fate
    BY <2>1 DEF fate, Active
  <2>3. "pause" \in struck => "pause" \in struck'
    BY <1>2, ElsewhereEffects DEF Elsewhere, Produce
  <2>. QED  BY <2>1, <2>2, <2>3 DEF Life!Suspect, Life!vars
<1>. QED  BY <1>1, <1>2 DEF Elsewhere, Produce, Life!Next

\* No step of a work-horse is a suspicion.
LEMMA StepUnsuspecting ==
    ASSUME Typed, NEW w \in Workers, Step(w)
    PROVE  ("pause" \in struck)' = ("pause" \in struck)
<1>1. UNCHANGED struck \/ \E kind \in FaultKinds \ {"pause"} : Strike(kind)
  BY FlushesOn DEF Step, Flushes, Flush, Dequeue, FindJob, NoActiveJob, LookupFails, MarkRunning,
       MarkRunningFails,
         RunPipeline, PipelineFails, UploadOverlay, OverlayFails, CommitResult,
         PersistFails, Return, MarkRetryable, MarkRetryableFails, TimeoutOutsideTry,
         TimeoutInsideTry, HorseDies, WorkerDies, FaultKinds, mishaps
<1>. QED  BY <1>1 DEF Strike

\* A work-horse decides a pending document once, unless there was a suspicion.
LEMMA StepMaps ==
    ASSUME Typed, Typed', Exclusive, Complete, Fine, NEW w \in Workers, Step(w)
    PROVE  [Life!Next]_(Life!vars)
<1>. USE DEF Typed, TypeOK, HorsesOK, Holding
<1>. DEFINE d == doc[w]
<1>0. Told /\ Told' /\ ("pause" \in struck)' = ("pause" \in struck)
  BY FateTold, FateToldNext, StepUnsuspecting
<1>1. CASE UNCHANGED dbVars
  BY <1>0, <1>1 DEF fate, Active, dbVars, results, Life!vars
<1>2. CASE MarksRow(w) \/ FailsRow(w) \/ Succeeds(w) \/ SucceedsLate(w)
  <2>1. /\ d \in Docs /\ row[d] # "none"
        /\ pc[w] \notin {"idle", "lookup", "after"} /\ (pc[w] = "fail" => sess[w] # "broken")
    BY <1>2 DEF MarksRow, FailsRow, Succeeds, SucceedsLate, Exclusive, Unsent, Fine, Filed, Flushed
  <2>2. ~("pause" \in struck) => fate[d] = "pending" \/ (FailsRow(w) /\ fate[d] = "classified")
    <3>1. ASSUME "pause" \notin struck, predictions[d] = 0
          PROVE  Active(d)
      BY <1>2, <3>1 DEF MarksRow, FailsRow, Succeeds, SucceedsLate, Fine, ActiveAttempt, Fresh,
           Persisting,
                       Flushed
    <3>2. ASSUME "pause" \notin struck, predictions[d] # 0
          PROVE  FailsRow(w)
      BY <1>2, <3>2 DEF MarksRow, Succeeds, SucceedsLate, Exclusive, Once, Undecided, Fresh, Persisting
    <3>. QED  BY <1>0, <2>1, <3>1, <3>2 DEF Told, Active, StoresOK
  <2>3. fate[d] # "unfiled" /\ fate[d] \in Life!Fates
    BY <1>0, <2>1 DEF Told, StoresOK, Life!Fates
  <2>4. /\ \A e \in Docs \ {d} : row'[e] = row[e] /\ predictions'[e] = predictions[e]
        /\ \A e \in Docs \ {d} : fate'[e] = fate[e]
    <3>1. \A e \in Docs \ {d} : row'[e] = row[e] /\ predictions'[e] = predictions[e]
      BY <1>2, <2>1 DEF StoresOK, MarksRow, FailsRow, Succeeds, SucceedsLate, ResultCommitted, results
    <3>. QED  BY <3>1, FateKept
  <2>5. \A f : fate'[d] = f => fate' = [fate EXCEPT ![d] = f]
    BY <1>0, <2>1, <2>4 DEF Told
  <2>6. CASE Succeeds(w) \/ SucceedsLate(w)
    <3>1. predictions' = [predictions EXCEPT ![d] = @ + 1] /\ predictions'[d] > 0
      BY <2>1, <2>6 DEF Succeeds, SucceedsLate, ResultCommitted, StoresOK
    <3>2. fate'[d] = "classified"
      BY <1>0, <2>1, <3>1 DEF Told
    <3>3. ~FailsRow(w)
      BY <2>6, <3>1 DEF FailsRow, results, StoresOK
    <3>. QED  BY <1>0, <2>1, <2>2, <2>3, <2>5, <3>1, <3>2, <3>3 DEF Life!Next, Life!Classify
  <2>7. CASE FailsRow(w)
    <3>1. UNCHANGED predictions /\ row'[d] = "retryable_failed"
      BY <2>1, <2>7 DEF FailsRow, results, StoresOK
    <3>2. CASE predictions[d] = 0
      <4>1. fate'[d] = "failed"
        BY <1>0, <2>1, <3>1, <3>2 DEF Told
      <4>2. CASE fate[d] = "pending"
        BY <1>0, <2>1, <2>5, <3>1, <4>1, <4>2 DEF Life!Next, Life!Fail
      <4>3. CASE fate[d] = "failed"
        BY <1>0, <2>1, <2>4, <3>1, <4>1, <4>3 DEF Told, Life!vars
      <4>. QED  BY <1>0, <2>1, <3>2, <4>2, <4>3 DEF Told, StoresOK
    <3>3. CASE predictions[d] # 0
      <4>1. fate'[d] = "classified" /\ fate[d] = "classified"
        BY <1>0, <2>1, <3>1, <3>3 DEF Told, StoresOK
      <4>. QED  BY <1>0, <2>1, <2>4, <3>1, <4>1 DEF Told, Life!vars
    <3>. QED  BY <3>2, <3>3
  <2>8. CASE MarksRow(w)
    <3>1. UNCHANGED predictions /\ row'[d] = "running"
      BY <2>1, <2>8 DEF MarksRow, results, StoresOK
    <3>2. CASE fate[d] = "failed"
      <4>1. fate'[d] = "pending"
        BY <1>0, <2>1, <3>1, <3>2 DEF Told, StoresOK
      <4>2. "pause" \in struck
        BY <2>2, <3>2
      <4>. QED  BY <1>0, <2>1, <2>5, <3>1, <3>2, <4>1, <4>2 DEF Life!Next, Life!TakeUpAgain
    <3>3. CASE fate[d] \in {"pending", "classified"}
      <4>1. fate'[d] = fate[d]
        BY <1>0, <2>1, <3>1, <3>3 DEF Told, StoresOK
      <4>. QED  BY <1>0, <2>1, <2>4, <3>1, <4>1 DEF Told, Life!vars
    <3>. QED  BY <2>3, <3>2, <3>3 DEF Life!Fates
  <2>. QED  BY <1>2, <2>6, <2>7, <2>8
<1>. QED  BY <1>1, <1>2, DbEffects

\* The refinement: to whoever watches only the fate of the documents, the work of
\* queue, workers and transactions (inference_worker.py:58-125,
\* classification_jobs.py:34-140) is a run of Lifecycle.
THEOREM LifecycleImplemented == Spec => ImplementsLifecycle
<1>1. Init => Life!Init
  BY DEF Init, Life!Init, fate
<1>2. Typed /\ Typed' /\ Exclusive /\ Complete /\ Fine /\ [Next]_vars => [Life!Next]_(Life!vars)
  <2>1. ASSUME Typed, Typed', Exclusive, Complete, Fine, Next
        PROVE  [Life!Next]_(Life!vars)
    BY <2>1, ElsewhereMaps, StepMaps DEF Next, Elsewhere
  <2>2. ASSUME UNCHANGED vars
        PROVE  UNCHANGED Life!vars
    BY <2>2 DEF vars, dbVars, results, mishaps, fate, Active, Life!vars
  <2>. QED  BY <2>1, <2>2
<1>. QED  BY <1>1, <1>2, TypedInvariant, ExclusiveInvariant, CompleteInvariant, FineInvariant, PTL
          DEF Spec, ImplementsLifecycle, Life!Spec
=============================================================================
