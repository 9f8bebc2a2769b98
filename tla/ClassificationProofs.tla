------------------------ MODULE ClassificationProofs ------------------------
(***************************************************************************)
(* Proofs about Classification, for any number of documents, workers,      *)
(* retries and faults, with a scheduler or without.                        *)
(***************************************************************************)
EXTENDS Classification, TLAPS

-----------------------------------------------------------------------------
(* Types.                                                                  *)

\* A worker that is not idle holds a document.
Holding == \A w \in Workers : pc[w] # "idle" => doc[w] \in Docs

Typed == TypeOK /\ Holding

\* A fault is of a kind that may strike, and stays within its bound.
LEMMA StrikeTyped ==
    ASSUME MishapsOK, UNCHANGED scheduler,
           UNCHANGED mishaps \/ \E kind \in FaultKinds : Strike(kind)
    PROVE  MishapsOK'
  BY ClassificationAssumption DEF MishapsOK, Strike, mishaps

\* RQ's bookkeeping keeps its registries and counters typed.
LEMMA RqFailsTyped ==
    ASSUME StoresOK, NEW d \in Docs, RqFails(d)
    PROVE  places' \in [Docs -> SUBSET Places] /\ retries' \in [Docs -> 0 .. MaxRetries]
<1>1. places' \in [Docs -> SUBSET Places]
  BY DEF StoresOK, RqFails, Move, Places
<1>2. retries' \in [Docs -> 0 .. MaxRetries]
  BY ClassificationAssumption DEF StoresOK, RqFails
<1>. QED  BY <1>1, <1>2

\* A work-horse that is gone leaves an idle worker.
LEMMA IdleTyped ==
    ASSUME HorsesOK, Holding, NEW w \in Workers, Idle(w)
    PROVE  HorsesOK' /\ Holding'
  BY DEF HorsesOK, Holding, Idle

\* A document reaches RQ and its row reaches the database.
LEMMA TypedProducer ==
    ASSUME Typed, NEW d \in Docs, Push(d) \/ Produce(d)
    PROVE  Typed'
<1>. USE DEF Typed, TypeOK, Push, Produce, Commits, NeverCommits
<1>1. MishapsOK'
  BY StrikeTyped DEF FaultKinds, mishaps
<1>2. StoresOK'
  BY DEF StoresOK, Places, rqVars, dbVars, results
<1>3. HorsesOK' /\ Holding'
  BY DEF HorsesOK, Holding, horse
<1>. QED  BY <1>1, <1>2, <1>3

\* RQ moves messages and starts work-horses.
LEMMA TypedRq ==
    ASSUME Typed, NEW d \in Docs,
           Abandon(d) \/ Schedule(d) \/ \E w \in Workers : Dequeue(w, d)
    PROVE  Typed'
<1>. USE DEF Typed, TypeOK
<1>1. CASE Abandon(d)
  <2>1. MishapsOK'
    BY <1>1, StrikeTyped DEF Abandon, FaultKinds
  <2>2. StoresOK' /\ HorsesOK' /\ Holding'
    BY <1>1, RqFailsTyped DEF Abandon, StoresOK, HorsesOK, Holding, dbVars, results, horse
  <2>. QED  BY <2>1, <2>2
<1>2. CASE Schedule(d)
  <2>1. MishapsOK' /\ HorsesOK' /\ Holding'
    BY <1>2 DEF Schedule, MishapsOK, HorsesOK, Holding, mishaps, horse
  <2>2. StoresOK'
    BY <1>2 DEF Schedule, Move, StoresOK, Places, dbVars, results
  <2>. QED  BY <2>1, <2>2
<1>3. ASSUME NEW w \in Workers, Dequeue(w, d)
      PROVE  Typed'
  <2>1. MishapsOK' /\ HorsesOK' /\ Holding'
    BY <1>3 DEF Dequeue, MishapsOK, HorsesOK, Holding, mishaps
  <2>2. StoresOK'
    BY <1>3 DEF Dequeue, Move, StoresOK, Places, dbVars, results
  <2>. QED  BY <2>1, <2>2
<1>. QED  BY <1>1, <1>2, <1>3

\* The horse goes on to another step of its function.
LEMMA GotoTyped ==
    ASSUME HorsesOK, Holding, NEW w \in Workers, pc[w] # "idle",
           NEW step \in {"mark", "remark", "work", "overlay", "after", "fail"} \cup Persisting,
           Goto(w, step), sess' \in [Workers -> {"clean", "broken"} \cup Flushed]
    PROVE  HorsesOK' /\ Holding'
  BY DEF HorsesOK, Holding, Goto, Persisting

\* persist_result flushes one row after the other.
Flushes(w) == FlushPrediction(w) \/ FlushAsset(w) \/ FlushJob(w) \/ FlushAudit(w)

\* Each time it goes on to its next step with more in its session, and nothing else
\* happens.
LEMMA FlushesOn ==
    ASSUME NEW w \in Workers, Flushes(w)
    PROVE  /\ pc[w] \in Persisting
           /\ \E flushed \in Flushed, next \in Persisting : Flush(w, flushed, next)
  BY DEF Flushes, FlushPrediction, FlushAsset, FlushJob, FlushAudit, Flushed, Persisting

\* The steps that end with the horse gone.
LEMMA TypedRaise ==
    ASSUME Typed, NEW w \in Workers,
           \/ HorseDies(w) \/ WorkerDies(w)
           \/ NoActiveJob(w) \/ LookupFails(w) \/ MarkRunningFails(w)
           \/ MarkRetryable(w) \/ MarkRetryableFails(w) \/ TimeoutOutsideTry(w) \/ Return(w)
    PROVE  Typed'
<1>. USE DEF Typed, TypeOK
<1>0. doc[w] \in Docs
  BY DEF HorseDies, WorkerDies, NoActiveJob, LookupFails, MarkRunningFails, MarkRetryable,
         MarkRetryableFails, TimeoutOutsideTry, Return, Holding
<1>1. HorsesOK' /\ Holding'
  BY IdleTyped DEF HorseDies, WorkerDies, NoActiveJob, LookupFails, MarkRunningFails,
         MarkRetryable, MarkRetryableFails, TimeoutOutsideTry, Return, Raise
<1>2. MishapsOK'
  BY StrikeTyped DEF HorseDies, WorkerDies, NoActiveJob, LookupFails, MarkRunningFails,
         MarkRetryable, MarkRetryableFails, TimeoutOutsideTry, Return, FaultKinds, mishaps
<1>3. CASE HorseDies(w) \/ NoActiveJob(w) \/ LookupFails(w) \/ MarkRetryableFails(w)
           \/ TimeoutOutsideTry(w)
  BY <1>0, <1>1, <1>2, <1>3, RqFailsTyped DEF HorseDies, NoActiveJob, LookupFails, MarkRetryableFails,
         TimeoutOutsideTry, Raise, StoresOK, dbVars, results
<1>4. CASE WorkerDies(w)
  BY <1>1, <1>2, <1>4 DEF WorkerDies, StoresOK, rqVars, dbVars, results
<1>5. CASE Return(w)
  BY <1>0, <1>1, <1>2, <1>5 DEF Return, Move, StoresOK, Places, dbVars, results
<1>6. CASE MarkRunningFails(w) \/ MarkRetryable(w)
  <2>1. row' \in [Docs -> {"none", "queued", "running", "succeeded", "retryable_failed"}]
        /\ predictions' \in [Docs -> Nat] /\ assets' \in [Docs -> Nat] /\ audits' \in [Docs -> Nat]
    BY <1>6, <1>0 DEF MarkRunningFails, MarkRetryable, Marked, ResultCommitted, StoresOK, results
  <2>. QED  BY <1>0, <1>1, <1>2, <1>6, <2>1, RqFailsTyped
            DEF MarkRunningFails, MarkRetryable, Raise, StoresOK
<1>. QED  BY <1>3, <1>4, <1>5, <1>6

\* The steps after which the horse goes on.
LEMMA TypedGoOn ==
    ASSUME Typed, NEW w \in Workers,
           \/ FindJob(w) \/ MarkRunning(w) \/ RunPipeline(w) \/ PipelineFails(w)
           \/ UploadOverlay(w) \/ OverlayFails(w) \/ Flushes(w) \/ CommitResult(w)
           \/ PersistFails(w) \/ TimeoutInsideTry(w)
    PROVE  Typed'
<1>. USE DEF Typed, TypeOK
<1>0. pc[w] # "idle" /\ doc[w] \in Docs
  BY FlushesOn DEF FindJob, MarkRunning, RunPipeline, PipelineFails, UploadOverlay, OverlayFails,
         CommitResult, PersistFails, TimeoutInsideTry, Holding, Persisting
<1>1. MishapsOK'
  BY StrikeTyped, FlushesOn
   DEF FindJob, MarkRunning, RunPipeline, PipelineFails, UploadOverlay, OverlayFails, Flush,
       CommitResult, PersistFails, TimeoutInsideTry, FaultKinds
<1>2. CASE FindJob(w) \/ RunPipeline(w) \/ PipelineFails(w)
  <2>1. StoresOK'
    BY <1>2 DEF FindJob, RunPipeline, PipelineFails, StoresOK, rqVars, dbVars, results
  <2>2. HorsesOK' /\ Holding'
    BY <1>0, <1>2, GotoTyped DEF FindJob, RunPipeline, PipelineFails, HorsesOK
  <2>. QED  BY <1>1, <2>1, <2>2
<1>3. CASE MarkRunning(w) \/ CommitResult(w) \/ PersistFails(w)
  <2>1. StoresOK'
    BY <1>0, <1>3 DEF MarkRunning, Marked, CommitResult, PersistFails, ResultCommitted, StoresOK,
           rqVars, dbVars, results
  <2>2. HorsesOK' /\ Holding'
    BY <1>0, <1>3, GotoTyped DEF MarkRunning, CommitResult, PersistFails, HorsesOK
  <2>. QED  BY <1>1, <2>1, <2>2
<1>4. CASE UploadOverlay(w) \/ OverlayFails(w)
  <2>1. StoresOK'
    BY <1>0, <1>4 DEF UploadOverlay, OverlayFails, StoresOK, rqVars, dbVars, results
  <2>2. HorsesOK' /\ Holding'
    BY <1>0, <1>4, GotoTyped DEF UploadOverlay, OverlayFails, HorsesOK, Persisting
  <2>. QED  BY <1>1, <2>1, <2>2
<1>5. CASE TimeoutInsideTry(w)
  <2>1. StoresOK'
    BY <1>5 DEF TimeoutInsideTry, StoresOK, rqVars, dbVars, results
  <2>2. HorsesOK' /\ Holding'
    BY <1>0, <1>5 DEF TimeoutInsideTry, HorsesOK, Holding
  <2>. QED  BY <1>1, <2>1, <2>2
<1>6. CASE Flushes(w)
  <2>1. PICK flushed \in Flushed, next \in Persisting : Flush(w, flushed, next)
    BY <1>6, FlushesOn
  <2>2. StoresOK'
    BY <2>1 DEF Flush, StoresOK, rqVars, dbVars, results
  <2>3. sess' \in [Workers -> {"clean", "broken"} \cup Flushed] /\ Goto(w, next)
    BY <2>1 DEF Flush, HorsesOK
  <2>4. HorsesOK' /\ Holding'
    BY <1>0, <2>3, GotoTyped
  <2>. QED  BY <1>1, <2>2, <2>4
<1>. QED  BY <1>2, <1>3, <1>4, <1>5, <1>6

\* Every step keeps the state typed.
LEMMA TypedStep == Typed /\ [Next]_vars => Typed'
<1>1. CASE Typed /\ Next
  BY <1>1, TypedProducer, TypedRq, TypedRaise, TypedGoOn DEF Next, Step, Flushes
<1>2. CASE Typed /\ UNCHANGED vars
  BY <1>2 DEF vars, rqVars, dbVars, results, horse, mishaps, Typed, TypeOK, StoresOK, HorsesOK,
              MishapsOK, Holding
<1>. QED  BY <1>1, <1>2

\* To begin with it is.
LEMMA TypedInit == Init => Typed
<1>. HAVE Init
<1>. USE ClassificationAssumption DEF Init
<1>1. StoresOK
  BY DEF StoresOK
<1>2. HorsesOK /\ Holding
  BY DEF HorsesOK, Holding
<1>3. MishapsOK
  <2>1. 0 \in 0 .. MaxFaults
    OBVIOUS
  <2>. QED  BY <2>1 DEF MishapsOK
<1>. QED  BY <1>1, <1>2, <1>3 DEF Typed, TypeOK

\* Every reachable state is typed, and a busy worker holds a document.
LEMMA TypedInvariant == Spec => []Typed
  BY TypedInit, TypedStep, PTL DEF Spec

\* Type correctness, whatever fails and whenever a horse or a worker dies.
THEOREM TypeCorrect == Spec => []TypeOK
  BY TypedInvariant, PTL DEF Typed

=============================================================================
