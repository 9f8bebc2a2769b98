------------------------ MODULE IngestionSafetyProofs ------------------------
(***************************************************************************)
(* What ingestion promises, proved.  Every step of a worker has one of     *)
(* nine effects on the database, the bucket and the queue (Effects); each  *)
(* invariant is then shown to survive each effect.                         *)
(***************************************************************************)
EXTENDS IngestionProofs

-----------------------------------------------------------------------------
(* What a step does to the stores.                                         *)

\* Between the flush of a document and the end of its transaction.
Working == {"upload", "enqueue", "commit"}

\* A worker's step leaves the other workers alone and forgets no fault.
Local(w) ==
    /\ \A v \in Workers \ {w} : /\ pc'[v] = pc[v] /\ cur'[v] = cur[v]
                                /\ txn'[v] = txn[v] /\ todo'[v] = todo[v]
    /\ struck \subseteq struck'

Quiet(w) ==
    /\ UNCHANGED <<row, saved, jobs, blobs, rq, txn>>
    /\ IF pc[w] \in Working THEN UNCHANGED <<pc, cur>> ELSE pc'[w] \notin Working

RollsBack(w) ==
    /\ UNCHANGED <<saved, jobs, blobs, rq>>
    /\ row' = Without(txn[w]) /\ txn' = [txn EXCEPT ![w] = {}]
    /\ pc[w] = "commit" => struck' \cap {"crash", "db"} # {}
    /\ pc'[w] \in {"down", "start", "loop"}

CommitsRows(w) ==
    /\ pc[w] = "reject" /\ pc'[w] \in {"start", "loop"}
    /\ Committed(w) /\ txn' = [txn EXCEPT ![w] = {}]
    /\ UNCHANGED <<row, jobs, blobs, rq>>

CommitsJob(w) ==
    /\ pc[w] = "commit" /\ pc'[w] = "loop"
    /\ SetStatus(cur[w].doc, "queued")
    /\ jobs' = jobs \cup {cur[w].doc}
    /\ Committed(w) /\ txn' = [txn EXCEPT ![w] = {}]
    /\ UNCHANGED <<blobs, rq>>

\* A step of a worker has one of these effects.
LEMMA Effects ==
    ASSUME Typed, NEW w \in Workers, Progress(w) \/ Mishap(w)
    PROVE  \/ Quiet(w) \/ RollsBack(w) \/ CommitsRows(w) \/ CommitsJob(w)
           \/ Create(w) \/ Upload(w) \/ UploadFails(w) \/ Enqueue(w) \/ EnqueueFails(w)
<1>. USE DEF Typed, TypeOK, WorkersOK
<1>0. ASSUME LinkDrops(w) \/ ListFails(w)
      PROVE  Quiet(w)
  BY <1>0 DEF Quiet, Working, LinkDrops, ListFails, vars, dbVars, worker
<1>1. ASSUME Start(w) \/ Connect(w) \/ Poll(w) \/ SkipDuplicate(w) \/ LookupFindsNone(w)
      PROVE  Quiet(w)
  BY <1>1 DEF Quiet, Working, Start, Connect, Poll, SkipDuplicate,
              LookupFindsNone, NextFile, dbVars
<1>2. ASSUME NEW f \in Files, Read(w, f) \/ ReadFails(w, f)
      PROVE  Quiet(w)
  BY <1>2 DEF Quiet, Working, Read, ReadFails, Verdict, dbVars
<1>3. ASSUME Crash(w) \/ CreateFails(w)
      PROVE  RollsBack(w)
  BY <1>3 DEF RollsBack, Crash, CreateFails, SessionBreaks, NextFile, Strike
<1>4. ASSUME LookupFails(w)
      PROVE  RollsBack(w) \/ Quiet(w)
  BY <1>4 DEF RollsBack, Quiet, Working, LookupFails, SessionBreaks, NextFile
<1>5. ASSUME CommitIngest(w) \/ CommitFails(w)
      PROVE  RollsBack(w) \/ CommitsJob(w)
  BY <1>5 DEF RollsBack, CommitsJob, CommitIngest, CommitFails, SessionBreaks, NextFile, Strike
<1>6. ASSUME MarkFailed(w) \/ MarkFailedRaises(w)
      PROVE  RollsBack(w) \/ CommitsRows(w)
  BY <1>6 DEF RollsBack, CommitsRows, MarkFailed, MarkFailedRaises, NextFile
<1>. QED  BY <1>0, <1>1, <1>2, <1>3, <1>4, <1>5, <1>6 DEF Progress, Mishap

\* A worker's step changes no other worker's locals, and no fault is forgotten.
LEMMA Locality ==
    ASSUME Typed, NEW w \in Workers, Progress(w) \/ Mishap(w)
    PROVE  Local(w)
<1>. USE DEF Typed, TypeOK, WorkersOK, Local, NextFile, SessionBreaks, Strike
<1>1. ASSUME NEW f \in Files, Read(w, f) \/ ReadFails(w, f)
      PROVE  Local(w)
  BY <1>1 DEF Read, ReadFails, mishaps
<1>2. ASSUME Start(w) \/ Connect(w) \/ Poll(w) \/ LinkDrops(w) \/ Crash(w) \/ ListFails(w)
      PROVE  Local(w)
  BY <1>2 DEF Start, Connect, Poll, LinkDrops, ListFails, Crash, vars, worker, mishaps
<1>3. ASSUME SkipDuplicate(w) \/ LookupFindsNone(w) \/ LookupFails(w)
      PROVE  Local(w)
  BY <1>3 DEF SkipDuplicate, LookupFindsNone, LookupFails, mishaps
<1>4. ASSUME Create(w) \/ CreateFails(w) \/ Upload(w) \/ UploadFails(w)
      PROVE  Local(w)
  BY <1>4 DEF Create, CreateFails, Upload, UploadFails, mishaps
<1>5. ASSUME Enqueue(w) \/ EnqueueFails(w) \/ CommitIngest(w) \/ CommitFails(w)
      PROVE  Local(w)
  BY <1>5 DEF Enqueue, EnqueueFails, CommitIngest, CommitFails, mishaps
<1>6. ASSUME MarkFailed(w) \/ MarkFailedRaises(w)
      PROVE  Local(w)
  BY <1>6 DEF MarkFailed, MarkFailedRaises, mishaps
<1>. QED  BY <1>1, <1>2, <1>3, <1>4, <1>5, <1>6 DEF Progress, Mishap

-----------------------------------------------------------------------------
(* A message without a job has a sender that is about to commit.           *)

\* The invariant of the same name survives every step.
LEMMA NoOrphanStep ==
    ASSUME Typed, NoOrphanMessage, Next
    PROVE  NoOrphanMessage'
<1>1. CASE Vendor
  BY <1>1 DEF Vendor, VendorWrite, VendorRemove, NoOrphanMessage, dbVars, worker, mishaps
<1>2. ASSUME NEW w \in Workers, Progress(w) \/ Mishap(w)
      PROVE  NoOrphanMessage'
  <2>. SUFFICES ASSUME struck' \cap {"crash", "db", "queue"} = {},
                       NEW d \in rq' \ jobs'
                PROVE  \E v \in Workers : pc'[v] = "commit" /\ cur'[v].doc = d
    BY DEF NoOrphanMessage
  <2>1. Local(w) /\ struck \cap {"crash", "db", "queue"} = {}
    BY <1>2, Locality DEF Local
  <2>2. ASSUME d \in rq \ jobs, pc[w] = "commit" => UNCHANGED <<pc, cur>> \/ cur[w].doc # d
        PROVE  \E v \in Workers : pc'[v] = "commit" /\ cur'[v].doc = d
    <3>1. PICK v \in Workers : pc[v] = "commit" /\ cur[v].doc = d
      BY <2>1, <2>2 DEF NoOrphanMessage
    <3>. QED  BY <2>1, <2>2, <3>1 DEF Local
  <2>3. CASE Enqueue(w)
    <3>1. CASE d = cur[w].doc
      BY <2>3, <3>1 DEF Enqueue, Typed, TypeOK, WorkersOK
    <3>2. CASE d # cur[w].doc
      BY <2>2, <2>3, <3>2 DEF Enqueue, dbVars
    <3>. QED  BY <3>1, <3>2
  <2>4. CASE Quiet(w)
    BY <2>2, <2>4 DEF Quiet, Working
  <2>5. CASE RollsBack(w) \/ CommitsRows(w)
    BY <2>2, <2>5 DEF RollsBack, CommitsRows
  <2>6. CASE CommitsJob(w)
    BY <2>2, <2>6 DEF CommitsJob
  <2>7. CASE Create(w) \/ Upload(w) \/ UploadFails(w) \/ EnqueueFails(w)
    BY <2>2, <2>7 DEF Create, Upload, UploadFails, EnqueueFails, Strike, dbVars
  <2>. QED  BY <1>2, <2>3, <2>4, <2>5, <2>6, <2>7, Effects
<1>. QED  BY <1>1, <1>2 DEF Next

\* Short of a crash, a database failure or a lost Redis reply, a message without
\* a job row is one whose sender is about to commit it.
THEOREM MessagesHaveJobs == Spec => []NoOrphanMessage
<1>1. Init => NoOrphanMessage
  BY DEF Init, NoOrphanMessage
<1>2. Typed /\ NoOrphanMessage /\ [Next]_vars => NoOrphanMessage'
  BY NoOrphanStep DEF vars, dbVars, worker, mishaps, NoOrphanMessage
<1>. QED  BY <1>1, <1>2, TypedInvariant, PTL DEF Spec

-----------------------------------------------------------------------------
(* A job is backed by its document, blob and message.                      *)

\* The part of JobsAreBacked that is still in an open transaction.
InFlight ==
    \A w \in Workers :
        /\ \A d \in txn[w] : /\ row[d].status # "queued"
                             /\ row[d].status # "pending" => d \in blobs
        /\ pc[w] = "enqueue" => cur[w].doc \in blobs
        /\ pc[w] = "commit" => cur[w].doc \in rq

Backed == JobsAreBacked /\ InFlight

\* Commits turn what is in flight into what is backed.
LEMMA BackedCommit ==
    ASSUME Typed, Backed, NEW w \in Workers, Local(w), CommitsRows(w) \/ CommitsJob(w)
    PROVE  Backed'
<1>. USE DEF Typed, TypeOK, StoresOK, WorkersOK, Backed, Local
<1>1. CASE CommitsRows(w)
  <2>. USE <1>1 DEF CommitsRows, Committed
  <2>1. JobsAreBacked'
    BY DEF JobsAreBacked, InFlight, Owned
  <2>2. InFlight'
    BY DEF InFlight
  <2>. QED  BY <2>1, <2>2
<1>2. CASE CommitsJob(w)
  <2>. USE <1>2 DEF CommitsJob
  <2>1. cur[w].doc \in txn[w] /\ cur[w].doc \in rq /\ cur[w].doc \in blobs
    BY DEF InHand, InFlight, JobsAreBacked
  <2>2. row'[cur[w].doc] # None /\ row'[cur[w].doc].status = "queued"
    BY <2>1, StatusOwned DEF Owned, SetStatus
  <2>3. \A d \in DocIds \ {cur[w].doc} : row'[d] = row[d]
    BY DEF SetStatus
  <2>4. JobsAreBacked'
    BY <2>1, <2>2, <2>3 DEF JobsAreBacked, InFlight, Owned, Committed
  <2>5. InFlight'
    <3>1. \A v \in Workers \ {w} : \A d \in txn'[v] : d \in txn[v] /\ row'[d] = row[d]
      BY <2>1, <2>3 DEF Owned
    <3>2. txn'[w] = {} /\ pc'[w] = "loop"
      OBVIOUS
    <3>. QED  BY <3>1, <3>2 DEF InFlight
  <2>. QED  BY <2>4, <2>5
<1>. QED  BY <1>1, <1>2

\* Every step keeps jobs backed.
LEMMA BackedStep == ASSUME Typed, Backed, Next PROVE Backed'
<1>. USE DEF Typed, TypeOK, StoresOK, WorkersOK, Backed
<1>1. CASE Vendor
  BY <1>1 DEF Vendor, VendorWrite, VendorRemove, JobsAreBacked, InFlight, dbVars, worker
<1>2. ASSUME NEW w \in Workers, Progress(w) \/ Mishap(w)
      PROVE  Backed'
  <2>. USE DEF Local
  <2>1. Local(w)
    BY <1>2, Locality
  <2>2. CASE Quiet(w)
    BY <2>1, <2>2 DEF Quiet, Working, JobsAreBacked, InFlight
  <2>3. CASE RollsBack(w)
    <3>1. \A d \in DocIds \ txn[w] : row'[d] = row[d]
      BY <2>3 DEF RollsBack, Without
    <3>2. JobsAreBacked'
      BY <2>3, <3>1 DEF RollsBack, JobsAreBacked, Owned
    <3>3. InFlight'
      BY <2>1, <2>3, <3>1 DEF RollsBack, InFlight, Owned
    <3>. QED  BY <3>2, <3>3
  <2>4. CASE CommitsRows(w) \/ CommitsJob(w)
    BY <2>1, <2>4, BackedCommit
  <2>5. CASE Create(w)
    <3>1. /\ NewId \notin saved /\ \A v \in Workers : NewId \notin txn[v]
          /\ row'[NewId].status = "pending"
          /\ \A d \in DocIds \ {NewId} : row'[d] = row[d]
      BY <2>5, NewIdIsUnused DEF Create, Owned
    <3>2. JobsAreBacked'
      BY <2>5, <3>1 DEF Create, JobsAreBacked
    <3>3. InFlight'
      BY <2>1, <2>5, <3>1 DEF Create, InFlight
    <3>. QED  BY <3>2, <3>3
  <2>6. CASE Upload(w)
    <3>1. /\ cur[w].doc \in txn[w] /\ cur[w].doc \notin saved
          /\ row'[cur[w].doc].status = "stored" /\ cur'[w].doc \in blobs'
          /\ \A d \in DocIds \ {cur[w].doc} : row'[d] = row[d]
      BY <2>6 DEF Upload, SetStatus, InHand, Owned
    <3>2. JobsAreBacked'
      BY <2>6, <3>1 DEF Upload, JobsAreBacked
    <3>3. InFlight'
      BY <2>1, <2>6, <3>1 DEF Upload, InFlight
    <3>. QED  BY <3>2, <3>3
  <2>7. CASE UploadFails(w)
    BY <2>1, <2>7 DEF UploadFails, NextFile, JobsAreBacked, InFlight, dbVars
  <2>8. CASE Enqueue(w) \/ EnqueueFails(w)
    <3>1. cur[w].doc \in blobs
      BY <2>8 DEF Enqueue, EnqueueFails, InFlight
    <3>2. JobsAreBacked'
      BY <2>8, <3>1 DEF Enqueue, EnqueueFails, JobsAreBacked, dbVars
    <3>3. InFlight'
      BY <2>1, <2>8, <3>1 DEF Enqueue, EnqueueFails, NextFile, InFlight, dbVars
    <3>. QED  BY <3>2, <3>3
  <2>. QED  BY <1>2, <2>2, <2>3, <2>4, <2>5, <2>6, <2>7, <2>8, Effects
<1>. QED  BY <1>1, <1>2 DEF Next

\* In every reachable state jobs are backed, and so is what is in flight.
LEMMA BackedInvariant == Spec => []Backed
<1>1. Init => Backed
  BY DEF Init, Backed, JobsAreBacked, InFlight
<1>2. Typed /\ Backed /\ [Next]_vars => Backed'
  BY BackedStep DEF vars, dbVars, worker, Backed, JobsAreBacked, InFlight
<1>. QED  BY <1>1, <1>2, TypedInvariant, PTL DEF Spec

\* A job stands for a committed document whose original was uploaded and whose
\* message was pushed, whatever failed before.
THEOREM JobsBacked == Spec => []JobsAreBacked
  BY BackedInvariant, PTL DEF Backed

-----------------------------------------------------------------------------
(* A document is pushed once.                                              *)

\* The document that a worker is about to push has not been pushed.
Unpushed == \A w \in Workers : pc[w] \in {"upload", "enqueue"} => cur[w].doc \notin rq

\* Every step keeps it so: a worker's document is in its own transaction only.
LEMMA UnpushedStep == ASSUME Typed, Unpushed, Next PROVE Unpushed'
<1>. USE DEF Typed, TypeOK, StoresOK, WorkersOK
<1>1. CASE Vendor
  BY <1>1 DEF Vendor, VendorWrite, VendorRemove, Unpushed, dbVars, worker
<1>2. ASSUME NEW w \in Workers, Progress(w) \/ Mishap(w)
      PROVE  Unpushed'
  <2>1. Local(w)
    BY <1>2, Locality
  <2>2. CASE Quiet(w)
    BY <2>1, <2>2 DEF Local, Quiet, Working, Unpushed
  <2>3. CASE RollsBack(w) \/ CommitsRows(w) \/ CommitsJob(w)
    BY <2>1, <2>3 DEF Local, RollsBack, CommitsRows, CommitsJob, Unpushed
  <2>4. CASE Create(w)
    BY <2>1, <2>4, NewIdIsUnused DEF Local, Create, Unpushed
  <2>5. CASE Upload(w) \/ UploadFails(w)
    BY <2>1, <2>5 DEF Local, Upload, UploadFails, NextFile, Unpushed
  <2>6. CASE Enqueue(w) \/ EnqueueFails(w)
    <3>1. \A v \in Workers \ {w} : pc[v] \in {"upload", "enqueue"} => cur[v].doc # cur[w].doc
      BY <2>6 DEF Enqueue, EnqueueFails, InHand, Owned
    <3>. QED  BY <2>1, <2>6, <3>1 DEF Local, Enqueue, EnqueueFails, NextFile, Unpushed
  <2>. QED  BY <1>2, <2>2, <2>3, <2>4, <2>5, <2>6, Effects
<1>. QED  BY <1>1, <1>2 DEF Next

\* In every reachable state.
LEMMA UnpushedInvariant == Spec => []Unpushed
<1>1. Init => Unpushed
  BY DEF Init, Unpushed
<1>2. Typed /\ Unpushed /\ [Next]_vars => Unpushed'
  BY UnpushedStep DEF vars, worker, Unpushed
<1>. QED  BY <1>1, <1>2, TypedInvariant, PTL DEF Spec

-----------------------------------------------------------------------------
(* Crashes and database failures strand no document.                       *)

\* Short of a failed upload or enqueue, the only row in an open transaction is
\* the one its worker holds in its hands.
OneRowInHand ==
    struck \cap {"storage", "queue"} = {} =>
        /\ saved \subseteq jobs
        /\ \A w \in Workers : \A d \in txn[w] : pc[w] \in Working /\ d = cur[w].doc

\* Every step keeps it so.
LEMMA OneRowStep == ASSUME Typed, OneRowInHand, Next PROVE OneRowInHand'
<1>1. CASE Vendor
  BY <1>1 DEF Vendor, VendorWrite, VendorRemove, OneRowInHand, dbVars, worker, mishaps
<1>2. ASSUME NEW w \in Workers, Progress(w) \/ Mishap(w)
      PROVE  OneRowInHand'
  <2>. SUFFICES ASSUME struck' \cap {"storage", "queue"} = {}
                PROVE  /\ saved' \subseteq jobs'
                       /\ \A v \in Workers : \A d \in txn'[v] :
                             pc'[v] \in Working /\ d = cur'[v].doc
    BY DEF OneRowInHand
  <2>. USE DEF Typed, TypeOK, WorkersOK, Local, Working
  <2>1. /\ Local(w) /\ saved \subseteq jobs
        /\ \A v \in Workers : \A d \in txn[v] : pc[v] \in Working /\ d = cur[v].doc
    BY <1>2, Locality DEF OneRowInHand
  <2>2. CASE Quiet(w)
    BY <2>1, <2>2 DEF Quiet
  <2>3. CASE RollsBack(w) \/ CommitsRows(w) \/ CommitsJob(w)
    BY <2>1, <2>3 DEF RollsBack, CommitsRows, CommitsJob, Committed
  <2>4. CASE Create(w)
    BY <2>1, <2>4 DEF Create
  <2>5. CASE Upload(w) \/ Enqueue(w)
    BY <2>1, <2>5 DEF Upload, Enqueue, dbVars
  <2>6. ~UploadFails(w) /\ ~EnqueueFails(w)
    BY DEF UploadFails, EnqueueFails, Strike
  <2>. QED  BY <1>2, <2>2, <2>3, <2>4, <2>5, <2>6, Effects
<1>. QED  BY <1>1, <1>2 DEF Next

\* Short of a failed upload or enqueue, every committed document has a job.
THEOREM NoneStrandedWithoutFault == Spec => []NoStrandedWithoutFault
<1>1. Init => OneRowInHand
  BY DEF Init, OneRowInHand
<1>2. Typed /\ OneRowInHand /\ [Next]_vars => OneRowInHand'
  BY OneRowStep DEF vars, dbVars, worker, mishaps, OneRowInHand
<1>3. OneRowInHand /\ JobsAreBacked => NoStrandedWithoutFault
  BY DEF OneRowInHand, JobsAreBacked, NoStrandedWithoutFault
<1>. QED  BY <1>1, <1>2, <1>3, TypedInvariant, JobsBacked, PTL DEF Spec

-----------------------------------------------------------------------------
(* Only complete scans, as long as the vendor keeps to its side.           *)

\* Everything on its way from the directory to a committed row is complete.
Whole ==
    /\ \A f \in Files : Present(f) => drop[f].stamp > 0
    /\ ~lapsed =>
        /\ \A d \in saved : row[d].bytes \in Complete
        /\ \A w \in Workers :
             /\ \A d \in txn[w] : row[d].bytes \in Complete
             /\ pc[w] \notin {"down", "start", "loop"} => cur[w].bytes \in Complete
             /\ \A f \in todo[w] : /\ drop[f].stamp > 0
                                   /\ Present(f) => drop[f].bytes \in Complete

\* A write that breaks a complete file is a rewrite.
LEMMA WholeVendor == ASSUME Typed, Whole, Vendor PROVE Whole'
<1>. USE DEF Typed, TypeOK, StoresOK, WorkersOK, Present
<1>1. ASSUME NEW f \in Files, VendorRemove(f)
      PROVE  Whole'
  BY <1>1 DEF VendorRemove, Whole, dbVars, worker
<1>2. ASSUME NEW f \in Files, NEW b \in Bytes, VendorWrite(f, b)
      PROVE  Whole'
  <2>. USE <1>2 DEF VendorWrite, dbVars, worker
  <2>1. (\A g \in Files : Present(g) => drop[g].stamp > 0)'
    BY DEF Whole
  <2>2. CASE Rewrites(f)
    BY <2>1, <2>2 DEF Lapse, Whole
  <2>3. CASE ~Rewrites(f)
    BY <2>1, <2>3 DEF Rewrites, Whole
  <2>. QED  BY <2>2, <2>3
<1>. QED  BY <1>1, <1>2 DEF Vendor

\* Contents come to a worker by Poll and Read alone.
LEMMA ContentsKept ==
    ASSUME Typed, NEW w \in Workers, Progress(w) \/ Mishap(w),
           ~Poll(w), \A f \in Files : ~Read(w, f)
    PROVE  /\ UNCHANGED <<drop, lapsed>> /\ todo'[w] \subseteq todo[w]
           /\ \/ pc'[w] \in {"down", "start", "loop"}
              \/ pc[w] \notin {"down", "start", "loop"} /\ cur'[w].bytes = cur[w].bytes
<1>. USE DEF Typed, TypeOK, WorkersOK
<1>1. CASE Start(w) \/ Connect(w) \/ Crash(w)
  BY <1>1 DEF Start, Connect, Crash
<1>2. CASE LinkDrops(w) \/ ListFails(w) \/ \E f \in Files : ReadFails(w, f)
  BY <1>2 DEF LinkDrops, ListFails, ReadFails, worker, vars
<1>3. CASE SkipDuplicate(w) \/ LookupFindsNone(w) \/ LookupFails(w)
  BY <1>3 DEF SkipDuplicate, LookupFindsNone, LookupFails, NextFile
<1>4. CASE Create(w) \/ CreateFails(w)
  BY <1>4 DEF Create, CreateFails, NextFile
<1>5. CASE Upload(w) \/ UploadFails(w) \/ Enqueue(w) \/ EnqueueFails(w)
  BY <1>5 DEF Upload, UploadFails, Enqueue, EnqueueFails, NextFile
<1>6. CASE CommitIngest(w) \/ CommitFails(w) \/ MarkFailed(w) \/ MarkFailedRaises(w)
  BY <1>6 DEF CommitIngest, CommitFails, MarkFailed, MarkFailedRaises, NextFile
<1>. QED  BY <1>1, <1>2, <1>3, <1>4, <1>5, <1>6 DEF Progress, Mishap

\* A row is created with the contents in hand, and keeps them.
LEMMA RowsKept ==
    ASSUME Typed, Whole, ~lapsed, NEW w \in Workers, Progress(w) \/ Mishap(w)
    PROVE  /\ \A d \in saved' : row'[d].bytes \in Complete
           /\ \A v \in Workers : \A d \in txn'[v] : row'[d].bytes \in Complete
<1>. USE DEF Typed, TypeOK, StoresOK, WorkersOK, Local
<1>1. Local(w)
  BY Locality
<1>2. /\ \A d \in saved : row[d].bytes \in Complete
      /\ \A v \in Workers : \A d \in txn[v] : row[d].bytes \in Complete
  BY DEF Whole
<1>3. CASE Quiet(w) \/ UploadFails(w) \/ Enqueue(w) \/ EnqueueFails(w)
  BY <1>2, <1>3 DEF Quiet, UploadFails, Enqueue, EnqueueFails, dbVars
<1>4. CASE RollsBack(w)
  BY <1>1, <1>2, <1>4 DEF RollsBack, Without, Owned
<1>5. CASE CommitsRows(w)
  BY <1>1, <1>2, <1>5 DEF CommitsRows, Committed
<1>6. CASE CommitsJob(w)
  BY <1>1, <1>2, <1>6 DEF CommitsJob, Committed, SetStatus
<1>7. CASE Upload(w)
  BY <1>1, <1>2, <1>7 DEF Upload, SetStatus
<1>8. CASE Create(w)
  <2>1. cur[w].bytes \in Complete
    BY <1>8 DEF Create, Whole
  <2>. QED  BY <1>1, <1>2, <1>8, <2>1, NewIdIsUnused DEF Create
<1>. QED  BY <1>3, <1>4, <1>5, <1>6, <1>7, <1>8, Effects

\* Every step keeps it so.
LEMMA WholeStep == ASSUME Typed, Whole, NEW w \in Workers, Progress(w) \/ Mishap(w)
                   PROVE  Whole'
<1>. USE DEF Typed, TypeOK, StoresOK, WorkersOK, Local
<1>1. Local(w)
  BY Locality
<1>2. CASE Poll(w)
  <2>. USE <1>2 DEF Poll, dbVars, mishaps
  <2>1. CASE Stalled(w)
    BY <2>1 DEF Lapse, Whole, Present
  <2>2. CASE ~Stalled(w)
    BY <2>2 DEF Stalled, Stable, Whole, Present
  <2>. QED  BY <2>1, <2>2
<1>3. ASSUME NEW f \in Files, Read(w, f)
      PROVE  Whole'
  BY <1>3 DEF Read, dbVars, Whole, Present
<1>4. CASE ~Poll(w) /\ \A f \in Files : ~Read(w, f)
  <2>1. /\ UNCHANGED <<drop, lapsed>> /\ todo'[w] \subseteq todo[w]
        /\ \/ pc'[w] \in {"down", "start", "loop"}
           \/ pc[w] \notin {"down", "start", "loop"} /\ cur'[w].bytes = cur[w].bytes
    BY <1>4, ContentsKept
  <2>2. ~lapsed => /\ \A d \in saved' : row'[d].bytes \in Complete
                   /\ \A v \in Workers : \A d \in txn'[v] : row'[d].bytes \in Complete
    BY RowsKept
  <2>. QED  BY <1>1, <2>1, <2>2 DEF Whole, Present
<1>. QED  BY <1>2, <1>3, <1>4

\* Stable-file detection lets only complete scans through, as long as the vendor
\* neither pauses inside an upload nor uploads again under a name it has used.
THEOREM ScansAreComplete == Spec => []OnlyCompleteScans
<1>1. Init => Whole
  BY IngestionAssumption DEF Init, Whole, Present
<1>2. Typed /\ Whole /\ [Next]_vars => Whole'
  BY WholeVendor, WholeStep
     DEF Next, vars, dbVars, worker, Whole, Present
<1>3. Whole => OnlyCompleteScans
  BY DEF Whole, OnlyCompleteScans
<1>. QED  BY <1>1, <1>2, <1>3, TypedInvariant, PTL DEF Spec

-----------------------------------------------------------------------------
(* Only TIFFs become documents.                                            *)

\* Past the verdict there are only TIFFs.
Validated ==
    /\ \A w \in Workers : pc[w] \in {"lookup", "create"} \cup Working => cur[w].bytes \in Tiffs
    /\ \A d \in DocIds : row[d] # None => row[d].bytes \in Tiffs

\* A worker comes past the verdict by a TIFF, and has it until it takes the next file.
LEMMA OnlyTiffsPass ==
    ASSUME Typed, Validated, NEW w \in Workers, Progress(w) \/ Mishap(w),
           pc'[w] \in {"lookup", "create"} \cup Working
    PROVE  cur'[w].bytes \in Tiffs
<1>. USE DEF Typed, TypeOK, WorkersOK, Working
<1>1. CASE Start(w) \/ Connect(w) \/ Crash(w) \/ Poll(w)
  BY <1>1 DEF Start, Connect, Crash, Poll, Validated
<1>2. CASE LinkDrops(w) \/ ListFails(w) \/ \E f \in Files : ReadFails(w, f)
  BY <1>2 DEF LinkDrops, ListFails, ReadFails, Validated, worker, vars
<1>3. ASSUME NEW f \in Files, Read(w, f)
      PROVE  cur'[w].bytes \in Tiffs
  BY <1>3 DEF Read, Verdict
<1>4. CASE SkipDuplicate(w) \/ LookupFindsNone(w) \/ LookupFails(w)
  BY <1>4 DEF SkipDuplicate, LookupFindsNone, LookupFails, NextFile, Validated
<1>5. CASE Create(w) \/ CreateFails(w)
  BY <1>5 DEF Create, CreateFails, NextFile, Validated
<1>6. CASE Upload(w) \/ UploadFails(w) \/ Enqueue(w) \/ EnqueueFails(w)
  BY <1>6 DEF Upload, UploadFails, Enqueue, EnqueueFails, NextFile, Validated
<1>7. CASE CommitIngest(w) \/ CommitFails(w) \/ MarkFailed(w) \/ MarkFailedRaises(w)
  BY <1>7 DEF CommitIngest, CommitFails, MarkFailed, MarkFailedRaises, NextFile
<1>. QED  BY <1>1, <1>2, <1>3, <1>4, <1>5, <1>6, <1>7 DEF Progress, Mishap

\* A row is created for a TIFF, and keeps its contents.
LEMMA OnlyTiffsFiled ==
    ASSUME Typed, Validated, NEW w \in Workers, Progress(w) \/ Mishap(w),
           NEW d \in DocIds, row'[d] # None
    PROVE  row'[d].bytes \in Tiffs
<1>. USE DEF Typed, TypeOK, StoresOK, WorkersOK
<1>1. CASE Quiet(w) \/ UploadFails(w) \/ Enqueue(w) \/ EnqueueFails(w) \/ CommitsRows(w)
  BY <1>1 DEF Quiet, UploadFails, Enqueue, EnqueueFails, CommitsRows, dbVars, Validated
<1>2. CASE RollsBack(w)
  BY <1>2 DEF RollsBack, Without, Validated
<1>3. CASE CommitsJob(w) \/ Upload(w)
  <2>1. cur[w].bytes \in Tiffs /\ cur[w].doc \in txn[w]
    BY <1>3 DEF CommitsJob, Upload, Working, Validated, InHand
  <2>2. cur[w].doc \in DocIds /\ row[cur[w].doc] # None
    BY <2>1 DEF Owned
  <2>3. \E status : SetStatus(cur[w].doc, status)
    BY <1>3 DEF CommitsJob, Upload
  <2>4. row[d] # None /\ row'[d].bytes = row[d].bytes
    <3>1. CASE d = cur[w].doc
      BY <2>2, <2>3, <3>1 DEF SetStatus
    <3>2. CASE d # cur[w].doc
      BY <2>2, <2>3, <3>2 DEF SetStatus
    <3>. QED  BY <3>1, <3>2
  <2>. QED  BY <2>4 DEF Validated
<1>4. CASE Create(w)
  BY <1>4 DEF Create, Working, Validated
<1>. QED  BY <1>1, <1>2, <1>3, <1>4, Effects

\* Every document is made from a TIFF (ingestion.py:78).
LEMMA ValidatedInvariant == Spec => []Validated
<1>1. Init => Validated
  BY DEF Init, Validated, Working
<1>2. Typed /\ Validated /\ [Next]_vars => Validated'
  <2>. SUFFICES ASSUME Typed, Validated, [Next]_vars PROVE Validated'
    OBVIOUS
  <2>1. CASE UNCHANGED vars \/ Vendor
    BY <2>1 DEF vars, dbVars, worker, Vendor, VendorWrite, VendorRemove, Validated
  <2>2. ASSUME NEW w \in Workers, Progress(w) \/ Mishap(w)
        PROVE  Validated'
    <3>1. Local(w)
      BY <2>2, Locality
    <3>. QED  BY <2>2, <3>1, OnlyTiffsPass, OnlyTiffsFiled DEF Local, Validated
  <2>. QED  BY <2>1, <2>2 DEF Next
<1>. QED  BY <1>1, <1>2, TypedInvariant, PTL DEF Spec

-----------------------------------------------------------------------------
(* One worker ingests nothing twice.                                       *)

\* The documents that are committed or about to be.
Filed == saved \cup UNION {txn[w] : w \in Workers}

Alike(d, e) == row[d].path = row[e].path /\ row[d].bytes = row[e].bytes

\* No two of them are alike, and none is like the file about to become one.
OneOfEach ==
    /\ \A d, e \in Filed : Alike(d, e) => d = e
    /\ \A w \in Workers : pc[w] = "create" => ~Duplicate(w)

OneWorker == \A v, w \in Workers : v = w

\* With one worker, what the duplicate check sees is all there is.
LEMMA FiledIsVisible ==
    ASSUME OneWorker, NEW w \in Workers
    PROVE  Filed = Visible(w) /\ Filed' = Visible(w)'
  BY DEF OneWorker, Filed, Visible

\* A worker comes to create a document only past a duplicate check.
LEMMA CheckedBeforeCreate ==
    ASSUME Typed, OneOfEach, NEW w \in Workers, Progress(w) \/ Mishap(w), pc'[w] = "create"
    PROVE  ~Duplicate(w)'
<1>. USE DEF Typed, TypeOK, WorkersOK
<1>1. LookupFindsNone(w) \/ LinkDrops(w) \/ ListFails(w)
  <2>1. \A f \in Files : ~Read(w, f) /\ ~ReadFails(w, f)
    BY DEF Read, ReadFails, Verdict
  <2>2. ~Start(w) /\ ~Connect(w) /\ ~Crash(w) /\ ~Poll(w) /\ ~SkipDuplicate(w) /\ ~LookupFails(w)
    BY DEF Start, Connect, Crash, Poll, SkipDuplicate, LookupFails, NextFile
  <2>3. ~Create(w) /\ ~CreateFails(w) /\ ~Upload(w) /\ ~UploadFails(w)
    BY DEF Create, CreateFails, Upload, UploadFails, NextFile
  <2>4. ~Enqueue(w) /\ ~EnqueueFails(w) /\ ~CommitIngest(w) /\ ~CommitFails(w)
    BY DEF Enqueue, EnqueueFails, CommitIngest, CommitFails, NextFile
  <2>5. ~MarkFailed(w) /\ ~MarkFailedRaises(w)
    BY DEF MarkFailed, MarkFailedRaises, NextFile
  <2>. QED  BY <2>1, <2>2, <2>3, <2>4, <2>5 DEF Progress, Mishap
<1>2. CASE LookupFindsNone(w)
  BY <1>2 DEF LookupFindsNone, Duplicate, Visible, SameSource, dbVars
<1>3. CASE LinkDrops(w) \/ ListFails(w)
  BY <1>3 DEF LinkDrops, ListFails, OneOfEach, Duplicate, Visible, SameSource, vars, dbVars,
              worker
<1>. QED  BY <1>1, <1>2, <1>3

\* No step of the one worker files a document a second time.
LEMMA FiledStep ==
    ASSUME Typed, OneOfEach, OneWorker, NEW w \in Workers, Progress(w) \/ Mishap(w),
           NEW d \in Filed', NEW e \in Filed', Alike(d, e)'
    PROVE  d = e
<1>. USE DEF Typed, TypeOK, StoresOK, WorkersOK
<1>1. /\ Filed = saved \cup txn[w] /\ Filed' = saved' \cup txn'[w]
      /\ Filed \subseteq DocIds
  BY FiledIsVisible DEF Visible
<1>2. ASSUME Filed' \subseteq Filed,
             \A i \in Filed' : row'[i].path = row[i].path /\ row'[i].bytes = row[i].bytes
      PROVE  d = e
  BY <1>2 DEF OneOfEach, Alike
<1>3. CASE Quiet(w) \/ UploadFails(w) \/ Enqueue(w) \/ EnqueueFails(w)
  BY <1>1, <1>2, <1>3 DEF Quiet, UploadFails, Enqueue, EnqueueFails, dbVars
<1>4. CASE RollsBack(w)
  BY <1>1, <1>2, <1>4 DEF RollsBack, Without, Owned
<1>5. CASE CommitsRows(w)
  BY <1>1, <1>2, <1>5 DEF CommitsRows, Committed
<1>6. CASE CommitsJob(w)
  BY <1>1, <1>2, <1>6 DEF CommitsJob, Committed, SetStatus
<1>7. CASE Upload(w)
  BY <1>1, <1>2, <1>7 DEF Upload, SetStatus
<1>8. CASE Create(w)
  <2>1. /\ Filed' = Filed \cup {NewId} /\ NewId \notin Filed
        /\ row'[NewId].path = cur[w].file /\ row'[NewId].bytes = cur[w].bytes
        /\ \A i \in Filed : row'[i] = row[i]
    BY <1>1, <1>8, NewIdIsUnused DEF Create, Owned
  <2>2. \A i \in Filed : ~(row[i].path = cur[w].file /\ row[i].bytes = cur[w].bytes)
    BY <1>1, <1>8 DEF Create, OneOfEach, Duplicate, Visible, SameSource
  <2>3. row'[d].path = row'[e].path /\ row'[d].bytes = row'[e].bytes
    BY DEF Alike
  <2>4. CASE d \in Filed /\ e \in Filed
    BY <2>1, <2>3, <2>4 DEF OneOfEach, Alike
  <2>5. CASE d \notin Filed \/ e \notin Filed
    BY <2>1, <2>2, <2>3, <2>5
  <2>. QED  BY <2>4, <2>5
<1>. QED  BY <1>3, <1>4, <1>5, <1>6, <1>7, <1>8, Effects

\* With one ingestion worker no path and checksum is filed twice, whatever failed
\* and whatever a later commit took along.
THEOREM OneWorkerFilesOnce == OneWorker => (Spec => []NoDuplicateActive)
<1>. SUFFICES ASSUME OneWorker PROVE Spec => []NoDuplicateActive
  OBVIOUS
<1>1. Init => OneOfEach
  BY DEF Init, OneOfEach, Filed
<1>2. Typed /\ OneOfEach /\ [Next]_vars => OneOfEach'
  <2>. SUFFICES ASSUME Typed, OneOfEach, [Next]_vars PROVE OneOfEach'
    OBVIOUS
  <2>1. CASE UNCHANGED vars \/ Vendor
    BY <2>1 DEF vars, dbVars, worker, Vendor, VendorWrite, VendorRemove, OneOfEach, Filed,
                Alike, Duplicate, Visible, SameSource
  <2>2. ASSUME NEW w \in Workers, Progress(w) \/ Mishap(w)
        PROVE  OneOfEach'
    BY <2>2, FiledStep, CheckedBeforeCreate DEF OneWorker, OneOfEach
  <2>. QED  BY <2>1, <2>2 DEF Next
<1>3. OneOfEach => NoDuplicateActive
  BY DEF OneOfEach, NoDuplicateActive, Filed, Alike
<1>. QED  BY <1>1, <1>2, <1>3, TypedInvariant, PTL DEF Spec

=============================================================================
