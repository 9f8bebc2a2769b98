# A TLA+ model of the document classification service

The repository is a service that takes scanned TIFF files from an SFTP drop
directory, stores them in MinIO, classifies them asynchronously and lets
reviewers correct the result over an API. This directory models it in TLA+,
checks the models with TLC and proves their main properties with TLAPS. Source
paths below are relative to `src/`; `app/` stands for `backend/app/`.

Contents: the system, what each module models, what the runs show, what is
proved, what disagrees with the documentation, what is left out, and the plan.

## 1. The system

```
 vendor --writes--> drop directory --SFTP--> ingestion worker --+-> MinIO originals
                                                                +-> Redis (RQ message)
                                                                +-> Postgres (document, job, audit)
 RQ --delivers--> inference worker --+-> MinIO overlays
                                     +-> Postgres (prediction, overlay asset, job, audit)
 API (reviewers, admins, auditors) --+-> Postgres, MinIO overlays (read)
                                     +-> Casbin policies (roles), Redis cache (invalidation)
```

| Component | State it keeps | Operations | Hard behaviour |
|---|---|---|---|
| Ingestion worker (`app/workers/ingestion_worker.py`) | `seen_files`, one SFTP connection, one database session for the whole connection | poll, read, ingest or reject each stable file, reconnect | races with the vendor, crash loses `seen_files`, a session that breaks and is never rolled back, a connection that is never reopened |
| Ingestion service (`app/services/ingestion.py`) | the session's open transaction | `ingest_file`, `mark_failed` | five calls to four stores in a fixed order, each of which can fail, or succeed with its reply lost |
| SFTP and MinIO adapters (`app/infra/sftp.py`, `minio.py`) | a transport; none | connect, list, read; upload, download | failures, lost replies |
| RQ adapter (`app/infra/queue.py`) and RQ itself | queue, registries, retries left | push; deliver, time out, retry, abandon | delivery before the producer commits, redelivery, the missing scheduler |
| Inference worker (`app/workers/inference_worker.py`) | none between jobs | `classify_document` | killed or timed out at any line, two workers at one document |
| Classification job service (`app/services/classification_jobs.py`) | a session per job | `mark_running`, `persist_result`, `mark_retryable_failure` | a commit that takes along what was flushed before |
| Repositories, models, session (`app/repositories`, `app/db`) | Postgres rows | queries, flushes | no uniqueness constraint on active documents or predictions |
| Prediction review (`app/services/prediction_review.py`) | review fields of a prediction | `relabel` | roles that go between admission and handling, a later label over an earlier one, the admin's bypass |
| Roles and authorization (`app/services/role_management.py`, `app/infra/authz`) | role rows and Casbin policies, two stores | `assign_role`, `revoke_role`, `replace_roles`, `can` | the stores commit separately |
| Accounts (`app/services/user_management.py`, `auth.py`) | users | invite, register, log in | nothing activates an invited account |
| User seeding (`backend/scripts/seed_users.py`, `seed_demo_users.py`) | a transaction, and policies as it goes | one run each | killed half-way, run while the API serves |
| Startup checks, Vault, buckets (`app/services/startup_validation.py`, `main.py`, `config.py`) | secrets in memory, policies, buckets | the checks of three processes, `make setup`, readiness | processes start before what they need is there, race for the buckets, and are or are not restarted |
| Model files and metadata (`app/classifier/validation.py`, `scripts/seed_model_metadata.py`) | two files, `model_metadata` rows | deploy, register, look up, load | the row is looked up by one process, the files by another |
| Audit log, cache | audit rows; cache keys | record, invalidate | a failed invalidation is swallowed |
| Classifier (`app/classifier`) | a loaded model | validate, preprocess, infer, draw | numerical |

What makes the parts correct: a scan that stays in the directory is ingested
once, whole, and either gets a job or is reported; what the database says of a
document is backed by MinIO and RQ; a document gets one prediction, complete
with its overlay, however often its job is attempted; every message comes to
rest; a prediction names the model that made it; role rows and Casbin policies
agree, and somebody can manage roles; a label is put by someone entitled to it
and leaves a trace; nothing serves before it is prepared, and what is prepared
comes up. `PROJECT.json` lists the hazards that threaten these at their lines.

## 2. The modules

### Ingestion

`Ingestion.tla` models the worker and the service it calls. One action is one
call that can fail or be interleaved with the vendor, a crash or another worker.

| Code | Model |
|---|---|
| names, sizes and mtimes in the drop directory | `drop[f]`: a stamp (size and mtime) and the contents |
| `documents` rows, flushed or committed | `row`, with the flushed ones in `txn[w]`, the committed ones in `saved` |
| `classification_jobs` rows, originals bucket, RQ, audit entries | `jobs`, `blobs`, `rq`, `rejected` |
| where the worker is in its loops and in `ingest_file` | `pc[w]`, with `cur[w]`, `todo[w]` |
| the SFTP connection, the session, `seen_files` | `link[w]`, `sess[w]`, `seen[w]` |
| `main`: start, head of the outer loop, end of a connection | `Start`, `Connect`, `MarkFailedRaises`, `Crash` |
| `_detect_stable_files` | `Poll`, `ListFails`, with `Listing` and `Stable` |
| `_process_file` | `Read`, `ReadFails`, and the failure action of each later call |
| `ingest_file` | `SkipDuplicate`, `LookupFindsNone`, `Create`, `Upload`, `Enqueue`, `CommitIngest` |
| `mark_failed` | `MarkFailed`, `MarkFailedRaises` |

The session deserves a word. The worker opens one for the whole connection and
nothing calls `rollback()`. So a row flushed for a file whose upload failed
stays in the transaction, is found by the worker's next duplicate check, and is
committed by whichever commit comes next, which may be the audit entry of a
rejected file. And once a statement fails, the session refuses every further
use (`sess = "broken"`) until an exception leaves the inner loop.

A fault strikes at most `MaxFaults` times in a behaviour and its kind must be in
`Faults`, so that a run can ask what a given kind can do; `struck` records the
kinds for the properties that hold short of some. Reactions of the code to a
fault that has already happened cost nothing. A fault of a remote call may leave
the call done: `UploadFails`, `EnqueueFails`, `CommitFails` and
`MarkFailedRaises` choose.

The vendor may write, rewrite and remove files at any time. Two things it may do
wrong are named in `Lapses`: to *stall*, that is to pause inside an upload from
one poll to the next, and to *rewrite*, to upload again under a used name.

### Classification

`Classification.tla` models the inference worker and its job service, with RQ
around them. A message is in places that RQ keeps (`places[d]`: queue, started,
scheduled, finished, failed); `RqFails` is what RQ does with a job that raised
or was abandoned. `pc[w]` walks through `classify_document`.

| Code | Model |
|---|---|
| the producer: message first, commit after it | `Push`, `Commits`, `NeverCommits` |
| `get_active_by_document` | `Active`, `FindJob`, `NoActiveJob`, `LookupFails` |
| `mark_running`, before the `try` | `MarkRunning`, `MarkRunningFails` |
| the pipeline and the overlay upload | `RunPipeline`, `PipelineFails`, `UploadOverlay`, `OverlayFails` |
| `persist_result` | `FlushPrediction`, `FlushAsset`, `FlushJob`, `FlushAudit`, `CommitResult`, `PersistFails` |
| predictions, `overlay_assets` and "document.classified" rows, committed | `predictions`, `assets`, `audits`; what is only flushed is in `sess[w]` |
| the overlay PNG in MinIO | `overlays` |
| the `except` clause with `mark_retryable_failure` | `MarkRetryable`, `MarkRetryableFails` |
| RQ's job timer, which raises inside the job | `TimeoutOutsideTry`, `TimeoutInsideTry` |
| a killed work-horse, a dead or paused worker, a heartbeat that expired | `HorseDies`, `WorkerDies`, `Abandon` |

Three details matter. `JobTimeoutException` is an `Exception`, so inside the
`try` the timer leads to the `except` clause, whose commit takes along whatever
`persist_result` had flushed. It flushes prediction, overlay asset, job and audit
event one after the other, and the timer may come between any two, so what is
committed then may be a part of the result (`ResultCommitted`). A job that was found already `running` gets no
update of its status (`pc = "remark"`): SQLAlchemy writes only what changed. And
RQ moves a message out of the scheduled registry only if a scheduler runs, which
the code never starts: `scheduler` is `FALSE` in the deployed system, and `TRUE`
asks whether the code would bear the retries it counts on.

### Lifecycle

`Lifecycle.tla` is what an operator may rely on, without queues, retries, workers
or transactions: a document is filed, then its fate is decided once, with one
result if it is classified. `Classification!ImplementsLifecycle` is the refinement:
a document's `fate` is read off its job row, its messages and its workers, its
`results` are its predictions, and `suspected` is whether RQ has taken a paused
worker for dead; from then on the promise is weaker, as the code's is.

### Pipeline

`Pipeline.tla` instantiates both workers over the state they share. `Ingest` is a
step of `Ingestion` that also feeds what it pushed and committed to
`Classification`; `producer`, which `Classification` takes as a variable, is here
defined from the state of ingestion, so that what one module assumed the other
must do. Around this, `Pipeline` follows the model: the operator's `Deploy` and
`Register`, the row the ingestion worker looks up when it connects (`naming`),
what the message carries (`sent`), what the work-horse loads (`loaded`) and which
models made a document's predictions (`madeBy`).

`ImplementsScanLifecycle` instantiates `Lifecycle` a second time, from end to end:
its documents are here the *scans*, a path with its contents, as the vendor knows
them. The `fate` of a scan is that of its document and `results` counts the predictions
of all its documents, so a scan that is filed twice shows as a second result.
`PredictionsAreBacked` reads backwards from a prediction to its overlay, in MinIO and
(short of the timer) as a row, and to the TIFF that it is of.

### Roles and Review

`Roles.tla` models accounts and the two stores of their roles; `Review.tla`
extends it with labels on predictions.

| Code | Model |
|---|---|
| `users`, `role_assignments` with `revoked_at` null, role policies of `casbin_rule` | `account`, `rows`, `policy` |
| a request past `require_permission`, not yet handled | `requests`, `asked` (`Admit`, `AskReview`) |
| `replace_roles`, `assign_role`, `revoke_role` | `Begin` (checks, and the rows in the session), `Strip`, `Grant`, `CommitRoles`; `Refuse`, `AssignAgain` |
| an exception in the handler, the death of the API | `HandlerFails`, `ApiDies`, with `CutOff` |
| `invite_user`, `POST /auth/register` | `InviteUser`, `Register` |
| `seed_users.py` | `SeedUsers`, `SeedUsersCommits`, `SeedUsersAssigns` |
| `seed_demo_users.py` | `SeedDemo`, `DemoReads`, `DemoSyncs`, `DemoCommits`, `DemoStumbles` |
| `relabel` | `Relabel`, `RejectReview`, `RelabelFails` |

What may interleave follows from how the API runs: one event loop, and handlers
that are `async` without an `await`. Two handlers never interleave. But a request
is admitted by its dependency and handled later, so that other handlers may run
in between, and seeding scripts are processes of their own. The enforcer commits
each change of a policy at once on a connection of its own, so `Strip` and each
`Grant` are steps that a failure of the handler does not undo. `assign_role` and
`revoke_role` are called by no route; they are modelled as direct calls by an
authenticated user. Six kinds of mishap are counted as faults: a failing
database, a crash of the API, a killed script, a script that overlaps a handler,
a list that names a role twice, and a request about one's own roles.

### Access

`Access.tla` is what the callers of the API may rely on: accounts are opened and
never closed, an account comes before its roles, and roles change in single steps,
each by an active account that has the role `admin` at that step, or by a seeding
script that adds what its list says. It knows one set of roles per user and nothing
of rows, policies, transactions and requests. `Roles!ImplementsAccess` is the
refinement. A user's roles (`RolesOf`) are what the policies say, except for the target
of a handler that nothing has disturbed, whose roles are what the rows still say: so
the commit is the one step at which they change, though the policies were written one
by one before it. `torn` (`MayDiffer`) is whether a mishap has struck other than a
request about one's own roles; from then on the roles of one user at a time may
become anything (`Tear`), as one failure can leave any part of the policies written.

### Startup

`Startup.tla` models how the system comes up: the commands of `make setup` in
their order (or given by hand, `ByHand`), and the checks of the API and the two
workers, each check a step. `After` and `First` hold the three orders: the workers
differ in when they read secrets. In a worker a failed check is collected
(`failed`) and ends the process after the last one; a missing secret or policy
raises at once. A bucket is looked for and made in two steps (`SeeBucket`,
`MakeBucket`), since three processes do so at the same time. Services go away and
come back, Vault without its secrets. The workers are restarted, the API is not.

All modules state their properties at the end; `Lifecycle` and `Access` are
properties of others. `MCIngestion`, `MCClassification`, `MCPipeline`, `MCAccess` and
`MCStartup` instantiate them. Definitions marked `Mutant:` are what a plausible bug
would turn a definition into; each property has one that breaks it, listed in
`PROJECT.json`.

## 3. What the runs check

| Run | Instance | Shows |
|---|---|---|
| `ingest_safety` | one worker, two files, up to two writes to one and one to the other, two faults of any of five kinds | `JobsAreBacked`, `NoDuplicateActive`, `NoStrandedWithoutFault`, `NoOrphanMessage`, `OnlyCompleteScans`, `TypeOK` |
| `ingest_live` | the same, crashes the only fault, one of them | `EveryScanIngested`, `EveryUnsupportedFileReported` |
| `ingest_stranded` | one storage fault | violates `NoStrandedDocument` |
| `ingest_partial` | no fault, a vendor that rewrites | violates `NoPartialDocument` |
| `ingest_reconnect` | one SFTP fault | violates `EveryScanIngested` |
| `classify` | one document, two workers, three retries, three faults of nine kinds, scheduler or none | `OnePrediction`, `SucceededIsComplete`, `PredictionMeansSucceeded`, `FinishedMeansClassified`, `EveryMessageSettles`, `CrashesAreSurvived`, `EveryDocumentClassified`, `ImplementsLifecycle`, `TypeOK` |
| `classify_unscheduled` | one pipeline failure, no scheduler | violates `RetriesHappen` |
| `classify_absorbed` | one pipeline failure, a scheduler | violates `FailedAttemptsRecover` |
| `pipeline` | one worker of each kind, one file that is a scan or something else, two document ids, two models, one retry, a scheduler or none, one fault on each side | `FeedsClassification`, `WorkIsThere`, `PredictionsAreBacked`, `ImplementsScanLifecycle`, `PredictionsNameTheirModel`, `EveryScanClassified`, `TypeOK` |
| `access` | two accounts, an admin and a reviewer, one prediction, three role lists, one request on its way beside direct calls, one mishap of any of six kinds | `StoresAgree`, `NoDuplicateRoles`, `ManagersRemain`, `RevokedManagersAreStopped`, `ReplacementRepairs`, `DemoSeedRestores`, `LabelsAreAudited`, `LabelsAreAuthorised`, `ImplementsAccess`, `ReviewTypeOK` |
| `startup` | five services, two secret paths of which one is read by nobody, two policies, every command by hand, one fault of three kinds | `ServingIsAuthorised`, `WorkIsBacked`, `WorkersComeUp`, `ApiComesUp`, `TypeOK` |
| `startup_setup` | the setup alone, no fault | violates `SetupServes` |

**Why the bounds are enough.** Files interact only through the shared session
and transaction, and two are enough for one file's leftovers to be committed by
another's. Two writes make an upload in two parts, a correction after a whole
scan and a resend after a removal; three kinds of contents are a prefix, a whole
TIFF and something that is no TIFF. Two faults give every pair of a failure and
a failure of its aftermath. `Create` would wait if the document
ids ran out; with five it never has to. Documents do not interact in classification,
so one suffices; two workers meet at it, and three faults with three retries
take a message through failure, recovery and a second failure. In the pipeline
the cases each side has alone are the other runs' business; one file, a fault on
each side and a second document id for the file's second try are what the
handover needs, two models are what a swap needs, and contents that are no TIFF
what a wrong verdict needs. A paused worker, which the
premise of `PredictionsNameTheirModel` excludes, is left to the proof. Of the
access run, one admitted request suffices because a direct call plays the second
actor: two admitted requests give more than five million states and nothing new
in kind. One mishap suffices there for each property to have a behaviour that its
premise excludes; that two mishaps do no more is what the theorems say. Two
policies make a seeding that is cut off, one secret that is not read shows the
difference between serving and being ready. The safety properties are also proved
for every value of these bounds (section 4).

**Deadlock.** Ingestion never stops: a worker always has a next step, so TLC's
deadlock check stays on. Classification stops when every message has come to
rest and no fault is left, so it is off there. The same
holds for the pipeline and for the start of the system, which ends with everything
up or the setup aborted. Accounts and roles never stop.

**Fairness.** `Ingestion!FairSpec` assumes only that a worker keeps taking steps
(its process is scheduled and Docker restarts it, `restart: unless-stopped`);
nothing is assumed of the vendor or of any particular outcome, and the bound on
faults is what keeps faults from recurring for ever. `Classification!FairSpec`
assumes the same of the inference workers, that an ingestion worker that has
pushed goes on to commit or dies, that RQ's maintenance finds the heartbeat of a
worker that is gone, and that a scheduler, if there is one, moves due messages.
A live but paused worker is taken for dead without fairness: it may happen.
`Pipeline!FairSpec` assumes the same of both workers in one system, nothing of the
operator. `Startup!FairSpec` assumes that a started process goes through its
checks, that Docker restarts the workers, and that the operator's setup goes on
from one command to the next; nothing is assumed of outages, recoveries or
commands by hand. `WorkersComeUp` has its premise in the formula instead: once
everything is in place and stays so. `Roles` and `Review` have no liveness
property: the requests are the users' to make.

**How the premises are to be read.** `OnlyCompleteScans` excludes a vendor that
stalls or rewrites; `NoStrandedWithoutFault` a failed upload or push;
`NoOrphanMessage` a crash, a database failure or a lost reply of Redis;
`OnePrediction` a paused worker; `PredictionMeansSucceeded` the timer as well.
`SucceededIsComplete` excludes nothing in its first two clauses; the timer is the
premise of its last, that a prediction has its asset row and audit event, and of the
clause of `PredictionsAreBacked` about the asset row.
`StoresAgree` excludes every mishap but a request about oneself,
`NoDuplicateRoles` an overlapping script and a repeated role, `ManagersRemain` a
request about oneself, `ReplacementRepairs` and `DemoSeedRestores` an overlap;
`PredictionsNameTheirModel` an operator who is `hasty` and a paused worker.
`ImplementsLifecycle`, `ImplementsScanLifecycle` and `ImplementsAccess` exclude nothing;
what they promise weakens, as their abstract specifications say, once a worker is
taken for dead (`suspected`) or the stores of roles may have come apart (`torn`).
`ImplementsScanLifecycle` is promised of a single ingestion worker.
Each premise is needed: without it there is a counterexample. The runs include
behaviours with and without what the premise excludes. A property speaks for a
hazard only if it includes the fault the hazard is about: the hazards of
`PROJECT.json` name no others, and one that none covers has a note that says so.

## 4. What is proved

TLAPS checks these for all values of the constants: any number of workers,
files, documents, retries and faults, of accounts, predictions, role lists and
requests, of services, secrets and policies, under the named assumptions
`IngestionAssumption`, `RowsAssumption`, `ClassificationAssumption`,
`PipelineAssumption`, `RolesAssumption`, `ReviewAssumption` and
`StartupAssumption`, which say what kinds of things the constants are (and that
the demo list names an account once, as it does).

| Module | Theorem | Statement |
|---|---|---|
| `IngestionProofs` | `TypeCorrect` | `Spec => []TypeOK` |
| `IngestionSafetyProofs` | `JobsBacked` | `Spec => []JobsAreBacked` |
| | `MessagesHaveJobs` | `Spec => []NoOrphanMessage` |
| | `NoneStrandedWithoutFault` | `Spec => []NoStrandedWithoutFault` |
| | `ScansAreComplete` | `Spec => []OnlyCompleteScans` |
| | `OneWorkerFilesOnce` | `OneWorker => (Spec => []NoDuplicateActive)` |
| `ClassificationProofs` | `TypeCorrect` | `Spec => []TypeOK` |
| `ClassificationSafetyProofs` | `SuccessIsComplete` | `Spec => []SucceededIsComplete` |
| | `FinishedIsClassified` | `Spec => []FinishedMeansClassified` |
| | `PredictedOnce` | `Spec => []OnePrediction` |
| | `PredictedJobSucceeded` | `Spec => []PredictionMeansSucceeded` |
| `LifecycleProofs` | `LifecycleImplemented` | `Spec => ImplementsLifecycle` |
| `PipelineProofs` | `IngestionFeedsClassification` | `Spec => FeedsClassification` |
| | `WorkFound` | `Spec => []WorkIsThere` |
| | `PredictionsNamed` | `Spec => []PredictionsNameTheirModel` |
| | `PredictionsBacked` | `Spec => []PredictionsAreBacked` |
| | `DocumentsLive` | `Spec => AP!ImplementsLifecycle` (`Classification`'s, in the composition) |
| | `ScansLive` | `OneIngester => (Spec => ImplementsScanLifecycle)` |
| | `PipelineTyped` | `Spec => []TypeOK` |
| `AccessProofs` | `StoresInStep` | `ReviewSpec => []StoresAgree` |
| | `RolesOnce` | `ReviewSpec => []NoDuplicateRoles` |
| | `SomeoneManages` | `ReviewSpec => ManagersRemain` |
| | `StoppedAfterRevocation` | `ReviewSpec => RevokedManagersAreStopped` |
| | `ReplacementsRepair` | `ReviewSpec => ReplacementRepairs` |
| | `DemoSeedRepairs` | `ReviewSpec => DemoSeedRestores` |
| | `EveryLabelAudited` | `ReviewSpec => LabelsAreAudited` |
| | `LabelsByTheEntitled` | `ReviewSpec => LabelsAreAuthorised` |
| | `AccessImplemented` | `ReviewSpec => ImplementsAccess` |
| | `AccessTyped` | `ReviewSpec => []ReviewTypeOK` |
| `StartupProofs` | `TypeCorrect` | `Spec => []TypeOK` |
| | `ServingAuthorised` | `Spec => []ServingIsAuthorised` |
| | `WorkBacked` | `Spec => []WorkIsBacked` |

**Ingestion.** Types are inductive with two facts about ownership: a worker past
`create` holds a document id that is in its own transaction, and no id is in two
transactions, or both in one and committed. Lemmas then say once what an action
can do to the shared stores (`Effects` and the locality lemmas), so that each
safety proof has a case per effect and not per action. `NoDuplicateActive` needs
the strengthening that what a single worker has flushed or committed is pairwise
distinct and that the file it is about to create is not among it: the duplicate
check sees `saved` and `txn[w]`, which with one worker is every row there is.
`OneWorker` is a premise and not an assumption, since with two workers the
property is false. `Validated` follows the verdict on a file: whatever a worker holds
past it, and every row there is, is a TIFF.

**Classification.** The argument has the same shape: `DbEffects` (a step leaves
the database alone or does one of four things), `Moves` and `Ends` (where a step
takes the work-horse and its message), `Locality`. `Stored` strengthens
`SucceededIsComplete`: whoever is in `persist_result` or past it has stored the
overlay (`StoredBy`); the session holds at each step of `persist_result` just the rows
flushed before it, so all of them at the commit; and short of the timer no attempt
comes to the `except` clause with rows in a session that can still commit, so that
a document has as many assets and audit events as predictions. `OnePrediction` needs a chain: `Unsent` (nothing has come of a document
whose ingestion has not committed), `OneHolder` (short of a pause a message is in
one place and one busy worker holds it) and `Once` (an attempt under way is at a
document without a prediction, and a classified document's job is not active).
`Prompt` adds, short of the timer, that a failed attempt has nothing flushed.
All of these were checked by TLC with two documents and two workers before they
were proved.

**Lifecycle.** The initial states map to initial ones; each step of classification
maps to `File`, `Classify`, `Fail`, `TakeUpAgain`, `Suspect` or a stutter. What a
step does to a document's fate depends on where its other copies are, so the
proof uses `Exclusive` and the once-invariants above, with `Filed` (a document that
was never filed has no message) and the case of an attempt whose job is active.

**Pipeline.** The composition inherits what was proved of its parts. Every step of
`Spec` is a step or a stutter of `Ingestion` alone (`IngestsAlone`), so its
invariants hold here (`Supply`). With them, each effect that `IP!Effects` lists is
shown to be a step of the producer in `Classification`: a push, a commit, a lost
message or nothing (`IngestFeeds`). `Classification` counts a lost message as a
fault, so the fault counter maps to `cfaults + Cardinality(Lost)`. From
`IngestionFeedsClassification` the invariants of `Classification` follow in turn
(`Working`), and from both `WorkIsThere`: a job row past the lookup is a committed
job, and a committed job is backed. `Equipped` types the model variables and says
who has a model loaded; `Named` says that short of haste the deployed model is
what every connected ingestion worker names and every message under way carries.
It is the invariant that tells what the operator must do, and each of its parts
fails for one kind of haste.

**From end to end.** `PredictionsBacked` chains invariants of the two parts: a prediction has its
overlay (`SucceededIsComplete`) and a job (`Unsent`), the job a committed document with its
original (`JobsAreBacked`), and the document is a TIFF (`Validated`), complete if the
vendor behaved (`OnlyCompleteScans`). `DocumentsLive` carries the refinement of `Classification` over
to the composition without a new argument. `ScansLive` needs one. Its invariant
`Scanned` says that every document with a job is the only one of its scan, which is then
told of exactly like the document; that it is the only one is `NoDuplicateActive`, which
needs the single ingestion worker. A document keeps its path and contents
(`SourcesKept`), so a step that moves the fate of one document moves that of its scan
and of no other (`ScanFollows`, `ScansKept`), and the refinement of `Classification`
gives the step (`ScanStep`).

**Roles and Review.** `Base` is the types with what ties the steps together: while
a handler runs its caller and target exist, a script's place is in its list,
uncommitted rows are not more than there are. On `Base` stand, each with one case
per effect: `Reviewed` (authors of waiting reviews are active; every label has its
event), `Distinct` (what the rows will be when the handler and the script commit
has no duplicate either, and what is still to be granted is not there yet),
`Replacing` (in a replacement the target's policies are those granted so far),
`Reseeding` (accounts the script is done with have row or pending row, and policy)
and `InStep` (outside the target of a running handler, what rows and pending rows
say is what Casbin says; the target is half-way in a stated manner). `ManagersRemain`
needs no invariant beyond `Base`: whoever runs a handler is not the target, and a
manager who is not the target stays one.

**Access.** `AccessImplemented` stands on `Base`, `Distinct` and `InStep` and two invariants
of its own. `Rooted`, which holds whatever fails, says that a policy without an account
belongs to the transaction of the demo script and is on its list, so that the roles
appear with the account and never before. `SelfManaged` says that a handler about its
caller's own roles has the caller as an admin by the rows until it commits, when the
policies may say so no longer. Each step is then given the abstract step it is: opening
an account, the commit of an undisturbed handler (`Change`), a commit or a policy of a
script (`Seed`), a mishap or its aftermath (`Tear`), or nothing. `InStep` is what makes the start
of a handler invisible: the mapping turns from policies to rows for its target there.

**Startup.** `Found` says what a worker that has collected no failure has found by
each of its checks, and that nobody takes it away: buckets, assets and metadata
are never removed. `Passed` says that a worker with a failure gets no further than
its last collected check.

**Model-checked only.** The liveness properties (`EveryScanIngested`,
`EveryUnsupportedFileReported`, `EveryMessageSettles`, `CrashesAreSurvived`,
`EveryDocumentClassified`, `EveryScanClassified`, `WorkersComeUp`, `ApiComesUp`):
proofs of liveness under fairness need `ENABLED`,
which the prover does not support. The violations are TLC's by nature.

## 5. Where the code and its documentation disagree

1. **A failed upload strands the document** (`ingest_stranded`). The log line of
   `ingestion_worker.py:206` promises a retry on the next poll. The row flushed
   before the upload stays in the transaction, so the next poll takes the file
   for a duplicate, and another file's commit makes the row permanent: `pending`,
   without a job, never retried.
2. **A stable file can be read half-written** (`ingest_partial`).
   `docs/end-to-end-flow.md:209` says that stable-file detection prevents it; the
   read comes after the listing and does not check that the file is still the
   one listed.
3. **A lost SFTP connection is never reopened** (`ingest_reconnect`). The comment
   at `ingestion_worker.py:248` says the outer loop keeps trying; the listing
   swallows the exception and the inner loop never ends.
4. **Retries never run** (`classify_unscheduled`). `queue.py:11` announces three
   retries; an interval needs a scheduler, and `worker.work()` starts none.
5. **Retries would be absorbed** (`classify_absorbed`). With a scheduler, each
   retry of a recorded failure finds no active job, since
   `get_active_by_document` ignores `retryable_failed`, although
   `classification_jobs.py:126` calls the job requeueable and `data-model.md:70`
   has a transition back to `queued`.

6. **The setup does not end with a live API** (`startup_setup`). `Makefile:24` prints
   "Setup complete" and `docs/RUNBOOK.md:49` says that the API is live then. Compose
   starts the API before secrets and policies are there, its lifespan raises, it has
   no restart policy, and `uvicorn --reload` starts a failed child only when a file
   changes. The frontend waits for a healthy API, so `docker compose up -d` may fail
   and stop make; by hand everything is seeded and the API is down until it is
   restarted. The remedy of the runbook's troubleshooting, `make seed`, prepares what
   was missing and starts nothing.

Disagreements without a run of their own:

- `role_management.py:164` ("Runs in a single transaction") and `spec.md:53`: the
  policies commit one by one, outside the transaction. `StoresAgree` needs its
  premise for this; `ReplacementRepairs` and `DemoSeedRestores` say what heals it.
- `classification_jobs.py:55` and `inference_worker.py:12` persist the prediction and its
  overlay asset "in one transaction", and `spec.md:102` wants classifications
  audited. They are flushed one by one, and if the job timer fires in between, the
  commit of `mark_retryable_failure` keeps the prediction without its overlay asset
  (the overlay route, `app/api/predictions.py:101`, then answers 404 though the image
  is in MinIO) or without its audit event. `SucceededIsComplete` needs its premise
  for this: without it, TLC has the counterexample.
- `data-model.md:36` allows one active assignment of a role per user: a PUT with
  `["admin", "admin"]` makes two, and a seeding script beside a handler can.
- `spec.md:131` wants denied writes audited: a denied role change or relabel leaves
  no event.
- `user_management.py:46` says that an invited account "can later complete
  activation": no operation does.
- `docs/end-to-end-flow.md:211` has relabels above 0.7 rejected; it does not say that
  whoever can manage roles is exempt.
- `data-model.md:110` wants the metadata to match the loaded classifier "before
  inference starts": nothing compares them. `PredictionsNameTheirModel` holds for an
  operator who stops ingestion, lets the queue run empty, replaces the files, seeds
  the metadata and starts again, and never goes back to an earlier model:
  `seed_model_metadata.py` skips a checksum it knows, and the latest row stays the
  newer model's.
- `docs/SECURITY.md:84-91` describes a gate over all required secrets: each process
  reads what `apply_vault_secrets` reads and starts without the others.
  `SECURITY.md:144` says that Vault's data is in a volume: dev mode keeps it in memory
  (`docs/DECISIONS.md:89`). `SECURITY.md:140-142` has the workers crash-loop when Vault
  is unreachable: they read it only when they start.

What the premises of section 3 exclude is of the same kind, without a document
that promises otherwise: the timer can leave a prediction whose job reads
`retryable_failed`, complete or not, a paused worker can cause a second prediction, and two
ingestion workers on one directory can file a scan twice (the index at
`app/db/models.py:191` is not unique).

## 6. What is not modelled

Abstractions in the modelled parts: a stamp stands for size and mtime, so a
rewrite of the same size within one tick of the mtime is not seen; a checksum
stands for its bytes; the batch is created with its document in one step;
logging, waiting times, details of audit entries and the values of a prediction
are left out; cache invalidation after a commit cannot fail its caller and has
no effect here; in `Ingestion` the model metadata lookup and the startup checks
are retried until they succeed, as the restart policy does (`Startup` has the
checks, `Pipeline` the choice of the model). `mark_terminal_failure` has no caller.
A relabel is one step, since nobody sees the database between its checks and its
commit; the prediction itself is no variable, since nothing writes it. In
`Startup` a policy table is a number, as the baseline is seeded in a fixed order
and never removed.

Parts that stay out: numerical inference, preprocessing and overlays (arithmetic
on tensors and images), the wording of errors and logs, tokens and password
hashing (a library's), the read-only API, the frontend, the columns of the schema,
and the script that generates golden data. None of them keeps state that several
actors share. No route reads the cache, so a lost invalidation changes nothing
that can be observed. What an invited account becomes is not modelled because the
code has nothing to become.

## 7. Plan

Done, in this order: `Ingestion`, `Classification`, `Lifecycle` as its
abstraction, `Roles`, `Review`, `Startup`, `Pipeline`, their instances, proofs of
every safety property, and the two refinements that speak of the whole: scans from
end to end, and `Access` for accounts and roles.

What would be next, if the code moves: a run for each fix of section 5 (a rollback
after a failed upload; a scheduler and a lookup that takes up `retryable_failed`
rows; a restart policy for the API), each of which turns a violated property into
one that holds; two ingestion workers, once the index on active documents is
unique; and the activation of invited accounts, once there is one.

To check everything: `tlc -config <cfg> <module>` for each run of
`PROJECT.json`, and `tlapm <module>` for each module of section 4.
