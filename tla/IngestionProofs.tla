--------------------------- MODULE IngestionProofs ---------------------------
(***************************************************************************)
(* Proofs about Ingestion, for any number of workers, files, contents and  *)
(* faults.                                                                 *)
(***************************************************************************)
EXTENDS Ingestion, TLAPS

\* A flushed row belongs to one open transaction, and is not committed yet.
Owned ==
    /\ \A d \in saved : row[d] # None
    /\ \A w \in Workers : \A d \in txn[w] :
          /\ row[d] # None /\ d \notin saved
          /\ \A v \in Workers : d \in txn[v] => v = w

\* The worker knows the file it works on, and the row it has flushed for it.
InHand ==
    \A w \in Workers :
        /\ pc[w] \in {"lookup", "create", "upload", "enqueue", "commit", "reject"}
              => cur[w].file \in Files /\ cur[w].bytes \in Bytes
        /\ pc[w] \in {"upload", "enqueue", "commit"} => cur[w].doc \in txn[w]

Typed == TypeOK /\ Owned /\ InHand

\* The id a new document gets has no row, blob or message.
LEMMA NewIdIsUnused ==
    ASSUME Unused # {}
    PROVE  NewId \in DocIds /\ row[NewId] = None /\ NewId \notin blobs \cup rq
  BY DEF NewId, Unused

\* A rollback of one worker's transaction takes that worker's rows only.
LEMMA RollBackOwned ==
    ASSUME TypeOK, Owned, NEW w \in Workers,
           row' = Without(txn[w]), txn' = [txn EXCEPT ![w] = {}], saved' = saved
    PROVE  Owned' /\ row' \in [DocIds -> Rows \cup {None}]
  BY DEF TypeOK, StoresOK, WorkersOK, Owned, Without

\* A commit makes one worker's rows everybody's.
LEMMA CommitOwned ==
    ASSUME TypeOK, Owned, NEW w \in Workers,
           Committed(w), txn' = [txn EXCEPT ![w] = {}], row' = row
    PROVE  Owned' /\ saved' \subseteq DocIds
  BY DEF TypeOK, StoresOK, WorkersOK, Owned, Committed

\* A fault is of a kind that may strike, and stays within its bound.
LEMMA StrikeTyped ==
    ASSUME MishapsOK, lapsed' = lapsed,
           UNCHANGED mishaps \/ \E kind \in FaultKinds : Strike(kind)
    PROVE  MishapsOK'
  BY IngestionAssumption DEF MishapsOK, Strike, mishaps

\* Going on to the next file keeps the worker's locals typed.
LEMMA NextFileTyped ==
    ASSUME WorkersOK, NEW w \in Workers, NextFile(w), UNCHANGED <<link, seen, todo>>,
           txn' \in [Workers -> SUBSET DocIds],
           sess' \in [Workers -> {"closed", "idle", "open", "broken"}]
    PROVE  WorkersOK'
  BY DEF WorkersOK, NextFile, NoFile

\* The process and its links: a crash takes the rows of its own transaction.
LEMMA TypedProcess ==
    ASSUME NEW w \in Workers, Typed,
           Start(w) \/ Connect(w) \/ Crash(w) \/ LinkDrops(w) \/ Poll(w) \/ ListFails(w)
    PROVE  Typed'
<1>. USE DEF Typed, TypeOK
<1>1. CASE Start(w) \/ Connect(w)
  <2>. USE <1>1 DEF Start, Connect
  <2>1. StoresOK' /\ MishapsOK'
    BY DEF StoresOK, MishapsOK, dbVars, mishaps
  <2>2. WorkersOK'
    BY DEF WorkersOK
  <2>3. Owned' /\ InHand'
    BY DEF WorkersOK, Owned, InHand, dbVars
  <2>. QED  BY <2>1, <2>2, <2>3
<1>2. CASE Crash(w)
  <2>. USE <1>2 DEF Crash
  <2>1. WorkersOK'
    BY DEF WorkersOK, NoFile
  <2>2. MishapsOK'
    BY IngestionAssumption DEF MishapsOK, Strike
  <2>3. Owned' /\ StoresOK'
    BY RollBackOwned DEF StoresOK
  <2>4. InHand'
    BY DEF WorkersOK, InHand
  <2>. QED  BY <2>1, <2>2, <2>3, <2>4
<1>3. CASE LinkDrops(w) \/ ListFails(w)
  <2>. USE <1>3 DEF LinkDrops, ListFails, dbVars, worker, mishaps, vars
  <2>1. StoresOK'
    BY DEF StoresOK
  <2>2. WorkersOK'
    BY DEF WorkersOK
  <2>3. MishapsOK'
    BY IngestionAssumption DEF MishapsOK, Strike
  <2>4. Owned' /\ InHand'
    BY DEF WorkersOK, Owned, InHand
  <2>. QED  BY <2>1, <2>2, <2>3, <2>4
<1>4. CASE Poll(w)
  <2>. USE <1>4 DEF Poll, dbVars, mishaps
  <2>1. StoresOK'
    BY DEF StoresOK
  <2>2. WorkersOK'
    BY DEF StoresOK, WorkersOK, Listing, Stable, Present
  <2>3. MishapsOK'
    BY DEF MishapsOK, Lapse
  <2>4. Owned' /\ InHand'
    BY DEF Owned, InHand
  <2>. QED  BY <2>1, <2>2, <2>3, <2>4
<1>. QED  BY <1>1, <1>2, <1>3, <1>4

\* The vendor writes and removes files and touches nothing else.
LEMMA TypedVendor == ASSUME Typed, Vendor PROVE Typed'
<1>. USE DEF Typed, TypeOK, Vendor, VendorWrite, VendorRemove
<1>1. StoresOK'
  BY DEF StoresOK, dbVars
<1>2. WorkersOK'
  BY DEF WorkersOK, worker
<1>3. MishapsOK'
  BY DEF MishapsOK, Lapse, mishaps
<1>4. Owned' /\ InHand'
  BY DEF Owned, InHand, dbVars, worker
<1>. QED  BY <1>1, <1>2, <1>3, <1>4

\* Reading a file and looking for its duplicate.
LEMMA TypedRead ==
    ASSUME NEW w \in Workers, Typed,
           \/ \E f \in Files : Read(w, f) \/ ReadFails(w, f)
           \/ SkipDuplicate(w) \/ LookupFindsNone(w) \/ LookupFails(w)
    PROVE  Typed'
<1>. USE DEF Typed, TypeOK
<1>1. ASSUME NEW f \in Files, Read(w, f)
      PROVE  Typed'
  <2>. USE <1>1 DEF Read, dbVars, mishaps
  <2>1. StoresOK' /\ MishapsOK'
    BY DEF StoresOK, MishapsOK
  <2>2. WorkersOK'
    BY DEF StoresOK, WorkersOK, Present, Verdict
  <2>3. Owned'
    BY DEF Owned
  <2>4. InHand'
    <3>1. drop[f].bytes \in Bytes
      BY DEF StoresOK, Present
    <3>. QED  BY <3>1 DEF WorkersOK, InHand, Verdict
  <2>. QED  BY <2>1, <2>2, <2>3, <2>4
<1>2. ASSUME NEW f \in Files, ReadFails(w, f)
      PROVE  Typed'
  <2>. USE <1>2 DEF ReadFails, dbVars, mishaps
  <2>1. StoresOK' /\ WorkersOK'
    BY DEF StoresOK, WorkersOK
  <2>2. MishapsOK'
    BY IngestionAssumption DEF MishapsOK, Strike
  <2>3. Owned' /\ InHand'
    BY DEF Owned, InHand
  <2>. QED  BY <2>1, <2>2, <2>3
<1>3. CASE SkipDuplicate(w)
  <2>. USE <1>3 DEF SkipDuplicate, NextFile, NoFile, dbVars, mishaps
  <2>1. StoresOK' /\ MishapsOK' /\ Owned'
    BY DEF StoresOK, MishapsOK, Owned
  <2>2. WorkersOK' /\ InHand'
    BY DEF WorkersOK, InHand
  <2>. QED  BY <2>1, <2>2
<1>4. CASE LookupFindsNone(w)
  <2>. USE <1>4 DEF LookupFindsNone, dbVars, mishaps
  <2>1. StoresOK' /\ MishapsOK' /\ Owned'
    BY DEF StoresOK, MishapsOK, Owned
  <2>2. WorkersOK' /\ InHand'
    BY DEF WorkersOK, InHand
  <2>. QED  BY <2>1, <2>2
<1>5. CASE LookupFails(w)
  <2>. USE <1>5 DEF LookupFails, NextFile, NoFile
  <2>1. MishapsOK'
    BY IngestionAssumption DEF MishapsOK, Strike, mishaps
  <2>2. WorkersOK' /\ InHand'
    BY DEF WorkersOK, InHand, SessionBreaks
  <2>3. Owned' /\ StoresOK'
    <3>1. CASE sess[w] = "open"
      BY <3>1, RollBackOwned DEF StoresOK, SessionBreaks
    <3>2. CASE sess[w] # "open"
      BY <3>2 DEF StoresOK, Owned
    <3>. QED  BY <3>1, <3>2
  <2>. QED  BY <2>1, <2>2, <2>3
<1>. QED  BY <1>1, <1>2, <1>3, <1>4, <1>5

\* Creating the document flushes a row of this transaction's own.
LEMMA TypedCreate ==
    ASSUME NEW w \in Workers, Typed, Create(w) \/ CreateFails(w)
    PROVE  Typed'
<1>. USE DEF Typed, TypeOK
<1>1. CASE Create(w)
  <2>. USE <1>1, NewIdIsUnused DEF Create
  <2>1. MishapsOK'
    BY DEF MishapsOK, mishaps
  <2>2. WorkersOK' /\ InHand'
    BY DEF WorkersOK, InHand
  <2>3. row'[NewId] \in Rows /\ StoresOK'
    BY DEF StoresOK, WorkersOK, InHand, Rows
  <2>4. Owned'
    BY <2>3, RowsAssumption DEF StoresOK, WorkersOK, Owned
  <2>. QED  BY <2>1, <2>2, <2>3, <2>4
<1>2. CASE CreateFails(w)
  <2>. USE <1>2 DEF CreateFails, SessionBreaks, NextFile, NoFile
  <2>1. MishapsOK'
    BY IngestionAssumption DEF MishapsOK, Strike
  <2>2. WorkersOK' /\ InHand'
    BY DEF WorkersOK, InHand
  <2>3. Owned' /\ StoresOK'
    BY RollBackOwned DEF StoresOK
  <2>. QED  BY <2>1, <2>2, <2>3
<1>. QED  BY <1>1, <1>2

\* Changing the status of a row that exists leaves it a row.
LEMMA StatusOwned ==
    ASSUME TypeOK, Owned, NEW d \in DocIds, row[d] # None,
           NEW s \in {"pending", "stored", "queued"}, SetStatus(d, s)
    PROVE  /\ row' \in [DocIds -> Rows \cup {None}]
           /\ \A e \in DocIds : row'[e] = None <=> row[e] = None
  BY RowsAssumption DEF TypeOK, StoresOK, SetStatus, Rows

\* The upload and the message, and their failures, keep the flushed row in hand.
LEMMA TypedUpload ==
    ASSUME NEW w \in Workers, Typed,
           Upload(w) \/ UploadFails(w) \/ Enqueue(w) \/ EnqueueFails(w)
    PROVE  Typed'
<1>. USE DEF Typed, TypeOK
<1>0. cur[w].doc \in DocIds /\ row[cur[w].doc] # None
  BY DEF Upload, UploadFails, Enqueue, EnqueueFails, InHand, WorkersOK, Owned
<1>1. CASE Upload(w)
  <2>. USE <1>0, <1>1 DEF Upload
  <2>1. MishapsOK'
    BY DEF MishapsOK, mishaps
  <2>2. WorkersOK' /\ InHand'
    BY DEF WorkersOK, InHand
  <2>3. StoresOK' /\ Owned'
    BY StatusOwned DEF StoresOK, WorkersOK, Owned
  <2>. QED  BY <2>1, <2>2, <2>3
<1>2. CASE Enqueue(w)
  <2>. USE <1>0, <1>2 DEF Enqueue, dbVars, mishaps
  <2>1. StoresOK' /\ MishapsOK' /\ Owned'
    BY DEF StoresOK, MishapsOK, Owned
  <2>2. WorkersOK' /\ InHand'
    BY DEF WorkersOK, InHand
  <2>. QED  BY <2>1, <2>2
<1>3. CASE UploadFails(w) \/ EnqueueFails(w)
  <2>1. MishapsOK'
    BY <1>3, StrikeTyped DEF UploadFails, EnqueueFails, FaultKinds
  <2>. USE <1>0, <1>3 DEF UploadFails, EnqueueFails, dbVars
  <2>2. InHand'
    BY DEF WorkersOK, InHand, NextFile
  <2>3. StoresOK' /\ Owned'
    BY DEF StoresOK, Owned
  <2>4. WorkersOK'
    BY <1>3, NextFileTyped DEF WorkersOK
  <2>. QED  BY <2>1, <2>2, <2>3, <2>4
<1>. QED  BY <1>1, <1>2, <1>3

\* The commit, and its failure with or without effect.
LEMMA TypedCommit ==
    ASSUME NEW w \in Workers, Typed, CommitIngest(w) \/ CommitFails(w)
    PROVE  Typed'
<1>. USE DEF Typed, TypeOK
<1>0. cur[w].doc \in txn[w] /\ cur[w].doc \in DocIds /\ row[cur[w].doc] # None
  BY DEF CommitIngest, CommitFails, InHand, WorkersOK, Owned
<1>1. MishapsOK'
  BY StrikeTyped DEF CommitIngest, CommitFails, FaultKinds
<1>2. ASSUME SetStatus(cur[w].doc, "queued"), jobs' = jobs \cup {cur[w].doc},
             Committed(w), txn' = [txn EXCEPT ![w] = {}]
      PROVE  Owned' /\ row' \in [DocIds -> Rows \cup {None}]
                    /\ saved' \subseteq DocIds /\ jobs' \subseteq DocIds
  BY <1>0, <1>2, StatusOwned DEF StoresOK, WorkersOK, Owned, Committed
<1>3. ASSUME SessionBreaks(w), UNCHANGED <<saved, jobs>>
      PROVE  Owned' /\ row' \in [DocIds -> Rows \cup {None}]
                    /\ saved' \subseteq DocIds /\ jobs' \subseteq DocIds
  BY <1>3, RollBackOwned DEF StoresOK, SessionBreaks
<1>4. StoresOK' /\ Owned'
  BY <1>2, <1>3 DEF CommitIngest, CommitFails, StoresOK
<1>5. WorkersOK'
  BY NextFileTyped DEF WorkersOK, CommitIngest, CommitFails, SessionBreaks
<1>6. InHand'
  BY DEF WorkersOK, InHand, CommitIngest, CommitFails, SessionBreaks, NextFile
<1>. QED  BY <1>1, <1>4, <1>5, <1>6

\* The report of an unsupported file commits the transaction or loses it.
LEMMA TypedMarkFailed ==
    ASSUME NEW w \in Workers, Typed, MarkFailed(w) \/ MarkFailedRaises(w)
    PROVE  Typed'
<1>. USE DEF Typed, TypeOK
<1>0. rejected' \subseteq Files \X Bytes
  BY DEF MarkFailed, MarkFailedRaises, StoresOK, InHand
<1>1. CASE MarkFailed(w)
  <2>. USE <1>1 DEF MarkFailed, NextFile, NoFile
  <2>1. MishapsOK'
    BY StrikeTyped
  <2>2. WorkersOK' /\ InHand'
    BY DEF WorkersOK, InHand
  <2>3. Owned' /\ StoresOK'
    BY <1>0, CommitOwned DEF StoresOK
  <2>. QED  BY <2>1, <2>2, <2>3
<1>2. CASE MarkFailedRaises(w)
  <2>. USE <1>2 DEF MarkFailedRaises, NoFile
  <2>1. MishapsOK'
    BY StrikeTyped DEF FaultKinds
  <2>2. WorkersOK' /\ InHand'
    BY DEF WorkersOK, InHand
  <2>3. Owned' /\ row' \in [DocIds -> Rows \cup {None}] /\ saved' \subseteq DocIds
    BY RollBackOwned, CommitOwned DEF StoresOK
  <2>4. StoresOK'
    BY <1>0, <2>3 DEF StoresOK
  <2>. QED  BY <2>1, <2>2, <2>3, <2>4
<1>. QED  BY <1>1, <1>2

\* Every reachable state is typed, and each flushed row has one owner.
LEMMA TypedInvariant == Spec => []Typed
<1>1. Init => Typed
  <2>. HAVE Init
  <2>. USE DEF Init
  <2>1. StoresOK /\ Owned
    BY DEF StoresOK, Owned
  <2>2. WorkersOK /\ InHand
    BY DEF WorkersOK, InHand, NoFile
  <2>3. MishapsOK
    <3>1. 0 \in 0 .. MaxFaults
      BY IngestionAssumption
    <3>. QED  BY <3>1 DEF MishapsOK
  <2>. QED  BY <2>1, <2>2, <2>3 DEF Typed, TypeOK
<1>2. Typed /\ [Next]_vars => Typed'
  <2>1. CASE Next
    BY <2>1, TypedVendor, TypedProcess, TypedRead, TypedCreate, TypedUpload, TypedCommit,
       TypedMarkFailed DEF Next, Progress, Mishap
  <2>2. CASE UNCHANGED vars
    BY <2>2 DEF vars, dbVars, worker, mishaps, Typed, TypeOK, StoresOK, WorkersOK,
                MishapsOK, Owned, InHand
  <2>. QED  BY <2>1, <2>2
<1>. QED  BY <1>1, <1>2, PTL DEF Spec

\* Type correctness, whatever fails and whenever a worker dies.
THEOREM TypeCorrect == Spec => []TypeOK
  BY TypedInvariant, PTL DEF Typed

=============================================================================
