--------------------------- MODULE StartupProofs ----------------------------
(***************************************************************************)
(* Types and the two safety properties of Startup, for any services,       *)
(* secrets, number of policies and faults.                                 *)
(***************************************************************************)
EXTENDS Startup, TLAPS

\* Where each process's steps lead: the table After, read once.
LEMMA Walk ==
    /\ Stops("api") = {"new", "exited", "up", "secrets", "authz"}
    /\ Stops("ingestion") = {"new", "exited", "up", "secrets", "sftp", "originals", "overlays",
                             "write", "queue", "loop", "make originals", "make overlays"}
    /\ Stops("inference") = {"new", "exited", "up", "secrets", "assets", "originals", "overlays",
                             "write", "queue", "make originals", "make overlays"}
    /\ After["api"]["secrets"] = "authz" /\ After["api"]["authz"] = "up"
    /\ After["ingestion"]["secrets"] = "sftp" /\ After["ingestion"]["sftp"] = "originals"
    /\ After["ingestion"]["originals"] = "overlays" /\ After["ingestion"]["overlays"] = "write"
    /\ After["ingestion"]["write"] = "queue" /\ After["ingestion"]["queue"] = "loop"
    /\ After["inference"]["assets"] = "originals" /\ After["inference"]["originals"] = "overlays"
    /\ After["inference"]["overlays"] = "write" /\ After["inference"]["write"] = "queue"
    /\ After["inference"]["queue"] = "secrets" /\ After["inference"]["secrets"] = "up"
<1>1. /\ DOMAIN After["api"] = {"secrets", "authz"}
      /\ DOMAIN After["ingestion"] = {"secrets", "sftp", "originals", "overlays", "write", "queue", "loop"}
      /\ DOMAIN After["inference"] = {"assets", "originals", "overlays", "write", "queue", "secrets"}
  BY DEF After
<1> QED
  BY <1>1 DEF Stops, Workers, After

\* Every process has a first check, and it is one of its own.
LEMMA FirstOK ==
    /\ First \in [Processes -> UNION {Stops(p) : p \in Processes}]
    /\ \A p \in Processes : First[p] \in Stops(p)
<1>1. \A p \in Processes : First[p] \in Stops(p)
  BY Walk DEF First, Processes
<1> QED
  BY <1>1 DEF First

-----------------------------------------------------------------------------
(* Types.                                                                  *)

\* A process that moves somewhere it may be.
LEMMA ReachOK ==
    ASSUME TypeOK, NEW p \in Processes, NEW s, Reach(p, s), s \in Stops(p)
    PROVE  /\ pc' \in [Processes -> UNION {Stops(q) : q \in Processes}]
           /\ \A q \in Processes : pc'[q] \in Stops(q)
BY DEF TypeOK, Reach

\* A check, a look at a bucket or a step into the loop leads to a stop.
LEMMA CheckTyped ==
    ASSUME TypeOK, NEW p \in Processes, Check(p)
    PROVE  TypeOK'
<1>1. After[p][pc[p]] \in Stops(p)
  BY Walk DEF TypeOK, Check, Processes
<1>2. "exited" \in Stops(p)
  BY DEF Stops
<1>3. /\ pc' \in [Processes -> UNION {Stops(q) : q \in Processes}]
      /\ \A q \in Processes : pc'[q] \in Stops(q)
  BY <1>1, <1>2, ReachOK DEF Check, Exit
<1>4. failed' \subseteq Processes
  BY DEF TypeOK, Check, Exit
<1> QED
  BY <1>3, <1>4 DEF TypeOK, Check, prepared

\* Looking for a bucket leads to its making, to the next check or to the writable check.
LEMMA SeeBucketTyped ==
    ASSUME TypeOK, NEW p \in Processes, NEW b \in Buckets, SeeBucket(p, b)
    PROVE  TypeOK'
<1>1. pc[p] \in Stops(p) /\ pc[p] \in {"originals", "overlays"}
  BY DEF TypeOK, SeeBucket, Buckets
<1>a. p \in {"ingestion", "inference"}
  BY <1>1, Walk DEF Processes
<1>b. {After[p][b], "write", Makes(b)} \subseteq Stops(p)
  <2>1. b \in {"originals", "overlays"}
    BY DEF Buckets
  <2>2. CASE p = "ingestion"
    BY <2>1, <2>2, Walk DEF Makes
  <2>3. CASE p = "inference"
    BY <2>1, <2>3, Walk DEF Makes
  <2> QED
    BY <1>a, <2>2, <2>3
<1>2. /\ pc' \in [Processes -> UNION {Stops(q) : q \in Processes}]
      /\ \A q \in Processes : pc'[q] \in Stops(q)
  BY <1>b, ReachOK DEF SeeBucket
<1>3. failed' \subseteq Processes
  BY DEF TypeOK, SeeBucket
<1> QED
  BY <1>2, <1>3 DEF TypeOK, SeeBucket, prepared

\* Making a bucket leads to the next check or to the writable check.
LEMMA MakeBucketTyped ==
    ASSUME TypeOK, NEW p \in Processes, NEW b \in Buckets, MakeBucket(p, b)
    PROVE  TypeOK'
<1>1. pc[p] \in Stops(p) /\ pc[p] \in {"make originals", "make overlays"}
  BY DEF TypeOK, MakeBucket, Makes
<1>a. p \in {"ingestion", "inference"}
  BY <1>1, Walk DEF Processes
<1>b. {After[p][b], "write"} \subseteq Stops(p)
  <2>1. b \in {"originals", "overlays"}
    BY DEF Buckets
  <2>2. CASE p = "ingestion"
    BY <2>1, <2>2, Walk
  <2>3. CASE p = "inference"
    BY <2>1, <2>3, Walk
  <2> QED
    BY <1>a, <2>2, <2>3
<1>2. /\ pc' \in [Processes -> UNION {Stops(q) : q \in Processes}]
      /\ \A q \in Processes : pc'[q] \in Stops(q)
  BY <1>b, ReachOK DEF MakeBucket
<1>3. failed' \subseteq Processes /\ buckets' \subseteq Buckets
  BY DEF TypeOK, MakeBucket
<1> QED
  BY <1>2, <1>3 DEF TypeOK, MakeBucket, prepared

\* Steps that send one process somewhere and touch nothing else but the fault count.
LEMMA MovesTyped ==
    ASSUME TypeOK,
           \/ RestartApi \/ LoopEnds \/ OpenLoop
           \/ \E p \in Processes : Restart(p) \/ Crash(p)
    PROVE  TypeOK'
<1>1. \A p \in Processes : First[p] \in Stops(p) /\ "exited" \in Stops(p)
  BY FirstOK DEF Stops
<1>2. "loop" \in Stops("ingestion") /\ "up" \in Stops("ingestion")
  BY Walk
<1>3. "api" \in Processes /\ "ingestion" \in Processes
  BY DEF Processes
<1>4. /\ pc' \in [Processes -> UNION {Stops(q) : q \in Processes}]
      /\ \A q \in Processes : pc'[q] \in Stops(q)
  BY <1>1, <1>2, <1>3, ReachOK DEF RestartApi, LoopEnds, OpenLoop, Restart, Crash, Exit, Reach, TypeOK
<1>5. failed' \subseteq Processes
  BY DEF TypeOK, RestartApi, LoopEnds, OpenLoop, Restart, Crash, Exit
<1>6. faults' \in 0 .. MaxFaults
  BY StartupAssumption DEF TypeOK, RestartApi, LoopEnds, OpenLoop, Restart, Crash, Strike
<1> QED
  BY <1>4, <1>5, <1>6 DEF TypeOK, RestartApi, LoopEnds, OpenLoop, Restart, Crash, prepared

\* The commands, of the setup or by hand.
LEMMA CommandsTyped ==
    ASSUME TypeOK,
           \/ Setup \/ CommandFails \/ Probe
           \/ \E c \in ByHand : Command(c)
           \/ \E s \in Services : Outage(s) \/ Recover(s)
    PROVE  TypeOK'
<1>1. /\ pc' \in [Processes -> UNION {Stops(q) : q \in Processes}]
      /\ \A q \in Processes : pc'[q] \in Stops(q)
  <2>1. CASE ComposeUp
    BY <2>1, FirstOK DEF ComposeUp
  <2>2. CASE ~ComposeUp
    <3>1. pc' = pc
      BY <2>2 DEF Setup, PullAssets, ComposeWaits, RunMigrations, RunSeedVault, RunSeedMetadata,
                  RunSeedPolicies, CommandFails, Probe, Command, Outage, Recover, processes
    <3> QED
      BY <3>1 DEF TypeOK
  <2> QED
    BY <2>1, <2>2
<1>a. assets' \in BOOLEAN /\ migrated' \in BOOLEAN /\ metadata' \in BOOLEAN
  BY DEF TypeOK, Setup, PullAssets, ComposeUp, ComposeWaits, RunMigrations, RunSeedVault,
      RunSeedMetadata, RunSeedPolicies, CommandFails, Probe, Command, Outage, Recover,
      prepared, Migrate, SeedVault, SeedVaultPartly, SeedMetadata, AddPolicy, GoOn
<1>b. vault' \subseteq Secrets
  BY DEF TypeOK, Setup, PullAssets, ComposeUp, ComposeWaits, RunMigrations, RunSeedVault,
      RunSeedMetadata, RunSeedPolicies, CommandFails, Probe, Command, Outage, Recover,
      prepared, Migrate, SeedVault, SeedVaultPartly, SeedMetadata, AddPolicy, GoOn
<1>c. \/ policies' = policies
      \/ policies < Policies /\ policies' = policies + 1
  BY DEF Setup, PullAssets, ComposeUp, ComposeWaits, RunMigrations, RunSeedVault,
      RunSeedMetadata, RunSeedPolicies, CommandFails, Probe, Command, Outage, Recover,
      prepared, Migrate, SeedVault, SeedVaultPartly, SeedMetadata, AddPolicy, GoOn
<1>2. policies' \in 0 .. Policies
  BY <1>c, StartupAssumption DEF TypeOK
<1>3. /\ reachable' \subseteq Services /\ buckets' \subseteq Buckets
      /\ failed' \subseteq Processes
  BY DEF TypeOK, Setup, PullAssets, ComposeUp, ComposeWaits, RunMigrations, RunSeedVault,
      RunSeedMetadata, RunSeedPolicies, CommandFails, Probe, Command, Outage, Recover,
      processes, GoOn
<1>4. stage' \in Stages
  BY DEF TypeOK, Setup, PullAssets, ComposeUp, ComposeWaits, RunMigrations, RunSeedVault,
      RunSeedMetadata, RunSeedPolicies, CommandFails, Probe, Command, Outage, Recover,
      GoOn, Stages
<1>5. faults' \in 0 .. MaxFaults
  BY StartupAssumption
  DEF TypeOK, Setup, PullAssets, ComposeUp, ComposeWaits, RunMigrations, RunSeedVault,
      RunSeedMetadata, RunSeedPolicies, CommandFails, Probe, Command, Outage, Recover,
      GoOn, Strike
<1> QED
  BY <1>1, <1>a, <1>b, <1>2, <1>3, <1>4, <1>5 DEF TypeOK

\* A fresh clone is typed.
LEMMA InitTyped == Init => TypeOK
<1> SUFFICES ASSUME Init PROVE TypeOK
  OBVIOUS
<1>1. 0 \in 0 .. MaxFaults /\ 0 \in 0 .. Policies
  BY StartupAssumption
<1>2. \A p \in Processes : "new" \in Stops(p)
  BY DEF Stops
<1> QED
  BY <1>1, <1>2 DEF Init, TypeOK, Stages

\* Every step preserves the types.
LEMMA StepTyped == TypeOK /\ [Next]_vars => TypeOK'
<1> SUFFICES ASSUME TypeOK, [Next]_vars PROVE TypeOK'
  OBVIOUS
<1>1. CASE UNCHANGED vars
  BY <1>1 DEF TypeOK, vars, prepared, processes
<1>2. CASE \E p \in Processes : Step(p)
  BY <1>2, CheckTyped, SeeBucketTyped, MakeBucketTyped, MovesTyped DEF Step
<1>3. CASE RestartApi \/ LoopEnds \/ \E p \in Processes : Restart(p) \/ Crash(p)
  BY <1>3, MovesTyped
<1>4. CASE \/ Setup \/ CommandFails \/ Probe
           \/ \E c \in ByHand : Command(c)
           \/ \E s \in Services : Outage(s) \/ Recover(s)
  BY <1>4, CommandsTyped
<1> QED
  BY <1>1, <1>2, <1>3, <1>4 DEF Next

\* Every process is at a check of its own or has come to an end, and seeding adds
\* no policy twice (the checks of startup_validation.py, casbin_enforcer.py:86).
THEOREM TypeCorrect == Spec => []TypeOK
BY InitTyped, StepTyped, PTL DEF Spec

-----------------------------------------------------------------------------
(* Safety.  A worker that goes on past a check has passed it or is counted *)
(* among the failed, and a failed one ends before it works.                *)

\* What a worker that has failed no check has found on its way.
Found(p) ==
    p \notin failed =>
        /\ pc[p] \in {"overlays", "make overlays"} => "originals" \in buckets
        /\ pc[p] \in {"write", "queue", "loop", "up"} => buckets = Buckets
        /\ p = "inference" /\ pc[p] = "secrets" => buckets = Buckets
        /\ p = "inference" /\ pc[p] \notin {"new", "exited", "assets"} => assets

\* Nobody who works has failed.
Passed(p) ==
    /\ pc[p] \in {"loop", "up"} => p \notin failed
    /\ p = "inference" /\ pc[p] = "secrets" => p \notin failed

IInv ==
    /\ TypeOK
    /\ \A p \in Workers : Found(p) /\ Passed(p)
    /\ pc["ingestion"] = "up" => metadata
    /\ ServingIsAuthorised

\* What has been provided stays.
LEMMA Kept ==
    ASSUME TypeOK, [Next]_vars
    PROVE  /\ buckets \subseteq buckets' /\ buckets' \subseteq Buckets
           /\ assets => assets'
           /\ metadata => metadata'
           /\ policies = Policies => policies' = Policies
<1> USE DEF Next, Setup, PullAssets, ComposeUp, ComposeWaits, RunMigrations, RunSeedVault,
      RunSeedMetadata, RunSeedPolicies, CommandFails, Probe, Command, Outage, Recover, GoOn,
      RestartApi, LoopEnds, Step, Check, SeeBucket, MakeBucket, OpenLoop, Restart, Crash,
      prepared, vars
<1>1. buckets \subseteq buckets'
  BY DEF TypeOK
<1>2. assets => assets'
  BY DEF Migrate, SeedVault, SeedVaultPartly, SeedMetadata, AddPolicy
<1>3. metadata => metadata'
  BY DEF Migrate, SeedVault, SeedVaultPartly, SeedMetadata, AddPolicy
<1>4. policies < Policies \/ policies' = policies
  BY DEF Migrate, SeedVault, SeedVaultPartly, SeedMetadata, AddPolicy
<1>5. policies = Policies => policies' = Policies
  BY <1>4, StartupAssumption
<1>6. buckets' \subseteq Buckets
  BY StepTyped DEF TypeOK
<1> QED
  BY <1>1, <1>2, <1>3, <1>5, <1>6

\* A step leaves a process where it is, starts it, ends it, or is its own.
LEMMA OwnStep ==
    ASSUME TypeOK, [Next]_vars, NEW p \in Processes
    PROVE  \/ pc'[p] = pc[p] /\ (p \in failed' <=> p \in failed)
           \/ pc'[p] \in {First[p], "exited"}
           \/ Check(p)
           \/ \E b \in Buckets : SeeBucket(p, b) \/ MakeBucket(p, b)
           \/ p = "ingestion" /\ (OpenLoop \/ LoopEnds)
<1>1. CASE UNCHANGED vars
  BY <1>1 DEF vars, processes
<1>2. CASE \/ Setup \/ CommandFails \/ Probe
           \/ \E c \in ByHand : Command(c)
           \/ \E s \in Services : Outage(s) \/ Recover(s)
  BY <1>2 DEF Setup, PullAssets, ComposeUp, ComposeWaits, RunMigrations, RunSeedVault,
              RunSeedMetadata, RunSeedPolicies, CommandFails, Probe, Command, Outage, Recover,
              processes
<1>3. CASE RestartApi \/ \E q \in Processes : Restart(q) \/ Crash(q)
  BY <1>3 DEF TypeOK, RestartApi, Restart, Crash, Exit, Reach
<1>4. CASE OpenLoop \/ LoopEnds
  BY <1>4 DEF TypeOK, OpenLoop, LoopEnds, Reach
<1>5. CASE \E q \in Processes : Check(q)
  BY <1>5 DEF TypeOK, Check, Exit, Reach
<1>6. CASE \E q \in Processes, b \in Buckets : SeeBucket(q, b) \/ MakeBucket(q, b)
  BY <1>6 DEF TypeOK, SeeBucket, MakeBucket, Reach
<1> QED
  BY <1>1, <1>2, <1>3, <1>4, <1>5, <1>6 DEF Next, Step

\* A check that is passed without a failure has found what it asks for.
LEMMA CheckFinds ==
    ASSUME IInv, NEW p \in Workers, Check(p)
    PROVE  Found(p)' /\ Passed(p)'
<1>1. CASE GivesUp(p)
  <2>1. pc'[p] = "exited"
    BY <1>1 DEF IInv, TypeOK, Check, Exit, Reach, Workers, Processes
  <2> QED
    BY <2>1 DEF Found, Passed
<1>2. CASE ~GivesUp(p)
  <2>1. /\ pc'[p] = After[p][pc[p]]
        /\ failed' = IF Holds(pc[p]) THEN failed ELSE failed \cup {p}
        /\ buckets' = buckets /\ assets' = assets
        /\ pc[p] \in {"secrets", "authz", "sftp", "assets", "write", "queue"}
    BY <1>2 DEF IInv, TypeOK, Check, Reach, Workers, Processes, prepared
  <2>2. /\ pc[p] = "queue" => p \notin failed /\ Holds("queue")
        /\ pc[p] = "secrets" => Holds("secrets")
        /\ pc[p] = "assets" /\ Holds("assets") => assets
    BY <1>2 DEF GivesUp, Holds
  <2>3. Found(p) /\ Passed(p) /\ pc[p] \in Stops(p)
    BY DEF IInv, TypeOK, Workers, Processes
  <2>4. CASE p = "ingestion"
    BY <2>1, <2>2, <2>3, <2>4, Walk DEF Found, Passed
  <2>5. CASE p = "inference"
    BY <2>1, <2>2, <2>3, <2>5, Walk DEF Found, Passed
  <2> QED
    BY <2>4, <2>5 DEF Workers
<1> QED
  BY <1>1, <1>2

\* A bucket that is passed without a failure is there.
LEMMA BucketFinds ==
    ASSUME IInv, NEW p \in Workers, NEW b \in Buckets, SeeBucket(p, b) \/ MakeBucket(p, b)
    PROVE  Found(p)' /\ Passed(p)'
<1>1. /\ pc[p] \in {b, Makes(b)} /\ assets' = assets
      /\ Found(p)
      /\ buckets \subseteq Buckets
  BY DEF IInv, TypeOK, SeeBucket, MakeBucket, prepared
<1>2. \/ pc'[p] = "write" /\ p \in failed'
      \/ pc'[p] = Makes(b) /\ buckets' = buckets /\ failed' = failed /\ pc[p] = b
      \/ pc'[p] = After[p][b] /\ buckets' = buckets \cup {b} /\ failed' = failed
  BY DEF IInv, TypeOK, SeeBucket, MakeBucket, Reach, Workers, Processes
<1>3. b \in {"originals", "overlays"} /\ p \in {"ingestion", "inference"}
  BY DEF Buckets, Workers
<1>4. /\ After[p]["originals"] = "overlays" /\ After[p]["overlays"] = "write"
      /\ Makes("originals") = "make originals" /\ Makes("overlays") = "make overlays"
  BY <1>3, Walk DEF Makes
<1>5. CASE b = "originals"
  BY <1>1, <1>2, <1>4, <1>5 DEF Found, Passed
<1>6. CASE b = "overlays"
  <2>1. p \notin failed => "originals" \in buckets
    BY <1>1, <1>4, <1>6 DEF Found
  <2>2. p \notin failed => buckets \cup {b} = Buckets
    BY <1>1, <1>6, <2>1 DEF Buckets
  <2> QED
    BY <1>1, <1>2, <1>4, <1>6, <2>1, <2>2 DEF Found, Passed
<1> QED
  BY <1>3, <1>5, <1>6

\* Between the two loops of ingestion nothing is lost.
LEMMA LoopFinds ==
    ASSUME IInv, OpenLoop \/ LoopEnds
    PROVE  Found("ingestion")' /\ Passed("ingestion")'
<1>1. /\ pc["ingestion"] \in {"loop", "up"} /\ pc'["ingestion"] \in {"loop", "up"}
      /\ failed' = failed /\ buckets' = buckets
  BY DEF IInv, TypeOK, OpenLoop, LoopEnds, Reach, Processes
<1>2. Found("ingestion") /\ Passed("ingestion")
  BY DEF IInv, Workers
<1> QED
  BY <1>1, <1>2 DEF Found, Passed

\* Every step preserves the inductive invariant.
LEMMA StepSafe == IInv /\ [Next]_vars => IInv'
<1> SUFFICES ASSUME IInv, [Next]_vars PROVE IInv'
  OBVIOUS
<1>1. TypeOK /\ TypeOK'
  BY StepTyped DEF IInv
<1>2. ASSUME NEW p \in Workers PROVE Found(p)' /\ Passed(p)'
  <2>1. p \in Processes
    BY <1>2 DEF Workers, Processes
  <2>2. CASE pc'[p] = pc[p] /\ (p \in failed' <=> p \in failed)
    BY <1>1, <1>2, <2>2, Kept DEF IInv, Found, Passed
  <2>3. CASE pc'[p] \in {First[p], "exited"}
    BY <1>2, <2>1, <2>3 DEF First, Found, Passed, Workers
  <2>4. CASE Check(p)
    BY <1>2, <2>4, CheckFinds
  <2>5. CASE \E b \in Buckets : SeeBucket(p, b) \/ MakeBucket(p, b)
    BY <1>2, <2>5, BucketFinds
  <2>6. CASE p = "ingestion" /\ (OpenLoop \/ LoopEnds)
    BY <2>6, LoopFinds
  <2> QED
    BY <1>1, <2>1, <2>2, <2>3, <2>4, <2>5, <2>6, OwnStep
<1>3. (pc["ingestion"] = "up" => metadata)'
  <2>1. "ingestion" \in Processes /\ pc["ingestion"] \in Stops("ingestion")
    BY <1>1 DEF Processes, TypeOK
  <2>2. CASE pc'["ingestion"] = pc["ingestion"]
    BY <1>1, <2>2, Kept DEF IInv
  <2>3. CASE OpenLoop \/ LoopEnds
    BY <1>1, <2>3 DEF TypeOK, OpenLoop, LoopEnds, Reach, Processes, prepared
  <2>4. CASE pc'["ingestion"] \in {First["ingestion"], "exited"}
    BY <2>1, <2>4 DEF First
  <2>5. CASE Check("ingestion")
    <3>1. pc'["ingestion"] \in {"exited", After["ingestion"][pc["ingestion"]]}
      BY <1>1, <2>1, <2>5 DEF TypeOK, Check, Exit, Reach
    <3> QED
      BY <2>1, <2>5, <3>1, Walk DEF Check
  <2>6. CASE \E b \in Buckets : SeeBucket("ingestion", b) \/ MakeBucket("ingestion", b)
    <3>1. PICK b \in Buckets : SeeBucket("ingestion", b) \/ MakeBucket("ingestion", b)
      BY <2>6
    <3>2. pc'["ingestion"] \in {"write", Makes(b), After["ingestion"][b]}
      BY <1>1, <2>1, <3>1 DEF TypeOK, SeeBucket, MakeBucket, Reach
    <3>3. b \in {"originals", "overlays"}
      BY DEF Buckets
    <3> QED
      BY <3>2, <3>3, Walk DEF Makes
  <2> QED
    BY <1>1, <2>1, <2>2, <2>3, <2>4, <2>5, <2>6, OwnStep
<1>4. ServingIsAuthorised'
  <2>1. "api" \in Processes /\ pc["api"] \in Stops("api")
    BY <1>1 DEF Processes, TypeOK
  <2>2. CASE pc'["api"] = pc["api"]
    BY <1>1, <2>2, Kept DEF IInv, ServingIsAuthorised
  <2>3. CASE pc'["api"] \in {First["api"], "exited"}
    BY <2>1, <2>3 DEF First, ServingIsAuthorised
  <2>4. CASE Check("api")
    <3>1. \/ pc'["api"] = "exited"
          \/ /\ pc'["api"] = After["api"][pc["api"]]
             /\ pc["api"] = "authz" => Holds("authz")
      BY <1>1, <2>1, <2>4 DEF TypeOK, Check, Exit, Reach, GivesUp
    <3>2. policies' = policies
      BY <2>4 DEF Check, prepared
    <3> QED
      BY <2>1, <2>4, <3>1, <3>2, Walk DEF Check, Holds, Authorised, ServingIsAuthorised
  <2>5. ~ \E b \in Buckets : SeeBucket("api", b) \/ MakeBucket("api", b)
    BY <2>1, Walk DEF SeeBucket, MakeBucket, Makes, Buckets
  <2> QED
    BY <1>1, <2>1, <2>2, <2>3, <2>4, <2>5, OwnStep
<1> QED
  BY <1>1, <1>2, <1>3, <1>4 DEF IInv

\* Nothing is running to begin with.
LEMMA InitSafe == Init => IInv
BY InitTyped DEF Init, IInv, Found, Passed, Workers, Processes, ServingIsAuthorised

\* The inductive invariant holds.
LEMMA Safe == Spec => []IInv
BY InitSafe, StepSafe, PTL DEF Spec

\* Whatever is seeded, restarted or cut off when, the API never serves with a
\* baseline policy missing (startup_authorization.py:18-37).
THEOREM ServingAuthorised == Spec => []ServingIsAuthorised
<1>1. IInv => ServingIsAuthorised
  BY DEF IInv
<1> QED
  BY <1>1, Safe, PTL

\* However the workers meet over the buckets, none works without both, and
\* ingestion never without model metadata (startup_validation.py:76-152).
THEOREM WorkBacked == Spec => []WorkIsBacked
<1>1. IInv => WorkIsBacked
  BY DEF IInv, WorkIsBacked, Found, Passed, Workers
<1> QED
  BY <1>1, Safe, PTL
=============================================================================
