------------------------------ MODULE Startup -------------------------------
(***************************************************************************)
(* How the system comes up.  `make setup` (or the steps of the runbook by  *)
(* hand) starts the API and the two workers and then prepares what they    *)
(* need; each process checks what it finds and ends itself when something  *)
(* is missing (app/services/startup_validation.py).  The workers are       *)
(* started again by their restart policy, the API is not.                  *)
(*                                                                         *)
(* The checks of a worker run one after another while the other processes  *)
(* run theirs, so a bucket that was missing may be there by the time it is *)
(* made.  Services go away and come back, and Vault comes back empty: dev  *)
(* mode keeps the secrets in memory.                                       *)
(***************************************************************************)
EXTENDS Naturals, FiniteSets

CONSTANTS
    Services,   \* what the processes connect to
    Secrets,    \* REQUIRED_SECRETS, the paths in Vault
    Unread,     \* paths that apply_vault_secrets does not read
    Policies,   \* number of BASELINE_POLICIES
    ByHand,     \* commands the operator may give besides the setup
    Faults,     \* kinds of fault that may strike
    MaxFaults   \* bound: how many may strike

Commands == {"vault", "metadata", "policies", "restart"}

ASSUME StartupAssumption ==
    /\ {"postgres", "redis", "minio", "vault", "sftp"} \subseteq Services
    /\ Unread \subseteq Secrets
    /\ Policies \in Nat \ {0} /\ MaxFaults \in Nat
    /\ ByHand \subseteq Commands
    /\ Faults \subseteq {"outage", "crash", "command"}

VARIABLES
    reachable,  \* services that answer
    assets,     \* classifier.pt and model_card.json are there and fit
    vault,      \* paths written
    migrated,   \* the schema is at head
    metadata,   \* model_metadata has a row
    policies,   \* baseline policies committed, in their order
    buckets,    \* buckets in MinIO
    stage,      \* the command of the setup that comes next
    pc,         \* each process's next check, or what has become of it
    failed,     \* processes one of whose checks has failed
    faults

prepared == <<assets, vault, migrated, metadata, policies>>
processes == <<pc, failed>>
vars == <<reachable, prepared, buckets, stage, processes, faults>>

Processes == {"api", "ingestion", "inference"}
Workers == {"ingestion", "inference"}
Buckets == {"originals", "overlays"}

\* The order of each process's checks, up to where it serves.
After == [
    api |-> [secrets |-> "authz", authz |-> "up"],
    ingestion |-> [secrets |-> "sftp", sftp |-> "originals", originals |-> "overlays",
                   overlays |-> "write", write |-> "queue", queue |-> "loop", loop |-> "up"],
    inference |-> [assets |-> "originals", originals |-> "overlays", overlays |-> "write",
                   write |-> "queue", queue |-> "secrets", secrets |-> "up"]]

First == [p \in Processes |-> IF p = "inference" THEN "assets" ELSE "secrets"]

\* Where a process may be found.
Stops(p) ==
    {"new", "exited", "up"} \cup DOMAIN After[p]
        \cup (IF p \in Workers THEN {"make originals", "make overlays"} ELSE {})

Stages == {"lfs", "up", "wait", "migrate", "vault", "metadata", "policies", "done", "aborted"}

\* Types only.
TypeOK ==
    /\ reachable \subseteq Services
    /\ vault \subseteq Secrets
    /\ assets \in BOOLEAN /\ migrated \in BOOLEAN /\ metadata \in BOOLEAN
    /\ policies \in 0 .. Policies
    /\ buckets \subseteq Buckets
    /\ stage \in Stages
    /\ pc \in [Processes -> UNION {Stops(p) : p \in Processes}]
    /\ \A p \in Processes : pc[p] \in Stops(p)
    /\ failed \subseteq Processes
    /\ faults \in 0 .. MaxFaults

\* Fresh volumes and a fresh clone.
Init ==
    /\ reachable = Services
    /\ assets = FALSE /\ vault = {} /\ migrated = FALSE /\ metadata = FALSE /\ policies = 0
    /\ buckets = {}
    /\ stage = "lfs"
    /\ pc = [p \in Processes |-> "new"] /\ failed = {}
    /\ faults = 0

Strike(kind) ==
    /\ kind \in Faults /\ faults < MaxFaults
    /\ faults' = faults + 1

-----------------------------------------------------------------------------
(* The commands.                                                           *)

Migrate == migrated' = TRUE /\ UNCHANGED <<assets, vault, metadata, policies>>

\* Every path is written, whatever is there already.
SeedVault == vault' = Secrets /\ UNCHANGED <<assets, migrated, metadata, policies>>

\* A path that cannot be written does not keep the script from the next.
SeedVaultPartly ==
    /\ \E S \in SUBSET Secrets : vault' = vault \cup S
    /\ UNCHANGED <<assets, migrated, metadata, policies>>

SeedMetadata == metadata' = TRUE /\ UNCHANGED <<assets, vault, migrated, policies>>

\* Mutant: a policy is added whether it is there or not.
AddAgain == policies' = policies + 1 /\ UNCHANGED <<assets, vault, migrated, metadata>>

\* seed_baseline_policies: each policy is a commit of its own.
AddPolicy ==
    /\ policies < Policies
    /\ policies' = policies + 1
    /\ UNCHANGED <<assets, vault, migrated, metadata>>

\* A command given by hand needs its service and, but for Vault's, the schema.
Command(c) ==
    /\ c \in ByHand /\ stage \notin {"lfs", "up"}
    /\ \/ c = "vault" /\ "vault" \in reachable /\ SeedVault
       \/ c = "metadata" /\ "postgres" \in reachable /\ migrated /\ SeedMetadata
       \/ c = "policies" /\ "postgres" \in reachable /\ migrated /\ AddPolicy
    /\ UNCHANGED <<reachable, buckets, stage, processes, faults>>

\* docker compose restart api.
RestartApi ==
    /\ "restart" \in ByHand /\ pc["api"] \in {"up", "exited"}
    /\ pc' = [pc EXCEPT !["api"] = First["api"]]
    /\ UNCHANGED <<reachable, prepared, buckets, stage, failed, faults>>

-----------------------------------------------------------------------------
(* make setup.                                                             *)

GoOn(next) == stage' = next /\ UNCHANGED <<reachable, buckets, faults>>

PullAssets ==
    /\ stage = "lfs"
    /\ assets' = TRUE
    /\ GoOn("up")
    /\ UNCHANGED <<vault, migrated, metadata, policies, processes>>

\* docker compose up -d: every process depends on healthy services only.
ComposeUp ==
    /\ stage = "up" /\ reachable = Services
    /\ pc' = First
    /\ GoOn("wait")
    /\ UNCHANGED <<prepared, failed>>

\* The frontend depends on a healthy API, and compose waits for it.  Without one
\* it fails: make stops there, whoever follows the runbook goes on.
ComposeWaits ==
    /\ stage = "wait" /\ pc["api"] \in {"up", "exited"}
    /\ \/ GoOn("migrate")
       \/ pc["api"] = "exited" /\ GoOn("aborted")
    /\ UNCHANGED <<prepared, processes>>

RunMigrations ==
    /\ stage = "migrate" /\ "postgres" \in reachable
    /\ Migrate /\ GoOn("vault")
    /\ UNCHANGED processes

RunSeedVault ==
    /\ stage = "vault" /\ "vault" \in reachable
    /\ SeedVault /\ GoOn("metadata")
    /\ UNCHANGED processes

RunSeedMetadata ==
    /\ stage = "metadata" /\ "postgres" \in reachable
    /\ SeedMetadata /\ GoOn("policies")
    /\ UNCHANGED processes

\* Mutant: any policy will do.
SeedOnePolicy ==
    /\ stage = "policies" /\ "postgres" \in reachable
    /\ IF policies = 0 THEN AddPolicy /\ GoOn("policies")
       ELSE GoOn("done") /\ UNCHANGED prepared
    /\ UNCHANGED processes

RunSeedPolicies ==
    /\ stage = "policies" /\ "postgres" \in reachable
    /\ IF policies < Policies THEN AddPolicy /\ GoOn("policies")
       ELSE GoOn("done") /\ UNCHANGED prepared
    /\ UNCHANGED processes

\* A command fails, with what it has committed by then, and make stops.
CommandFails ==
    /\ stage \in {"migrate", "vault", "metadata", "policies"}
    /\ Strike("command")
    /\ stage' = "aborted"
    /\ IF stage = "vault" THEN SeedVaultPartly ELSE UNCHANGED prepared
    /\ UNCHANGED <<reachable, buckets, processes>>

Setup ==
    \/ PullAssets \/ ComposeUp \/ ComposeWaits \/ RunMigrations
    \/ RunSeedVault \/ RunSeedMetadata \/ RunSeedPolicies

-----------------------------------------------------------------------------
(* The checks of a process.                                                *)

\* Mutant: whatever the seeding has committed so far is enough.
TableNotEmpty == "postgres" \in reachable /\ migrated /\ policies > 0

\* validate_authorization_startup: the table, and every baseline policy in it.
Authorised == "postgres" \in reachable /\ migrated /\ policies = Policies

\* apply_vault_secrets, which raises at the first path that is missing.
SecretsRead == "vault" \in reachable /\ Secrets \ Unread \subseteq vault

\* What each check asks for; the writable check uploads to originals.
Holds(check) ==
    \/ check = "secrets" /\ SecretsRead
    \/ check = "authz" /\ Authorised
    \/ check = "sftp" /\ "sftp" \in reachable
    \/ check = "assets" /\ assets
    \/ check = "write" /\ "minio" \in reachable /\ "originals" \in buckets
    \/ check = "queue" /\ "redis" \in reachable

Reach(p, step) == pc' = [pc EXCEPT ![p] = step]

Exit(p) == Reach(p, "exited") /\ failed' = failed \ {p}

\* Where a process gives up: secrets and policies raise at once, what else fails
\* in a worker is collected until after the last of the collected checks.
GivesUp(p) ==
    \/ pc[p] \in {"secrets", "authz"} /\ ~Holds(pc[p])
    \/ pc[p] = "queue" /\ (p \in failed \/ ~Holds("queue"))

\* Mutant: the last check decides.
CheckLast(p) ==
    /\ pc[p] \in {"secrets", "authz", "sftp", "assets", "write", "queue"}
    /\ IF GivesUp(p) THEN Exit(p)
       ELSE /\ Reach(p, After[p][pc[p]])
            /\ failed' = IF Holds(pc[p]) THEN failed \ {p} ELSE failed \cup {p}
    /\ UNCHANGED <<reachable, prepared, buckets, stage, faults>>

Check(p) ==
    /\ pc[p] \in {"secrets", "authz", "sftp", "assets", "write", "queue"}
    /\ IF GivesUp(p) THEN Exit(p)
       ELSE /\ Reach(p, After[p][pc[p]])
            /\ failed' = IF Holds(pc[p]) THEN failed ELSE failed \cup {p}
    /\ UNCHANGED <<reachable, prepared, buckets, stage, faults>>

Makes(b) == IF b = "originals" THEN "make originals" ELSE "make overlays"

\* bucket_exists; without MinIO the check of both buckets has failed.
SeeBucket(p, b) ==
    /\ pc[p] = b
    /\ IF "minio" \notin reachable THEN Reach(p, "write") /\ failed' = failed \cup {p}
       ELSE IF b \in buckets THEN Reach(p, After[p][b]) /\ UNCHANGED failed
       ELSE Reach(p, Makes(b)) /\ UNCHANGED failed
    /\ UNCHANGED <<reachable, prepared, buckets, stage, faults>>

\* make_bucket of a bucket that another process has made meanwhile raises
\* BucketAlreadyOwnedByYou, and the check has failed.
MakeBucket(p, b) ==
    /\ pc[p] = Makes(b)
    /\ IF "minio" \in reachable /\ b \notin buckets
       THEN buckets' = buckets \cup {b} /\ Reach(p, After[p][b]) /\ UNCHANGED failed
       ELSE UNCHANGED buckets /\ Reach(p, "write") /\ failed' = failed \cup {p}
    /\ UNCHANGED <<reachable, prepared, stage, faults>>

\* Head of the ingestion worker's outer loop: without SFTP, database or model
\* metadata it sleeps and tries again.
OpenLoop ==
    /\ pc["ingestion"] = "loop"
    /\ {"sftp", "postgres"} \subseteq reachable /\ migrated /\ metadata
    /\ Reach("ingestion", "up")
    /\ UNCHANGED <<reachable, prepared, buckets, stage, failed, faults>>

\* The inner loop raises, and the worker is back at the outer one.
LoopEnds ==
    /\ pc["ingestion"] = "up"
    /\ Strike("outage")
    /\ Reach("ingestion", "loop")
    /\ UNCHANGED <<reachable, prepared, buckets, stage, failed>>

\* run_api_readiness_checks finds nothing: unlike the API's own start it asks for
\* Redis, MinIO and every secret, also those nobody reads.
Ready ==
    /\ {"postgres", "redis", "minio", "vault"} \subseteq reachable
    /\ vault = Secrets /\ Authorised

\* GET /health/ready: of all its checks only that of the buckets writes.
Probe ==
    /\ pc["api"] = "up" /\ "minio" \in reachable
    /\ buckets' = Buckets
    /\ UNCHANGED <<reachable, prepared, stage, processes, faults>>

\* Mutant: the workers have the API's restart policy, none.
RestartNone(p) == FALSE /\ UNCHANGED vars

\* restart: unless-stopped.
Restart(p) ==
    /\ p \in Workers /\ pc[p] = "exited"
    /\ Reach(p, First[p])
    /\ UNCHANGED <<reachable, prepared, buckets, stage, failed, faults>>

Crash(p) ==
    /\ pc[p] \notin {"new", "exited"}
    /\ Strike("crash")
    /\ Exit(p)
    /\ UNCHANGED <<reachable, prepared, buckets, stage>>

Outage(s) ==
    /\ s \in reachable /\ stage \notin {"lfs", "up"}
    /\ Strike("outage")
    /\ reachable' = reachable \ {s}
    /\ vault' = IF s = "vault" THEN {} ELSE vault
    /\ UNCHANGED <<assets, migrated, metadata, policies, buckets, stage, processes>>

Recover(s) ==
    /\ s \in Services \ reachable
    /\ reachable' = reachable \cup {s}
    /\ UNCHANGED <<prepared, buckets, stage, processes, faults>>

-----------------------------------------------------------------------------
Step(p) ==
    \/ Check(p)
    \/ \E b \in Buckets : SeeBucket(p, b) \/ MakeBucket(p, b)
    \/ p = "ingestion" /\ OpenLoop

Next ==
    \/ Setup \/ CommandFails
    \/ \E c \in ByHand : Command(c)
    \/ RestartApi \/ Probe \/ LoopEnds
    \/ \E p \in Processes : Step(p) \/ Restart(p) \/ Crash(p)
    \/ \E s \in Services : Outage(s) \/ Recover(s)

Spec == Init /\ [][Next]_vars

\* A started process goes through its checks, docker restarts the workers, and
\* the operator's setup goes on from one command to the next.
Fairness ==
    /\ WF_vars(Setup)
    /\ \A p \in Processes : WF_vars(Step(p)) /\ WF_vars(Restart(p))

FairSpec == Spec /\ Fairness

-----------------------------------------------------------------------------
(* What starting up promises.                                              *)

\* All that the processes look for is there.
Provisioned ==
    /\ reachable = Services
    /\ assets /\ SecretsRead /\ migrated /\ metadata /\ policies = Policies

\* An API that serves has all its baseline policies, even if the seeding was cut
\* off or still runs when it starts (startup_authorization.py:18-37).
ServingIsAuthorised == pc["api"] = "up" => policies = Policies

\* A worker at work has both buckets, whoever made them and whatever failed, and
\* ingestion a model to name in its messages (ingestion_worker.py:254-261).
WorkIsBacked ==
    /\ pc["inference"] = "up" => buckets = Buckets /\ assets
    /\ pc["ingestion"] \in {"loop", "up"} => buckets = Buckets
    /\ pc["ingestion"] = "up" => metadata

\* However often they fail before that, on each other's buckets too, both workers
\* come up once everything is in place and stays so (RUNBOOK.md:27-41).
WorkersComeUp ==
    <>[]Provisioned => \A p \in Workers : <>[](pc[p] = "up")

\* The setup leaves nothing out that the API checks, at its start or when it is
\* asked for its readiness: short of a fault, an API started after the setup comes
\* up ready, whether the workers are up or not (RUNBOOK.md:90).
ApiComesUp ==
    stage = "done" /\ pc["api"] = First["api"] /\ faults = 0
        ~> (pc["api"] = "up" /\ Ready) \/ faults > 0

\* "Setup complete" (Makefile:24), "When complete, the API is live" (RUNBOOK.md:49).
SetupServes == stage = "done" ~> pc["api"] = "up"
=============================================================================
