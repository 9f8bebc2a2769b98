------------------------------- MODULE Roles --------------------------------
(***************************************************************************)
(* Accounts, the role rows of Postgres and the role policies of Casbin.    *)
(*                                                                         *)
(* RoleManagementService (app/services/role_management.py) changes both    *)
(* stores of a user's roles: the rows in the session's transaction, the    *)
(* policies through an enforcer that commits each of them at once on a     *)
(* connection of its own.  Only the policies decide what a user may do.    *)
(*                                                                         *)
(* The API is one event loop.  A handler is async without an await, so no  *)
(* other handler runs until it ends, but other requests pass their         *)
(* permission dependency and wait, and what they were granted by may be    *)
(* gone when their own handler runs.  The seeding scripts are processes of *)
(* their own, run one at a time, possibly while the API serves.            *)
(***************************************************************************)
EXTENDS Naturals, Sequences, FiniteSets

CONSTANTS
    Users,       \* e-mail addresses
    Admin,       \* ADMIN_EMAIL, the account of seed_users.py
    Demo,        \* DEMO_USERS, the accounts and roles of seed_demo_users.py
    Operations,  \* the operations requested
    RoleLists,   \* the lists of roles a request names, valid or not
    MaxRequests, \* bound: requests admitted and not yet handled
    Faults,      \* kinds of mishap that may strike
    MaxFaults    \* bound: how many may strike

RoleNames == {"admin", "reviewer", "auditor"}

MishapKinds == {"db", "crash", "seed", "overlap", "repeat", "self"}

ASSUME RolesAssumption ==
    /\ Admin \in Users
    /\ Demo \in Seq([user : Users, roles : SUBSET RoleNames])
    /\ \A i, j \in 1 .. Len(Demo) : Demo[i].user = Demo[j].user => i = j
    /\ Operations \subseteq {"replace", "assign", "revoke", "invite"}
    /\ RoleLists \subseteq Seq(STRING)
    /\ MaxRequests \in Nat /\ MaxFaults \in Nat
    /\ Faults \subseteq MishapKinds

VARIABLES
    account,    \* users: is_active of the committed row
    rows,       \* role_assignments: committed rows with revoked_at null
    policy,     \* casbin_rule: the role policies, user and role
    requests,   \* past the permission dependency, not yet handled
    \* The handler that runs: its step, caller and target, the policies it will
    \* remove, the roles it has yet to grant, and its uncommitted rows.
    pc, by, on, strips, todo, revoked, added,
    \* The seeding script that runs: its step, its place in DEMO_USERS, and
    \* its uncommitted accounts and rows.
    script, turn, created, granted,
    faults, struck

stores == <<account, rows, policy>>
handler == <<pc, by, on, strips, todo, revoked, added>>
seeder == <<script, turn, created, granted>>
mishaps == <<faults, struck>>
vars == <<stores, requests, handler, seeder, mishaps>>

\* The routes of the two services, and the methods that no route calls.
Requests == [op : Operations \cap {"replace", "invite"}, by : Users, on : Users,
             roles : RoleLists]
Calls == [op : Operations \cap {"assign", "revoke"}, by : Users, on : Users,
          roles : {roles \in RoleLists : Len(roles) = 1}]

NoRows == [r \in RoleNames |-> 0]

\* Types only.
TypeOK ==
    /\ account \in [Users -> {"absent", "invited", "active"}]
    /\ rows \in [Users -> [RoleNames -> Nat]]
    /\ policy \subseteq Users \X RoleNames
    /\ requests \subseteq Requests
    /\ pc \in {"idle", "strip", "grant", "commit"}
    /\ by \in Users /\ on \in Users
    /\ strips \subseteq RoleNames /\ todo \in Seq(RoleNames)
    /\ revoked \in [RoleNames -> Nat] /\ added \in [RoleNames -> Nat]
    /\ script \in {"none", "users", "assign", "demo", "sync", "commit"}
    /\ turn \in Nat
    /\ created \subseteq Users /\ granted \subseteq Users \X RoleNames
    /\ faults \in 0 .. MaxFaults /\ struck \subseteq Faults

\* A migrated database without accounts; by and on mean nothing while idle.
Init ==
    /\ account = [u \in Users |-> "absent"]
    /\ rows = [u \in Users |-> NoRows]
    /\ policy = {} /\ requests = {}
    /\ pc = "idle" /\ by = Admin /\ on = Admin
    /\ strips = {} /\ todo = <<>> /\ revoked = NoRows /\ added = NoRows
    /\ script = "none" /\ turn = 1 /\ created = {} /\ granted = {}
    /\ faults = 0 /\ struck = {}

Strike(kinds) ==
    /\ kinds \subseteq Faults /\ faults + Cardinality(kinds) <= MaxFaults
    /\ faults' = faults + Cardinality(kinds)
    /\ struck' = struck \cup kinds

-----------------------------------------------------------------------------
(* Casbin: what the roles allow, and who has them.                         *)

Baseline ==
    {<<"admin", "users.manage">>, <<"admin", "roles.manage">>,
     <<"admin", "audit_logs.read">>, <<"admin", "batches.read">>,
     <<"admin", "predictions.read">>, <<"admin", "predictions.relabel">>,
     <<"reviewer", "batches.read">>, <<"reviewer", "predictions.read">>,
     <<"reviewer", "predictions.relabel">>,
     <<"auditor", "batches.read">>, <<"auditor", "predictions.read">>,
     <<"auditor", "audit_logs.read">>}

\* The policies are loaded afresh for each question.
Can(u, permission) ==
    \E r \in RoleNames : <<u, r>> \in policy /\ <<r, permission>> \in Baseline

\* Those who can change roles: current_active_user admits active accounts only.
Managers == {u \in Users : account[u] = "active" /\ Can(u, "roles.manage")}

\* Mutant: removing a user's roles reports success and stores nothing.
NothingRemoved(u, gone) == policy

\* Mutant: the filter is applied to the role's field.
RemovedFromAll(u, gone) == {g \in policy : g[2] \notin gone}

WithoutRoles(u, gone) == policy \ ({u} \X gone)

WithRole(u, r) == policy \cup {<<u, r>>}

-----------------------------------------------------------------------------
(* Accounts.                                                               *)

\* An address that a seeding script has inserted, not yet committed, makes
\* another insertion of it wait.
Free(u) == account[u] = "absent" /\ u \notin created

\* POST /auth/register: anyone, for an address not taken.
Register(u) ==
    /\ pc = "idle" /\ Free(u)
    /\ account' = [account EXCEPT ![u] = "active"]
    /\ UNCHANGED <<rows, policy, requests, handler, seeder, mishaps>>

\* The dependency of a route: an active account with the permission.
Admit(req) ==
    /\ pc = "idle"
    /\ Cardinality(requests) < MaxRequests
    /\ account[req.by] = "active"
    /\ Can(req.by, IF req.op = "invite" THEN "users.manage" ELSE "roles.manage")
    /\ IF req.op = "invite" THEN req.roles = <<>> ELSE account[req.on] # "absent"
    /\ requests' = requests \cup {req}
    /\ UNCHANGED <<stores, handler, seeder, mishaps>>

\* invite_user asks for no permission again; a failed commit leaves either state.
InviteUser(req) ==
    /\ pc = "idle" /\ req.op = "invite"
    /\ requests' = requests \ {req}
    /\ IF account[req.on] = "absent"
       THEN Free(req.on) /\ account' = [account EXCEPT ![req.on] = "invited"]
       ELSE UNCHANGED account
    /\ UNCHANGED <<rows, policy, handler, seeder, mishaps>>

-----------------------------------------------------------------------------
(* RoleManagementService.                                                  *)

\* Mutant: the permission dependency of the route is taken to be enough.
AdmittedIsEnough(u) == TRUE

\* _require_admin, in the handler.
RequireAdmin(u) == Can(u, "roles.manage")

Valid(req) == \A i \in 1 .. Len(req.roles) : req.roles[i] \in RoleNames

\* The policies the request removes: every role, one role, or none.
RolesStripped(req) ==
    IF req.op = "replace" THEN RoleNames
    ELSE IF req.op = "revoke" THEN {req.roles[1]} ELSE {}

\* Mutant: a row of every role is taken for active.
RowsNamed(req) ==
    IF req.op = "assign" THEN NoRows
    ELSE [r \in RoleNames |-> IF r \in RolesStripped(req) THEN 1 ELSE 0]

\* The rows the request revokes; revoke_role takes one row of several.
RowsRevoked(req) ==
    IF req.op = "replace" THEN rows[req.on]
    ELSE [r \in RoleNames |-> IF r \in RolesStripped(req) THEN 1 ELSE 0]

\* assign_role needs no row of the role, revoke_role at least one.
Applies(req) ==
    /\ RequireAdmin(req.by) /\ Valid(req)
    /\ req.op = "assign" => rows[req.on][req.roles[1]] = 0
    /\ req.op = "revoke" => rows[req.on][req.roles[1]] > 0

Repeats(roles) == \E i, j \in 1 .. Len(roles) : i # j /\ roles[i] = roles[j]

\* What the methods that no route calls may be asked, by an authenticated caller.
DirectCalls == {req \in Calls : account[req.by] = "active" /\ account[req.on] # "absent"}

\* The mishaps that a request brings along by itself.
Oddities(req) ==
    (IF script # "none" THEN {"overlap"} ELSE {})
    \cup (IF req.op = "replace" /\ Repeats(req.roles) THEN {"repeat"} ELSE {})
    \cup (IF req.by = req.on THEN {"self"} ELSE {})

\* The checks, and the rows of the target read and revoked in the transaction.
Begin(req) ==
    /\ pc = "idle" /\ req.op # "invite"
    /\ Applies(req)
    /\ Strike(Oddities(req))
    /\ requests' = requests \ {req}
    /\ pc' = IF req.op = "assign" THEN "grant" ELSE "strip"
    /\ by' = req.by /\ on' = req.on
    /\ strips' = RolesStripped(req)
    /\ todo' = IF req.op = "revoke" THEN <<>> ELSE req.roles
    /\ revoked' = RowsRevoked(req)
    /\ added' = NoRows
    /\ UNCHANGED <<stores, seeder>>

\* Permission denied, an invalid role, nothing to revoke, or more than one row
\* where has_active_role expects one: no effect.
Refuse(req) ==
    /\ pc = "idle" /\ req.op # "invite"
    /\ ~Applies(req)
    /\ req.op = "assign" => ~(RequireAdmin(req.by) /\ Valid(req)
                               /\ rows[req.on][req.roles[1]] = 1)
    /\ requests' = requests \ {req}
    /\ UNCHANGED <<stores, handler, seeder, mishaps>>

\* assign_role of an active role: the policy again, and no commit.
AssignAgain(req) ==
    /\ pc = "idle" /\ req.op = "assign"
    /\ RequireAdmin(req.by) /\ Valid(req) /\ rows[req.on][req.roles[1]] = 1
    /\ Strike(Oddities(req))
    /\ requests' = requests \ {req}
    /\ policy' = WithRole(req.on, req.roles[1])
    /\ UNCHANGED <<account, rows, handler, seeder>>

Pending(rest) == IF rest = <<>> THEN "commit" ELSE "grant"

\* Mutant: only the roles that the rows show are taken out of Casbin.
StripRecorded ==
    /\ pc = "strip"
    /\ policy' = WithoutRoles(on, {r \in strips : rows[on][r] > 0})
    /\ pc' = Pending(todo)
    /\ UNCHANGED <<account, rows, requests, by, on, strips, todo, revoked, added,
                   seeder, mishaps>>

Strip ==
    /\ pc = "strip"
    /\ policy' = WithoutRoles(on, strips)
    /\ pc' = Pending(todo)
    /\ UNCHANGED <<account, rows, requests, by, on, strips, todo, revoked, added,
                   seeder, mishaps>>

Grant ==
    /\ pc = "grant"
    /\ policy' = WithRole(on, Head(todo))
    /\ added' = [added EXCEPT ![Head(todo)] = @ + 1]
    /\ todo' = Tail(todo)
    /\ pc' = Pending(todo')
    /\ UNCHANGED <<account, rows, requests, by, on, strips, revoked, seeder, mishaps>>

\* What the target's rows are once the transaction commits.
RowsCommitted == [r \in RoleNames |-> (rows[on][r] - revoked[r]) + added[r]]

\* The handler and its session end.
End ==
    /\ pc' = "idle"
    /\ strips' = {} /\ todo' = <<>> /\ revoked' = NoRows /\ added' = NoRows
    /\ by' = Admin /\ on' = Admin

\* The commit takes the audit event along; the cache keys go after it.
CommitRoles ==
    /\ pc = "commit"
    /\ rows' = [rows EXCEPT ![on] = RowsCommitted]
    /\ End
    /\ UNCHANGED <<account, policy, requests, seeder, mishaps>>

\* The step under way is done or not when the handler is cut off at it.
CutOff ==
    /\ \/ UNCHANGED <<rows, policy>>
       \/ pc = "strip" /\ policy' = WithoutRoles(on, strips) /\ UNCHANGED rows
       \/ pc = "grant" /\ policy' = WithRole(on, Head(todo)) /\ UNCHANGED rows
       \/ pc = "commit" /\ rows' = [rows EXCEPT ![on] = RowsCommitted] /\ UNCHANGED policy
    /\ End

\* A flush, an enforcer's write or the commit raises: get_session rolls back.
HandlerFails ==
    /\ pc # "idle"
    /\ Strike({"db"})
    /\ CutOff
    /\ UNCHANGED <<account, requests, seeder>>

\* The API process dies and is started again.
ApiDies ==
    /\ Strike({"crash"})
    /\ CutOff
    /\ requests' = {}
    /\ UNCHANGED <<account, seeder>>

-----------------------------------------------------------------------------
(* seed_users.py: the rows are committed, then the policy is added.        *)

SeedStarts(first) ==
    /\ script = "none"
    /\ IF pc = "idle" THEN UNCHANGED mishaps ELSE Strike({"overlap"})
    /\ script' = first
    /\ UNCHANGED <<stores, requests, handler>>

\* Nothing is done for an account that exists.
SeedUsers ==
    /\ account[Admin] = "absent"
    /\ SeedStarts("users")
    /\ created' = {Admin} /\ granted' = {<<Admin, "admin">>}
    /\ UNCHANGED turn

\* The transaction of either script.
SeedCommitted ==
    /\ account' = [u \in Users |-> IF u \in created THEN "active" ELSE account[u]]
    /\ rows' = [u \in Users |-> [r \in RoleNames |->
                   IF <<u, r>> \in granted THEN rows[u][r] + 1 ELSE rows[u][r]]]
    /\ created' = {} /\ granted' = {}

SeedUsersCommits ==
    /\ script = "users"
    /\ SeedCommitted
    /\ script' = "assign"
    /\ UNCHANGED <<policy, requests, handler, turn, mishaps>>

SeedUsersAssigns ==
    /\ script = "assign"
    /\ policy' = WithRole(Admin, "admin")
    /\ script' = "none"
    /\ UNCHANGED <<account, rows, requests, handler, turn, created, granted, mishaps>>

-----------------------------------------------------------------------------
(* seed_demo_users.py: one transaction for all, the policies as it goes.   *)

SeedDemo ==
    /\ Len(Demo) > 0
    /\ SeedStarts("demo")
    /\ turn' = 1
    /\ UNCHANGED <<created, granted>>

\* Mutant: a role is added to an account without a look at its rows.
AllDemoRoles(d) == {<<d.user, r>> : r \in d.roles}

\* _ensure_role for each role of the list.
MissingRoles(d) == {<<d.user, r>> : r \in {s \in d.roles : rows[d.user][s] = 0}}

\* More than one row of a role raises MultipleResultsFound.
DemoReads ==
    /\ script = "demo"
    /\ LET d == Demo[turn]
       IN  /\ \A r \in d.roles : rows[d.user][r] <= 1
           /\ created' = IF account[d.user] = "absent" THEN created \cup {d.user} ELSE created
           /\ granted' = granted \cup MissingRoles(d)
    /\ script' = "sync"
    /\ UNCHANGED <<stores, requests, handler, turn, mishaps>>

\* Mutant: only the roles whose row was missing are told to Casbin.
SyncAdded(d) == policy \cup {g \in granted : g[1] = d.user}

\* Every role of the list is told to Casbin.
SyncAll(d) == policy \cup {<<d.user, r>> : r \in d.roles}

DemoSyncs ==
    /\ script = "sync"
    /\ policy' = SyncAll(Demo[turn])
    /\ IF turn < Len(Demo)
       THEN turn' = turn + 1 /\ script' = "demo"
       ELSE turn' = 1 /\ script' = "commit"
    /\ UNCHANGED <<account, rows, requests, handler, created, granted, mishaps>>

DemoCommits ==
    /\ script = "commit"
    /\ SeedCommitted
    /\ script' = "none"
    /\ UNCHANGED <<policy, requests, handler, turn, mishaps>>

\* The script ends without a commit.  An account it had inserted never existed,
\* and a policy for the identifier of that account is nobody's.
SeedGivesUp ==
    /\ script' = "none" /\ turn' = 1 /\ created' = {} /\ granted' = {}
    /\ policy' = {g \in policy : g[1] \notin created}
    /\ UNCHANGED <<account, rows, requests, handler>>

DemoStumbles ==
    /\ script = "demo"
    /\ \E r \in Demo[turn].roles : rows[Demo[turn].user][r] > 1
    /\ SeedGivesUp
    /\ UNCHANGED mishaps

\* It is killed, or a statement fails.
SeedDies ==
    /\ script # "none"
    /\ Strike({"seed"})
    /\ SeedGivesUp

-----------------------------------------------------------------------------
Serve ==
    \/ \E u \in Users : Register(u)
    \/ \E req \in Requests : Admit(req)
    \/ \E req \in requests : InviteUser(req)
    \/ \E req \in requests \cup DirectCalls : Begin(req) \/ Refuse(req) \/ AssignAgain(req)
    \/ Strip \/ Grant \/ CommitRoles \/ HandlerFails

Seed ==
    \/ SeedUsers \/ SeedUsersCommits \/ SeedUsersAssigns
    \/ SeedDemo \/ DemoReads \/ DemoSyncs \/ DemoCommits \/ DemoStumbles
    \/ SeedDies

Next == Serve \/ ApiDies \/ Seed

Spec == Init /\ [][Next]_vars

-----------------------------------------------------------------------------
(* What role management promises.                                          *)

Agree(u) == \A r \in RoleNames : <<u, r>> \in policy <=> rows[u][r] > 0

\* Nothing is being done to the roles of the user.
Settled(u) == (pc # "idle" => on # u) /\ script = "none"

\* The two stores of a user's roles say the same, as long as nothing fails,
\* no script runs into a handler and no request lists a role twice
\* (role_management.py:183-204, seed_users.py:58-62).
StoresAgree ==
    struck \subseteq {"self"} => \A u \in Users : Settled(u) => Agree(u)

\* No role is active twice (data-model.md:36), whatever fails, unless a request
\* lists it twice or a script that looked before a handler's commit inserts after it.
NoDuplicateRoles ==
    struck \cap {"overlap", "repeat"} = {} =>
        \A u \in Users : \A r \in RoleNames : rows[u][r] <= 1

\* Managers cannot end up without any, two who revoke each other included,
\* unless one changes roles of their own (role_management.py:179, :183-184).
ManagersRemain ==
    [][Managers # {} /\ "self" \notin struck' => Managers' # {}]_vars

\* A manager whose role is gone when the handler of an admitted request runs
\* changes no roles (dependencies.py:31, role_management.py:179).
RevokedManagersAreStopped ==
    [][rows' # rows /\ pc # "idle" /\ pc' = "idle" => by \in Managers \/ by = on]_vars

\* A replacement that succeeds repairs what an earlier failure left behind.
ReplacementRepairs ==
    [][\A u \in Users :
         CommitRoles /\ on = u /\ strips = RoleNames /\ "overlap" \notin struck
             => Agree(u)']_vars

\* A run of the demo seeding that completes gives a listed role its policy back,
\* also when only the row had survived (seed_demo_users.py:91-95).
DemoSeedRestores ==
    [][DemoCommits /\ "overlap" \notin struck =>
         \A i \in 1 .. Len(Demo) : \A r \in Demo[i].roles :
             <<Demo[i].user, r>> \in policy' /\ rows'[Demo[i].user][r] > 0]_vars

-----------------------------------------------------------------------------
(* Role management as its callers see it, between handlers.                *)

\* May the stores have come apart: a mishap other than a change of one's own
\* roles has struck.
MayDiffer == ~(struck \subseteq {"self"})

\* The roles of a user.  A handler that nothing has disturbed changes them by
\* its commit; before it, they are what the rows still say.
RolesOf(u) ==
    IF account[u] = "absent" THEN {}
    ELSE IF pc # "idle" /\ on = u /\ ~MayDiffer
         THEN {r \in RoleNames : rows[u][r] > 0}
         ELSE {r \in RoleNames : <<u, r>> \in policy}

InForce == [u \in Users |-> RolesOf(u)]

\* ADMIN_EMAIL and DEMO_USERS: the roles that the scripts give a user.
ListedRoles ==
    [u \in Users |->
        {r \in RoleNames :
           \/ u = Admin /\ r = "admin"
           \/ \E i \in 1 .. Len(Demo) : Demo[i].user = u /\ r \in Demo[i].roles}]

Acc == INSTANCE Access WITH
    Names <- RoleNames, Listed <- ListedRoles, roles <- InForce, torn <- MayDiffer

\* What Casbin answers between two handlers changes as if the handlers were
\* single steps of somebody who manages roles when the step is taken, though
\* the permission was asked for earlier, the policies are written one by one,
\* and the rows are committed last (role_management.py:164, :179, :183-204).
ImplementsAccess == Acc!Spec
=============================================================================
