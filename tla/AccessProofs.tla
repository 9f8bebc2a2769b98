---------------------------- MODULE AccessProofs -----------------------------
(***************************************************************************)
(* Role management and review, proved for any users, role lists, requests  *)
(* and faults.  The database and the Casbin store are compared step by     *)
(* step, with a handler or a seeding script under way between them.        *)
(***************************************************************************)
EXTENDS Review, FiniteSetTheorems, SequenceTheorems, TLAPS

-----------------------------------------------------------------------------
(* The invariant that the others rest on.                                  *)

\* The handler that runs, as its permission check has let it through.
HandlerOK ==
    /\ pc = "grant" => todo # <<>>
    /\ pc \in {"idle", "commit"} => todo = <<>>
    /\ pc # "idle" =>
          /\ account[by] = "active" /\ account[on] # "absent"
          /\ \A r \in RoleNames : revoked[r] <= rows[on][r]
          /\ by # on => by \in Managers
          /\ by = on => "self" \in struck
          /\ script # "none" => "overlap" \in struck

\* The script that runs, and what it has not committed yet.
ScriptOK ==
    /\ script \in {"demo", "sync"} => turn \in 1 .. Len(Demo)
    /\ script \in {"none", "assign"} => created = {} /\ granted = {}
    /\ script = "users" => created = {Admin} /\ granted = {<<Admin, "admin">>}
    /\ \A u \in created : account[u] = "absent"
    /\ \A g \in granted : g[1] \in created \/ account[g[1]] # "absent"

\* Nobody has roles before an account; whoever asks has an active one.
AccountsOK ==
    /\ \A u \in Users : account[u] = "absent" => \A r \in RoleNames : rows[u][r] = 0
    /\ \A req \in requests : /\ account[req.by] = "active"
                             /\ req.op # "invite" => account[req.on] # "absent"

Base == TypeOK /\ HandlerOK /\ ScriptOK /\ AccountsOK

-----------------------------------------------------------------------------
(* What the steps do, in the terms of the invariant.                       *)

\* The kinds of mishap are few, so what one step strikes can be counted.
LEMMA MishapsFinite == ASSUME NEW K, K \subseteq Faults PROVE Cardinality(K) \in Nat
<1>1. IsFiniteSet(MishapKinds)
  <2>1. IsFiniteSet({"db"} \cup ({"crash"} \cup ({"seed"} \cup ({"overlap"} \cup ({"repeat"} \cup {"self"})))))
    BY FS_Singleton, FS_Union
  <2>2. MishapKinds = {"db"} \cup ({"crash"} \cup ({"seed"} \cup ({"overlap"} \cup ({"repeat"} \cup {"self"}))))
    BY DEF MishapKinds
  <2> QED
    BY <2>1, <2>2
<1> QED
  BY <1>1, RolesAssumption, FS_Subset, FS_CardinalityType

\* A mishap that strikes keeps the count in its bound and its kind in Faults.
LEMMA StrikeTyped ==
    ASSUME TypeOK, NEW K, Strike(K)
    PROVE  /\ faults' \in 0 .. MaxFaults /\ struck' \subseteq Faults
           /\ struck' = struck \cup K
<1>1. Cardinality(K) \in Nat
  BY MishapsFinite DEF Strike
<1> QED
  BY <1>1, RolesAssumption DEF Strike, TypeOK

\* The demo list, entry by entry.
LEMMA DemoEntry ==
    /\ Len(Demo) \in Nat
    /\ \A i \in 1 .. Len(Demo) : Demo[i].user \in Users /\ Demo[i].roles \subseteq RoleNames
<1>1. Len(Demo) \in Nat
  BY RolesAssumption, LenProperties
<1>2. \A i \in 1 .. Len(Demo) : Demo[i] \in [user : Users, roles : SUBSET RoleNames]
  BY RolesAssumption, ElementOfSeq
<1> QED
  BY <1>1, <1>2

\* A request that passes its checks.
LEMMA RequestOK ==
    ASSUME Base, NEW req \in requests \cup DirectCalls, req.op # "invite", Applies(req)
    PROVE  /\ req.op \in {"replace", "assign", "revoke"}
           /\ req.by \in Users /\ req.on \in Users
           /\ req.by \in Managers /\ account[req.on] # "absent"
           /\ req.roles \in Seq(RoleNames)
           /\ req.op \in {"assign", "revoke"} => Len(req.roles) = 1 /\ req.roles[1] \in RoleNames
<1>1. req \in Requests \cup Calls
  BY DEF Base, TypeOK, DirectCalls
<1>2. /\ req.by \in Users /\ req.on \in Users /\ req.roles \in RoleLists
      /\ req.op \in Operations /\ req.op # "invite"
      /\ req \in Calls => Len(req.roles) = 1
      /\ req \in Requests => req.op = "replace"
  BY <1>1 DEF Requests, Calls
<1>3. req.op \in {"replace", "assign", "revoke"}
  BY <1>2, RolesAssumption
<1>4. account[req.by] = "active" /\ account[req.on] # "absent"
  BY DEF Base, AccountsOK, DirectCalls
<1>5. req.by \in Managers
  BY <1>2, <1>4 DEF Managers, Applies, RequireAdmin
<1>6. req.roles \in Seq(RoleNames)
  <2>1. req.roles \in Seq(STRING)
    BY <1>2, RolesAssumption
  <2>2. \A i \in 1 .. Len(req.roles) : req.roles[i] \in RoleNames
    BY DEF Applies, Valid
  <2>3. Len(req.roles) \in Nat /\ req.roles \in [1 .. Len(req.roles) -> STRING]
    BY <2>1, LenProperties
  <2>4. req.roles \in [1 .. Len(req.roles) -> RoleNames]
    BY <2>2, <2>3
  <2> QED
    BY <2>3, <2>4, SeqDef
<1>7. req.op \in {"assign", "revoke"} => Len(req.roles) = 1 /\ req.roles[1] \in RoleNames
  <2>1. req.op \in {"assign", "revoke"} => Len(req.roles) = 1
    BY <1>1, <1>2
  <2> QED
    BY <2>1 DEF Applies, Valid
<1> QED
  BY <1>2, <1>3, <1>4, <1>5, <1>6, <1>7

-----------------------------------------------------------------------------
(* Every step keeps the invariant.                                         *)

\* Registration and invitation.
LEMMA BaseAccounts ==
    ASSUME Base, (\E u \in Users : Register(u)) \/ (\E req \in requests : InviteUser(req))
    PROVE  Base'
<1>1. PICK u \in Users, s \in {"invited", "active"} :
          \/ account' = account
          \/ account[u] = "absent" /\ u \notin created /\ account' = [account EXCEPT ![u] = s]
  <2>1. \A req \in requests : req.on \in Users
    BY DEF Base, TypeOK, Requests
  <2> QED
    BY <2>1 DEF Register, InviteUser, Free
<1>2. /\ UNCHANGED <<rows, policy, handler, seeder, mishaps>> /\ requests' \subseteq requests
      /\ pc = "idle"
  BY DEF Register, InviteUser
<1>3. TypeOK'
  BY <1>1, <1>2 DEF Base, TypeOK, handler, seeder, mishaps
<1>4. HandlerOK'
  BY <1>2 DEF Base, HandlerOK, handler
<1>5. ScriptOK'
  BY <1>1, <1>2 DEF Base, TypeOK, ScriptOK, seeder
<1>6. AccountsOK'
  <2>1. \A req \in requests : req.on \in Users /\ req.by \in Users
    BY DEF Base, TypeOK, Requests
  <2> QED
    BY <1>1, <1>2, <2>1 DEF Base, TypeOK, AccountsOK
<1> QED
  BY <1>3, <1>4, <1>5, <1>6 DEF Base

\* Admitting and refusing a request.
LEMMA BaseRequests ==
    ASSUME Base, \/ \E req \in Requests : Admit(req)
                 \/ \E req \in requests \cup DirectCalls : Refuse(req)
    PROVE  Base'
<1>1. /\ UNCHANGED <<stores, handler, seeder, mishaps>>
      /\ requests' \subseteq Requests
      /\ \A req \in requests' : \/ req \in requests
                                 \/ /\ account[req.by] = "active"
                                    /\ req.op # "invite" => account[req.on] # "absent"
  BY DEF Base, TypeOK, Admit, Refuse
<1>2. TypeOK'
  BY <1>1 DEF Base, TypeOK, stores, handler, seeder, mishaps
<1>3. HandlerOK' /\ ScriptOK' /\ AccountsOK'
  BY <1>1 DEF Base, HandlerOK, ScriptOK, AccountsOK, Managers, Can, stores, handler, seeder, mishaps
<1> QED
  BY <1>2, <1>3 DEF Base

\* What a request sets out to do.
LEMMA BeginEffect ==
    ASSUME Base, NEW req \in requests \cup DirectCalls, Begin(req)
    PROVE  /\ pc = "idle" /\ pc' = IF req.op = "assign" THEN "grant" ELSE "strip"
           /\ by' = req.by /\ on' = req.on
           /\ req.by \in Users /\ req.on \in Users
           /\ req.by \in Managers /\ account[req.on] # "absent"
           /\ req.op \in {"replace", "assign", "revoke"}
           /\ req.roles \in Seq(RoleNames)
           /\ req.op \in {"assign", "revoke"} => Len(req.roles) = 1 /\ req.roles[1] \in RoleNames
           /\ todo' = IF req.op = "revoke" THEN <<>> ELSE req.roles
           /\ req.op = "replace" => strips' = RoleNames /\ revoked' = rows[req.on]
           /\ req.op = "revoke" => /\ strips' = {req.roles[1]} /\ rows[req.on][req.roles[1]] > 0
                                   /\ revoked' = [r \in RoleNames |-> IF r = req.roles[1] THEN 1 ELSE 0]
           /\ req.op = "assign" => /\ strips' = {} /\ revoked' = NoRows
                                   /\ rows[req.on][req.roles[1]] = 0
           /\ added' = NoRows
           /\ struck' = struck \cup Oddities(req)
           /\ faults' \in 0 .. MaxFaults /\ struck' \subseteq Faults
           /\ requests' \subseteq requests
           /\ UNCHANGED <<stores, seeder>>
<1>1. req.op # "invite" /\ Applies(req)
  BY DEF Begin
<1>2. /\ struck' = struck \cup Oddities(req)
      /\ faults' \in 0 .. MaxFaults /\ struck' \subseteq Faults
  BY StrikeTyped DEF Begin, Base
<1>3. /\ req.op = "revoke" => rows[req.on][req.roles[1]] > 0
      /\ req.op = "assign" => rows[req.on][req.roles[1]] = 0
  BY <1>1 DEF Applies
<1>4. /\ req.op = "replace" => strips' = RoleNames /\ revoked' = rows[req.on]
      /\ req.op = "revoke" => /\ strips' = {req.roles[1]}
                              /\ revoked' = [r \in RoleNames |-> IF r = req.roles[1] THEN 1 ELSE 0]
      /\ req.op = "assign" => strips' = {} /\ revoked' = NoRows
  BY DEF Begin, RolesStripped, RowsRevoked, NoRows
<1> QED
  BY <1>1, <1>2, <1>3, <1>4, RequestOK DEF Begin

\* The start of a handler, whose caller it has just found entitled.
LEMMA BaseBegin ==
    ASSUME Base, NEW req \in requests \cup DirectCalls, Begin(req)
    PROVE  Base'
<1> DEFINE t == req.on
<1>1. /\ req.by \in Users /\ t \in Users /\ rows[t] \in [RoleNames -> Nat]
      /\ req.op \in {"replace", "assign", "revoke"}
  BY BeginEffect DEF Base, TypeOK
<1>2. todo' \in Seq(RoleNames)
  <2>1. <<>> \in Seq(RoleNames)
    OBVIOUS
  <2> QED
    BY <2>1, BeginEffect
<1>3. strips' \subseteq RoleNames /\ revoked' \in [RoleNames -> Nat]
  BY <1>1, BeginEffect DEF NoRows
<1>4. TypeOK'
  <2>1. /\ UNCHANGED <<account, rows, policy, script, turn, created, granted>>
        /\ requests' \subseteq Requests /\ pc' \in {"idle", "strip", "grant", "commit"}
        /\ by' \in Users /\ on' \in Users
    BY <1>1, BeginEffect DEF Base, TypeOK, stores, seeder
  <2>2. added' \in [RoleNames -> Nat]
    BY BeginEffect DEF NoRows
  <2>3. faults' \in 0 .. MaxFaults /\ struck' \subseteq Faults
    BY BeginEffect
  <2> QED
    BY <1>2, <1>3, <2>1, <2>2, <2>3 DEF Base, TypeOK
<1>5. \A r \in RoleNames : revoked'[r] <= rows[t][r]
  BY <1>1, BeginEffect DEF NoRows
<1>6. req.by # t \/ "self" \in struck'
  BY BeginEffect DEF Oddities
<1>7. script # "none" => "overlap" \in struck'
  BY BeginEffect DEF Oddities
<1>8. pc' = "grant" => todo' # <<>>
  <2>1. <<>> \in Seq(RoleNames) /\ Len(<<>>) = 0
    OBVIOUS
  <2> QED
    BY <2>1, BeginEffect
<1>9. HandlerOK'
  <2>1. account[req.by] = "active"
    BY BeginEffect DEF Managers
  <2>2. req.by \in Managers'
    BY BeginEffect DEF Managers, Can, stores
  <2> QED
    BY <1>5, <1>6, <1>7, <1>8, <2>1, <2>2, BeginEffect DEF HandlerOK, stores, seeder
<1>10. ScriptOK' /\ AccountsOK'
  BY BeginEffect DEF Base, ScriptOK, AccountsOK, stores, seeder
<1> QED
  BY <1>4, <1>9, <1>10 DEF Base

\* An assignment that changes the policy only.
LEMMA BaseAssignAgain ==
    ASSUME Base, NEW req \in requests \cup DirectCalls, AssignAgain(req)
    PROVE  Base'
<1>1. Applies(req) \/ req.op = "assign"
  BY DEF AssignAgain
<1>2. req \in Requests \cup Calls /\ req.op = "assign"
  BY DEF Base, TypeOK, DirectCalls, AssignAgain
<1>3. req.on \in Users /\ Len(req.roles) = 1
  BY <1>2 DEF Requests, Calls
<1>4. req.roles[1] \in RoleNames
  BY <1>3 DEF AssignAgain, Valid
<1>5. /\ policy' = policy \cup {<<req.on, req.roles[1]>>} /\ pc = "idle"
      /\ requests' \subseteq requests
      /\ UNCHANGED <<account, rows, handler, seeder>>
  BY DEF AssignAgain, WithRole
<1>6. faults' \in 0 .. MaxFaults /\ struck' \subseteq Faults
  BY StrikeTyped DEF AssignAgain, Base
<1>7. TypeOK'
  <2>1. <<req.on, req.roles[1]>> \in Users \X RoleNames
    BY <1>3, <1>4
  <2>2. policy' \subseteq Users \X RoleNames
    BY <1>5, <2>1 DEF Base, TypeOK
  <2> QED
    BY <1>5, <1>6, <2>2 DEF Base, TypeOK, handler, seeder
<1>8. HandlerOK' /\ ScriptOK' /\ AccountsOK'
  BY <1>5 DEF Base, HandlerOK, ScriptOK, AccountsOK, handler, seeder
<1> QED
  BY <1>7, <1>8 DEF Base

\* Where a handler goes from its list.
LEMMA PendingStep == \A rest : Pending(rest) = IF rest = <<>> THEN "commit" ELSE "grant"
BY DEF Pending

\* A handler on its way through the policies.
LEMMA BaseHandler == ASSUME Base, Strip \/ Grant PROVE Base'
<1>1. /\ pc # "idle" /\ UNCHANGED <<account, rows, requests, by, on, revoked, strips, seeder, mishaps>>
      /\ pc' = Pending(todo')
  BY DEF Strip, Grant
<1>2. CASE Strip
  <2>1. policy' = policy \ ({on} \X strips) /\ UNCHANGED <<todo, added>>
    BY <1>2 DEF Strip, WithoutRoles
  <2>2. TypeOK'
    BY <1>1, <2>1, PendingStep DEF Base, TypeOK, seeder, mishaps
  <2>3. by # on => by \in Managers'
    <3>1. by # on => by \in Managers
      BY <1>1 DEF Base, HandlerOK
    <3>2. \A r \in RoleNames : by # on /\ <<by, r>> \in policy => <<by, r>> \in policy'
      BY <2>1
    <3> QED
      BY <1>1, <3>1, <3>2 DEF Managers, Can
  <2>4. HandlerOK'
    BY <1>1, <2>1, <2>3, PendingStep DEF Base, HandlerOK, seeder, mishaps
  <2> QED
    BY <1>1, <2>2, <2>4 DEF Base, ScriptOK, AccountsOK, seeder
<1>3. CASE Grant
  <2>1. todo # <<>> /\ pc = "grant"
    BY <1>3 DEF Grant, Base, HandlerOK
  <2>2. Head(todo) \in RoleNames /\ Tail(todo) \in Seq(RoleNames)
    BY <2>1, HeadTailProperties DEF Base, TypeOK
  <2>3. /\ policy' = policy \cup {<<on, Head(todo)>>} /\ todo' = Tail(todo)
        /\ added' = [added EXCEPT ![Head(todo)] = @ + 1]
    BY <1>3 DEF Grant, WithRole
  <2>4. TypeOK'
    <3>1. <<on, Head(todo)>> \in Users \X RoleNames
      BY <2>2 DEF Base, TypeOK
    <3>2. policy' \subseteq Users \X RoleNames
      BY <2>3, <3>1 DEF Base, TypeOK
    <3>3. added' \in [RoleNames -> Nat] /\ todo' \in Seq(RoleNames)
      BY <2>2, <2>3 DEF Base, TypeOK
    <3> QED
      BY <1>1, <3>2, <3>3, PendingStep DEF Base, TypeOK, seeder, mishaps
  <2>5. by # on => by \in Managers'
    BY <1>1, <2>3 DEF Base, HandlerOK, Managers, Can
  <2>6. HandlerOK'
    BY <1>1, <2>3, <2>5, PendingStep DEF Base, HandlerOK, seeder, mishaps
  <2> QED
    BY <1>1, <2>4, <2>6 DEF Base, ScriptOK, AccountsOK, seeder
<1> QED
  BY <1>2, <1>3

\* How a handler ends: it has committed its rows or nothing, and perhaps the
\* policy it was about to write.
LEMMA EndEffect ==
    ASSUME Base, CommitRoles \/ HandlerFails \/ ApiDies
    PROVE  /\ pc' = "idle" /\ todo' = <<>> /\ by' = Admin /\ on' = Admin
           /\ strips' = {} /\ revoked' = NoRows /\ added' = NoRows
           /\ requests' \subseteq requests
           /\ faults' \in 0 .. MaxFaults /\ struck' \subseteq Faults /\ struck \subseteq struck'
           /\ UNCHANGED <<account, seeder>>
           /\ \/ rows' = rows
              \/ pc = "commit" /\ rows' = [rows EXCEPT ![on] = RowsCommitted]
           /\ \/ policy' = policy
              \/ pc = "strip" /\ policy' = WithoutRoles(on, strips)
              \/ pc = "grant" /\ policy' = WithRole(on, Head(todo))
           /\ pc = "idle" => rows' = rows /\ policy' = policy
<1>1. /\ faults' \in 0 .. MaxFaults /\ struck' \subseteq Faults /\ struck \subseteq struck'
  BY StrikeTyped DEF Base, TypeOK, CommitRoles, HandlerFails, ApiDies, mishaps
<1> QED
  BY <1>1 DEF CommitRoles, HandlerFails, ApiDies, CutOff, End

\* A handler that ends, by its commit or cut off.
LEMMA BaseEnd == ASSUME Base, CommitRoles \/ HandlerFails \/ ApiDies PROVE Base'
<1>1. on \in Users /\ Admin \in Users
  BY RolesAssumption DEF Base, TypeOK
<1>2. pc = "commit" => RowsCommitted \in [RoleNames -> Nat]
  BY <1>1 DEF RowsCommitted, Base, TypeOK, HandlerOK
<1>3. rows' \in [Users -> [RoleNames -> Nat]]
  BY <1>1, <1>2, EndEffect DEF Base, TypeOK
<1>4. policy' \subseteq Users \X RoleNames
  <2>1. pc = "grant" => Head(todo) \in RoleNames
    BY HeadTailProperties DEF Base, TypeOK, HandlerOK
  <2>2. pc = "grant" => <<on, Head(todo)>> \in Users \X RoleNames
    BY <1>1, <2>1
  <2> QED
    BY <2>2, EndEffect DEF Base, TypeOK, WithoutRoles, WithRole
<1>5. <<>> \in Seq(RoleNames) /\ NoRows \in [RoleNames -> Nat]
  BY DEF NoRows
<1>6. TypeOK'
  BY <1>1, <1>3, <1>4, <1>5, EndEffect DEF Base, TypeOK, seeder
<1>7. HandlerOK' /\ ScriptOK'
  BY EndEffect DEF HandlerOK, Base, ScriptOK, seeder
<1>8. AccountsOK'
  <2>1. \A u \in Users : account[u] = "absent" => rows'[u] = rows[u]
    BY <1>1, EndEffect DEF Base, TypeOK, HandlerOK
  <2> QED
    BY <2>1, EndEffect DEF Base, AccountsOK
<1> QED
  BY <1>6, <1>7, <1>8 DEF Base

\* A script starts.
LEMMA StartEffect ==
    ASSUME Base, SeedUsers \/ SeedDemo
    PROVE  /\ UNCHANGED <<stores, requests, handler>> /\ script = "none"
           /\ faults' \in 0 .. MaxFaults /\ struck' \subseteq Faults /\ struck \subseteq struck'
           /\ pc # "idle" => "overlap" \in struck'
           /\ \/ /\ script' = "users" /\ account[Admin] = "absent" /\ turn' = turn
                 /\ created' = {Admin} /\ granted' = {<<Admin, "admin">>}
              \/ /\ script' = "demo" /\ turn' = 1 /\ Len(Demo) > 0
                 /\ created' = created /\ granted' = granted
<1>1. /\ faults' \in 0 .. MaxFaults /\ struck' \subseteq Faults /\ struck \subseteq struck'
      /\ pc # "idle" => "overlap" \in struck'
  <2>1. (UNCHANGED mishaps /\ pc = "idle") \/ Strike({"overlap"})
    BY DEF SeedUsers, SeedDemo, SeedStarts
  <2> QED
    BY <2>1, StrikeTyped DEF Base, TypeOK, mishaps
<1> QED
  BY <1>1 DEF SeedUsers, SeedDemo, SeedStarts

\* The start of either script.
LEMMA BaseStarts == ASSUME Base, SeedUsers \/ SeedDemo PROVE Base'
<1>1. <<Admin, "admin">> \in Users \X RoleNames /\ Admin \in Users
  BY RolesAssumption DEF RoleNames
<1>2. TypeOK'
  <2>1. /\ created \subseteq Users /\ granted \subseteq Users \X RoleNames /\ turn \in Nat
        /\ script' \in {"users", "demo"}
    BY StartEffect DEF Base, TypeOK
  <2>2. created' \subseteq Users /\ granted' \subseteq Users \X RoleNames /\ turn' \in Nat
    <3>1. \/ turn' = turn /\ created' = {Admin} /\ granted' = {<<Admin, "admin">>}
          \/ turn' = 1 /\ created' = created /\ granted' = granted
      BY StartEffect
    <3> QED
      BY <1>1, <2>1, <3>1
  <2> QED
    BY <2>1, <2>2, StartEffect DEF Base, TypeOK, stores, handler
<1>3. HandlerOK'
  BY StartEffect DEF Base, HandlerOK, Managers, Can, stores, handler
<1>4. ScriptOK'
  BY StartEffect, DemoEntry DEF Base, ScriptOK, stores
<1>5. AccountsOK'
  BY StartEffect DEF Base, AccountsOK, stores
<1> QED
  BY <1>2, <1>3, <1>4, <1>5 DEF Base

\* The transaction of a script commits.
LEMMA SeededEffect ==
    ASSUME Base, SeedUsersCommits \/ DemoCommits
    PROVE  /\ script \in {"users", "commit"} /\ script' \in {"none", "assign"}
           /\ UNCHANGED <<policy, requests, handler, turn, mishaps>>
           /\ created' = {} /\ granted' = {}
           /\ \A u \in Users : account'[u] = IF u \in created THEN "active" ELSE account[u]
           /\ \A u \in Users : \A r \in RoleNames :
                 /\ rows[u][r] \in Nat
                 /\ rows'[u][r] = IF <<u, r>> \in granted THEN rows[u][r] + 1 ELSE rows[u][r]
           /\ account' \in [Users -> {"absent", "invited", "active"}]
           /\ rows' \in [Users -> [RoleNames -> Nat]]
<1>1. SeedCommitted
  BY DEF SeedUsersCommits, DemoCommits
<1>2. account' \in [Users -> {"absent", "invited", "active"}]
  BY <1>1 DEF SeedCommitted, Base, TypeOK
<1>3. \A u \in Users : rows[u] \in [RoleNames -> Nat]
  BY DEF Base, TypeOK
<1>4. rows' = [u \in Users |-> [r \in RoleNames |->
                  IF <<u, r>> \in granted THEN rows[u][r] + 1 ELSE rows[u][r]]]
  BY <1>1 DEF SeedCommitted
<1>5. \A u \in Users : \A r \in RoleNames :
          /\ rows'[u][r] = IF <<u, r>> \in granted THEN rows[u][r] + 1 ELSE rows[u][r]
          /\ rows'[u][r] \in Nat
  <2>1. ASSUME NEW u \in Users, NEW r \in RoleNames
        PROVE  /\ rows'[u][r] = IF <<u, r>> \in granted THEN rows[u][r] + 1 ELSE rows[u][r]
               /\ rows'[u][r] \in Nat
    <3>1. rows[u][r] \in Nat
      BY <1>3
    <3>2. rows'[u] = [q \in RoleNames |->
                         IF <<u, q>> \in granted THEN rows[u][q] + 1 ELSE rows[u][q]]
      BY <1>4
    <3>3. rows'[u][r] = IF <<u, r>> \in granted THEN rows[u][r] + 1 ELSE rows[u][r]
      BY <3>2
    <3> QED
      BY <3>1, <3>3
  <2> QED
    BY <2>1
<1>6. rows' \in [Users -> [RoleNames -> Nat]]
  BY <1>4, <1>5
<1> QED
  BY <1>1, <1>2, <1>3, <1>5, <1>6 DEF SeedCommitted, SeedUsersCommits, DemoCommits

\* The commit of either script.
LEMMA BaseSeeded == ASSUME Base, SeedUsersCommits \/ DemoCommits PROVE Base'
<1>1. TypeOK'
  BY SeededEffect DEF Base, TypeOK, handler, mishaps
<1>2. \A u \in Users : \A r \in RoleNames : rows[u][r] <= rows'[u][r]
  <2>1. ASSUME NEW u \in Users, NEW r \in RoleNames
        PROVE  rows[u][r] <= rows'[u][r]
    <3>1. /\ rows[u][r] \in Nat
          /\ rows'[u][r] = IF <<u, r>> \in granted THEN rows[u][r] + 1 ELSE rows[u][r]
      BY SeededEffect
    <3> QED
      BY <3>1
  <2> QED
    BY <2>1
<1>3. HandlerOK'
  <2>1. ASSUME pc # "idle", by # on
        PROVE  by \in Managers'
    <3>1. by \in Managers
      BY <2>1 DEF Base, HandlerOK
    <3>2. account'[by] = "active"
      BY <3>1, SeededEffect DEF Managers
    <3> QED
      BY <3>1, <3>2, SeededEffect DEF Managers, Can
  <2>2. by \in Users /\ on \in Users /\ revoked \in [RoleNames -> Nat]
    BY DEF Base, TypeOK
  <2>3. ASSUME pc # "idle", NEW r \in RoleNames
        PROVE  revoked[r] <= rows'[on][r]
    <3>1. revoked[r] <= rows[on][r] /\ rows[on][r] <= rows'[on][r]
      BY <1>2, <2>2, <2>3 DEF Base, HandlerOK
    <3>2. /\ revoked[r] \in Nat /\ rows[on][r] \in Nat /\ rows'[on][r] \in Nat
      BY <1>1, <2>2 DEF Base, TypeOK
    <3> QED
      BY <3>1, <3>2
  <2> QED
    BY <2>1, <2>2, <2>3, SeededEffect DEF Base, HandlerOK, handler, mishaps
<1>4. ScriptOK'
  BY SeededEffect DEF ScriptOK
<1>5. AccountsOK'
  <2>1. \A req \in requests : req.by \in Users /\ req.on \in Users
    BY DEF Base, TypeOK, Requests
  <2>2. ASSUME NEW u \in Users, account'[u] = "absent", NEW r \in RoleNames
        PROVE  rows'[u][r] = 0
    <3>1. account[u] = "absent" /\ u \notin created
      BY <2>2, SeededEffect
    <3>2. <<u, r>> \notin granted
      BY <3>1 DEF Base, ScriptOK
    <3> QED
      BY <2>2, <3>1, <3>2, SeededEffect DEF Base, AccountsOK
  <2> QED
    BY <2>1, <2>2, SeededEffect DEF Base, AccountsOK
<1> QED
  BY <1>1, <1>3, <1>4, <1>5 DEF Base

\* The other steps of the scripts.
LEMMA BaseScripts ==
    ASSUME Base, \/ SeedUsersAssigns \/ DemoReads \/ DemoSyncs \/ DemoStumbles \/ SeedDies
    PROVE  Base'
<1>1. /\ UNCHANGED <<account, rows, requests, handler>> /\ script # "none"
      /\ faults' \in 0 .. MaxFaults /\ struck' \subseteq Faults /\ struck \subseteq struck'
  <2>1. UNCHANGED mishaps \/ Strike({"seed"})
    BY DEF SeedUsersAssigns, DemoReads, DemoSyncs, DemoStumbles, SeedDies
  <2>2. /\ faults' \in 0 .. MaxFaults /\ struck' \subseteq Faults /\ struck \subseteq struck'
    BY <2>1, StrikeTyped DEF Base, TypeOK, mishaps
  <2> QED
    BY <2>2 DEF SeedUsersAssigns, DemoReads, DemoSyncs, DemoStumbles, SeedDies, SeedGivesUp, stores
<1>2. script \in {"demo", "sync"} => Demo[turn].user \in Users /\ Demo[turn].roles \subseteq RoleNames
  BY DemoEntry DEF Base, ScriptOK
<1>3. policy' \subseteq Users \X RoleNames
  <2>1. CASE SeedUsersAssigns
    <3>1. <<Admin, "admin">> \in Users \X RoleNames
      BY RolesAssumption DEF RoleNames
    <3> QED
      BY <2>1, <3>1 DEF SeedUsersAssigns, WithRole, Base, TypeOK
  <2>2. CASE DemoSyncs
    <3>1. \A r \in Demo[turn].roles : <<Demo[turn].user, r>> \in Users \X RoleNames
      BY <1>2, <2>2 DEF DemoSyncs
    <3> QED
      BY <2>2, <3>1 DEF DemoSyncs, SyncAll, Base, TypeOK
  <2>3. CASE DemoReads \/ DemoStumbles \/ SeedDies
    BY <2>3 DEF DemoReads, DemoStumbles, SeedDies, SeedGivesUp, stores, Base, TypeOK
  <2> QED
    BY <2>1, <2>2, <2>3
<1>4. /\ created' \subseteq Users /\ granted' \subseteq Users \X RoleNames
      /\ \A u \in created' : account[u] = "absent"
      /\ \A g \in granted' : g[1] \in created' \/ account[g[1]] # "absent"
  <2>1. CASE DemoReads
    <3> DEFINE d == Demo[turn]
    <3>1. d.user \in Users /\ d.roles \subseteq RoleNames
      BY <1>2, <2>1 DEF DemoReads
    <3>2. /\ created' = IF account[d.user] = "absent" THEN created \cup {d.user} ELSE created
          /\ granted' = granted \cup MissingRoles(d)
      BY <2>1 DEF DemoReads
    <3>3. /\ MissingRoles(d) \subseteq Users \X RoleNames
          /\ \A g \in MissingRoles(d) : g[1] = d.user
      BY <3>1 DEF MissingRoles
    <3> HIDE DEF d
    <3> QED
      BY <3>1, <3>2, <3>3 DEF Base, TypeOK, ScriptOK
  <2>2. CASE SeedUsersAssigns \/ DemoSyncs
    BY <2>2 DEF SeedUsersAssigns, DemoSyncs, Base, TypeOK, ScriptOK
  <2>3. CASE DemoStumbles \/ SeedDies
    BY <2>3 DEF DemoStumbles, SeedDies, SeedGivesUp
  <2> QED
    BY <2>1, <2>2, <2>3
<1>5. /\ script' \in {"none", "demo", "sync", "commit"} /\ turn' \in Nat
      /\ script' \in {"demo", "sync"} => turn' \in 1 .. Len(Demo)
      /\ script' = "none" => created' = {} /\ granted' = {}
  BY DemoEntry DEF Base, TypeOK, ScriptOK, SeedUsersAssigns, DemoReads, DemoSyncs, DemoStumbles,
                   SeedDies, SeedGivesUp
<1>6. \A u \in Users : account[u] = "active" => \A r \in RoleNames :
          <<u, r>> \in policy => <<u, r>> \in policy'
  BY DEF Base, ScriptOK, SeedUsersAssigns, DemoReads, DemoSyncs, DemoStumbles, SeedDies,
         SeedGivesUp, WithRole, SyncAll, stores
<1>7. TypeOK'
  BY <1>1, <1>3, <1>4, <1>5 DEF Base, TypeOK, handler
<1>8. HandlerOK'
  BY <1>1, <1>6 DEF Base, HandlerOK, Managers, Can, handler
<1>9. ScriptOK' /\ AccountsOK'
  BY <1>1, <1>4, <1>5 DEF Base, ScriptOK, AccountsOK
<1> QED
  BY <1>7, <1>8, <1>9 DEF Base

\* A failure of the database in the review service, for role management.
Elsewhere == Strike({"db"}) /\ UNCHANGED <<stores, requests, handler, seeder>>

\* What a step of the whole is for role management.
LEMMA RolesStep ==
    ASSUME [ReviewNext]_allVars
    PROVE  Serve \/ ApiDies \/ Seed \/ Elsewhere \/ UNCHANGED vars
BY DEF ReviewNext, allVars, AskReview, Relabel, RejectReview, RelabelFails, Elsewhere

\* Every step, those of reviews included, preserves the base.
LEMMA BaseStep == ASSUME Base, [ReviewNext]_allVars PROVE Base'
<1>1. CASE Elsewhere
  <2>1. faults' \in 0 .. MaxFaults /\ struck' \subseteq Faults /\ struck \subseteq struck'
    BY <1>1, StrikeTyped DEF Elsewhere, Base
  <2> QED
    BY <1>1, <2>1 DEF Elsewhere, Base, TypeOK, HandlerOK, ScriptOK, AccountsOK, Managers, Can,
                      stores, handler, seeder
<1>2. CASE UNCHANGED vars
  BY <1>2 DEF vars, stores, handler, seeder, mishaps, Base, TypeOK, HandlerOK, ScriptOK,
              AccountsOK, Managers, Can
<1>3. CASE Serve
  <2>1. ASSUME NEW req \in requests \cup DirectCalls, Begin(req) \/ Refuse(req) \/ AssignAgain(req)
        PROVE  Base'
    BY <2>1, BaseBegin, BaseRequests, BaseAssignAgain
  <2>2. CASE Strip \/ Grant \/ CommitRoles \/ HandlerFails
    BY <2>2, BaseHandler, BaseEnd
  <2>3. CASE \/ \E u \in Users : Register(u)
             \/ \E req \in Requests : Admit(req)
             \/ \E req \in requests : InviteUser(req)
    BY <2>3, BaseAccounts, BaseRequests
  <2> QED
    BY <1>3, <2>1, <2>2, <2>3 DEF Serve
<1>4. CASE Seed
  BY <1>4, BaseStarts, BaseSeeded, BaseScripts DEF Seed
<1> QED
  BY <1>1, <1>2, <1>3, <1>4, BaseEnd, RolesStep

\* The empty database satisfies it.
LEMMA BaseInit == Init => Base
<1> SUFFICES ASSUME Init PROVE Base
  OBVIOUS
<1>1. 0 \in 0 .. MaxFaults /\ <<>> \in Seq(RoleNames)
  BY RolesAssumption
<1>2. TypeOK
  BY <1>1, RolesAssumption DEF Init, TypeOK, NoRows
<1>3. HandlerOK /\ ScriptOK /\ AccountsOK
  BY DEF Init, HandlerOK, ScriptOK, AccountsOK, NoRows
<1> QED
  BY <1>2, <1>3 DEF Base

\* The base is an invariant.
LEMMA BaseInvariant == ReviewSpec => []Base
BY BaseInit, BaseStep, PTL DEF ReviewSpec, ReviewInit

-----------------------------------------------------------------------------
(* Review.                                                                 *)

\* What the reviews add: who asks is active, and what is shown is audited.
Reviewed ==
    /\ eligible \subseteq Predictions
    /\ label \in [Predictions -> (Classes \X Users) \cup {None}]
    /\ trail \subseteq Predictions \X (Classes \X Users)
    /\ asked \subseteq Reviews
    /\ \A r \in asked : account[r.by] = "active"
    /\ \A p \in Predictions : label[p] # None => <<p, label[p]>> \in trail

\* The label that a review puts, and its audit event.
LEMMA LabelEffect ==
    ASSUME Base, Reviewed, NEW r \in asked, Relabel(r) \/ RelabelFails(r)
    PROVE  /\ r.by \in Users /\ r.of \in Predictions /\ r.label \in Classes
           /\ r.by \in Users /\ account[r.by] = "active" /\ MayLabel(r)
           /\ \/ Labelled(r)
              \/ UNCHANGED <<label, trail>>
           /\ UNCHANGED <<account, policy, eligible>> /\ asked' \subseteq asked
<1>1. r \in Reviews
  BY DEF Reviewed
<1>2. UNCHANGED <<account, policy>>
  BY DEF Relabel, RelabelFails, vars, stores
<1> QED
  BY <1>1, <1>2 DEF Relabel, RelabelFails, Reviews, Reviewed

\* Nobody is deactivated, and no account is deleted.
LEMMA AccountsRemain ==
    ASSUME Base, [ReviewNext]_allVars, NEW u \in Users
    PROVE  /\ account[u] = "active" => account'[u] = "active"
           /\ account'[u] = "absent" => account[u] = "absent"
<1>1. CASE Serve
  <2>1. CASE \E req \in requests : InviteUser(req)
    BY <2>1 DEF InviteUser, Base, TypeOK, Requests
  <2>2. CASE \E v \in Users : Register(v)
    BY <2>2 DEF Register, Free, Base, TypeOK
  <2>3. CASE \/ \E req \in Requests : Admit(req)
             \/ \E req \in requests \cup DirectCalls : Begin(req) \/ Refuse(req) \/ AssignAgain(req)
             \/ Strip \/ Grant \/ CommitRoles \/ HandlerFails
    BY <2>3 DEF Admit, Begin, Refuse, AssignAgain, Strip, Grant, CommitRoles, HandlerFails, stores
  <2> QED
    BY <1>1, <2>1, <2>2, <2>3 DEF Serve
<1>2. CASE Seed
  <2>1. CASE SeedUsersCommits \/ DemoCommits
    BY <2>1, SeededEffect
  <2>2. CASE ~(SeedUsersCommits \/ DemoCommits)
    BY <1>2, <2>2 DEF Seed, SeedUsers, SeedDemo, SeedStarts, SeedUsersAssigns, DemoReads,
                      DemoSyncs, DemoStumbles, SeedDies, SeedGivesUp, stores
  <2> QED
    BY <2>1, <2>2
<1>3. CASE ApiDies \/ Elsewhere \/ UNCHANGED vars
  BY <1>3 DEF ApiDies, Elsewhere, vars, stores
<1> QED
  BY <1>1, <1>2, <1>3, RolesStep

\* Labels and events stay together, and whoever asked stays active.
LEMMA ReviewedStep == ASSUME Base, Reviewed, [ReviewNext]_allVars PROVE Reviewed'
<1>1. \A r \in Reviews : account[r.by] = "active" => account'[r.by] = "active"
  BY AccountsRemain DEF Reviews
<1>2. CASE \E r \in asked : Relabel(r) \/ RelabelFails(r)
  <2>1. PICK r \in asked : Relabel(r) \/ RelabelFails(r)
    BY <1>2
  <2>2. <<r.label, r.by>> \in Classes \X Users /\ <<r.of, <<r.label, r.by>>>> \in Predictions \X (Classes \X Users)
    BY <2>1, LabelEffect
  <2>3. CASE UNCHANGED <<label, trail>>
    BY <1>1, <2>1, <2>3, LabelEffect DEF Reviewed
  <2>4. CASE Labelled(r)
    <3>1. /\ label' = [label EXCEPT ![r.of] = <<r.label, r.by>>]
          /\ trail' = trail \cup {<<r.of, <<r.label, r.by>>>>}
      BY <2>4 DEF Labelled
    <3>2. label' \in [Predictions -> (Classes \X Users) \cup {None}]
      BY <2>2, <3>1 DEF Reviewed
    <3>3. trail' \subseteq Predictions \X (Classes \X Users)
      BY <2>2, <3>1 DEF Reviewed
    <3>4. \A p \in Predictions : label'[p] # None => <<p, label'[p]>> \in trail'
      BY <2>2, <3>1 DEF Reviewed
    <3> QED
      BY <1>1, <2>1, <3>2, <3>3, <3>4, LabelEffect DEF Reviewed
  <2> QED
    BY <2>1, <2>3, <2>4, LabelEffect
<1>3. CASE UNCHANGED <<eligible, label, trail>> /\ asked' \subseteq asked
  BY <1>1, <1>3 DEF Reviewed
<1>4. CASE \E r \in Reviews : AskReview(r)
  <2>1. PICK r \in Reviews : AskReview(r)
    BY <1>4
  <2>2. /\ account[r.by] = "active" /\ asked' = asked \cup {r}
        /\ UNCHANGED <<account, eligible, label, trail>>
    BY <2>1 DEF AskReview, vars, stores
  <2> QED
    BY <2>2 DEF Reviewed
<1> QED
  BY <1>2, <1>3, <1>4 DEF ReviewNext, allVars, reviewVars, RejectReview

\* There are no labels to begin with.
LEMMA ReviewedInit == ReviewInit => Reviewed
BY DEF ReviewInit, Reviewed

\* Reviewed is an invariant on top of the base.
LEMMA ReviewedInvariant == ReviewSpec => [](Base /\ Reviewed)
<1>1. ReviewInit => Base /\ Reviewed
  BY BaseInit, ReviewedInit DEF ReviewInit
<1>2. Base /\ Reviewed /\ [ReviewNext]_allVars => (Base /\ Reviewed)'
  BY BaseStep, ReviewedStep
<1> QED
  BY <1>1, <1>2, PTL DEF ReviewSpec

\* Types only.
THEOREM AccessTyped == ReviewSpec => []ReviewTypeOK
<1>1. Base /\ Reviewed => ReviewTypeOK
  BY DEF Base, Reviewed, ReviewTypeOK
<1> QED
  BY <1>1, ReviewedInvariant, PTL

\* The audit trail has every label that a prediction ever showed, overwritten
\* ones included (prediction_review.py:107-130).
THEOREM EveryLabelAudited == ReviewSpec => LabelsAreAudited
<1>1. ASSUME Base, Reviewed, [ReviewNext]_allVars,
             NEW p \in Predictions, label[p] # None
      PROVE  <<p, label[p]>> \in trail /\ <<p, label'[p]>> \in trail'
  <2>1. Reviewed'
    BY <1>1, ReviewedStep
  <2>2. label'[p] # None
    <3>1. CASE \E r \in asked : Relabel(r) \/ RelabelFails(r)
      <4>1. PICK r \in asked : Relabel(r) \/ RelabelFails(r)
        BY <3>1
      <4>2. <<r.label, r.by>> # None
        <5>1. r.label \in Submitted /\ r.by \in Users
          BY <1>1 DEF Reviewed, Reviews
        <5>2. <<r.label, r.by>> \in Submitted \X Users
          BY <5>1
        <5> QED
          BY <5>2, ReviewAssumption
      <4>3. label'[p] = label[p] \/ label'[p] = <<r.label, r.by>>
        BY <1>1, <4>1, LabelEffect DEF Labelled, Reviewed
      <4> QED
        BY <1>1, <4>2, <4>3
    <3>2. CASE UNCHANGED label
      BY <1>1, <3>2
    <3> QED
      BY <1>1, <3>1, <3>2 DEF ReviewNext, allVars, reviewVars, RejectReview, AskReview
  <2> QED
    BY <1>1, <2>1, <2>2 DEF Reviewed
<1>2. Base /\ Reviewed /\ [ReviewNext]_allVars =>
      [\A p \in Predictions : label[p] # None =>
         <<p, label[p]>> \in trail /\ <<p, label'[p]>> \in trail']_allVars
  BY <1>1
<1> QED
  BY <1>2, ReviewedInvariant, PTL DEF ReviewSpec, LabelsAreAudited

\* Whoever's label a prediction shows could put it there at that moment, also
\* when a role was revoked after the request was admitted.
THEOREM LabelsByTheEntitled == ReviewSpec => LabelsAreAuthorised
<1>1. ASSUME Base, Reviewed, [ReviewNext]_allVars,
             NEW p \in Predictions, label'[p] # label[p]
      PROVE  /\ Can(label'[p][2], "predictions.relabel")
             /\ p \in eligible \/ label'[p][2] \in Managers
  <2>1. PICK r \in asked : Relabel(r) \/ RelabelFails(r)
    BY <1>1 DEF ReviewNext, allVars, reviewVars, RejectReview, AskReview
  <2>2. /\ Labelled(r) /\ MayLabel(r) /\ r.by \in Users /\ account[r.by] = "active"
        /\ r.of \in Predictions
    BY <1>1, <2>1, LabelEffect
  <2>3. p = r.of /\ label'[p] = <<r.label, r.by>>
    BY <1>1, <2>2 DEF Labelled, Reviewed
  <2>4. label'[p][2] = r.by
    BY <2>3
  <2> QED
    BY <2>2, <2>3, <2>4 DEF MayLabel, Managers
<1>2. Base /\ Reviewed /\ [ReviewNext]_allVars =>
      [\A p \in Predictions : label'[p] # label[p] =>
         /\ Can(label'[p][2], "predictions.relabel")
         /\ p \in eligible \/ label'[p][2] \in Managers]_allVars
  BY <1>1
<1> QED
  BY <1>2, ReviewedInvariant, PTL DEF ReviewSpec, LabelsAreAuthorised

-----------------------------------------------------------------------------
(* Managers.                                                               *)

\* A manager whose role went after the request was admitted changes no rows.
THEOREM StoppedAfterRevocation == ReviewSpec => RevokedManagersAreStopped
<1>1. Base /\ [ReviewNext]_allVars =>
      [rows' # rows /\ pc # "idle" /\ pc' = "idle" => by \in Managers \/ by = on]_vars
  BY DEF Base, HandlerOK
<1> QED
  BY <1>1, BaseInvariant, PTL DEF ReviewSpec, RevokedManagersAreStopped

\* The policies of an active account go in a handler's strip only, which the
\* caller survives.
LEMMA PolicyKept ==
    ASSUME Base, [ReviewNext]_allVars, NEW u \in Users, account[u] = "active",
           NEW r \in RoleNames, <<u, r>> \in policy, ~(pc = "strip" /\ u = on)
    PROVE  <<u, r>> \in policy'
<1>1. CASE Serve
  <2>1. CASE Strip
    BY <2>1 DEF Strip, WithoutRoles
  <2>2. CASE CommitRoles \/ HandlerFails
    BY <2>2, EndEffect DEF WithoutRoles, WithRole
  <2>3. CASE \/ \E v \in Users : Register(v)
             \/ \E req \in Requests : Admit(req)
             \/ \E req \in requests : InviteUser(req)
             \/ \E req \in requests \cup DirectCalls : Begin(req) \/ Refuse(req) \/ AssignAgain(req)
             \/ Grant
    BY <2>3 DEF Register, Admit, InviteUser, Begin, Refuse, AssignAgain, Grant, WithRole, stores
  <2> QED
    BY <1>1, <2>1, <2>2, <2>3 DEF Serve
<1>2. CASE Seed
  <2>1. CASE SeedUsersCommits \/ DemoCommits
    BY <2>1, SeededEffect
  <2>2. CASE DemoStumbles \/ SeedDies
    BY <2>2 DEF DemoStumbles, SeedDies, SeedGivesUp, Base, ScriptOK
  <2>3. CASE SeedUsers \/ SeedDemo \/ SeedUsersAssigns \/ DemoReads \/ DemoSyncs
    BY <2>3 DEF SeedUsers, SeedDemo, SeedStarts, SeedUsersAssigns, DemoReads, DemoSyncs,
                SyncAll, WithRole, stores
  <2> QED
    BY <1>2, <2>1, <2>2, <2>3 DEF Seed
<1>3. CASE ApiDies
  BY <1>3, EndEffect DEF WithoutRoles, WithRole
<1>4. CASE Elsewhere \/ UNCHANGED vars
  BY <1>4 DEF Elsewhere, vars, stores
<1> QED
  BY <1>1, <1>2, <1>3, <1>4, RolesStep

\* What has struck stays struck.
LEMMA StruckGrows == ASSUME Base, [ReviewNext]_allVars PROVE struck \subseteq struck'
<1>1. \A K : Strike(K) => struck \subseteq struck'
  BY DEF Strike
<1>2. CASE Serve
  BY <1>1, <1>2 DEF Serve, Register, Admit, InviteUser, Begin, Refuse, AssignAgain, Strip, Grant,
                    CommitRoles, HandlerFails, mishaps
<1>3. CASE Seed
  BY <1>1, <1>3 DEF Seed, SeedUsers, SeedDemo, SeedStarts, SeedUsersCommits, SeedUsersAssigns,
                    DemoReads, DemoSyncs, DemoCommits, DemoStumbles, SeedDies, mishaps
<1>4. CASE ApiDies \/ Elsewhere \/ UNCHANGED vars
  BY <1>1, <1>4 DEF ApiDies, Elsewhere, vars, mishaps
<1> QED
  BY <1>2, <1>3, <1>4, RolesStep

\* Managers stay as long as none changes roles of their own.
THEOREM SomeoneManages == ReviewSpec => ManagersRemain
<1>1. ASSUME Base, [ReviewNext]_allVars, Managers # {}, "self" \notin struck'
      PROVE  Managers' # {}
  <2>1. "self" \notin struck
    <3>1. struck \subseteq struck'
      BY <1>1, StruckGrows
    <3> QED
      BY <1>1, <3>1
  <2>2. PICK m \in Managers : ~(pc = "strip" /\ m = on)
    <3>1. CASE pc = "strip"
      <4>1. by # on /\ by \in Managers
        BY <1>1, <2>1, <3>1 DEF Base, HandlerOK
      <4> QED
        BY <4>1
    <3> QED
      BY <1>1, <3>1
  <2>3. m \in Users /\ account[m] = "active" /\ Can(m, "roles.manage")
    BY <2>2 DEF Managers
  <2>4. PICK r \in RoleNames : <<m, r>> \in policy /\ <<r, "roles.manage">> \in Baseline
    BY <2>3 DEF Can
  <2>5. <<m, r>> \in policy' /\ account'[m] = "active"
    BY <1>1, <2>2, <2>3, <2>4, PolicyKept, AccountsRemain
  <2>6. m \in Managers'
    BY <2>3, <2>4, <2>5 DEF Managers, Can
  <2> QED
    BY <2>6
<1>2. Base /\ [ReviewNext]_allVars =>
      [Managers # {} /\ "self" \notin struck' => Managers' # {}]_vars
  BY <1>1
<1> QED
  BY <1>2, BaseInvariant, PTL DEF ReviewSpec, ManagersRemain

-----------------------------------------------------------------------------
(* The rows of a role.                                                     *)

\* A row of each role at most, also counting the rows not yet committed.
Distinct ==
    struck \cap {"overlap", "repeat"} = {} =>
        /\ \A u \in Users : \A r \in RoleNames :
              rows[u][r] <= 1 /\ (<<u, r>> \in granted => rows[u][r] = 0)
        /\ pc # "idle" =>
              /\ \A r \in RoleNames : (rows[on][r] - revoked[r]) + added[r] <= 1
              /\ \A i \in 1 .. Len(todo) : (rows[on][todo[i]] - revoked[todo[i]]) + added[todo[i]] = 0
              /\ ~Repeats(todo)

\* Steps that touch neither the two stores of roles nor their writers.
Quiet == UNCHANGED <<rows, policy, handler, seeder>> /\ struck \subseteq struck'

\* A handler starts with a list that repeats nothing, on rows it will revoke.
LEMMA DistinctBegin ==
    ASSUME Base, Distinct, NEW req \in requests \cup DirectCalls, Begin(req)
    PROVE  Distinct'
<1> SUFFICES ASSUME struck' \cap {"overlap", "repeat"} = {}
             PROVE  Distinct'
  BY DEF Distinct
<1> DEFINE t == req.on
<1>1. struck \cap {"overlap", "repeat"} = {} /\ "repeat" \notin Oddities(req)
  BY BeginEffect
<1>2. t \in Users /\ UNCHANGED <<rows, granted>> /\ on' = t /\ added' = NoRows
  BY BeginEffect DEF stores, seeder
<1>3. \A u \in Users : \A r \in RoleNames :
          /\ rows[u][r] \in Nat /\ rows[u][r] <= 1
          /\ <<u, r>> \in granted => rows[u][r] = 0
  BY <1>1 DEF Distinct, Base, TypeOK
<1>7. \A r \in RoleNames : rows[t][r] \in Nat /\ rows[t][r] <= 1 /\ added'[r] = 0
  BY <1>2, <1>3 DEF NoRows
<1> HIDE DEF t
<1>4. CASE req.op = "replace"
  <2>1. revoked' = rows[t] /\ todo' = req.roles /\ req.roles \in Seq(RoleNames)
    BY <1>4, BeginEffect DEF t
  <2>2. ~Repeats(req.roles)
    BY <1>1, <1>4 DEF Oddities
  <2>3. \A i \in 1 .. Len(req.roles) : req.roles[i] \in RoleNames
    BY <2>1, ElementOfSeq
  <2>4. \A r \in RoleNames : (rows[t][r] - revoked'[r]) + added'[r] = 0
    BY <1>7, <2>1
  <2> QED
    BY <1>2, <1>3, <2>1, <2>2, <2>3, <2>4 DEF Distinct, Repeats
<1>5. CASE req.op = "assign"
  <2>1. /\ revoked' = NoRows /\ todo' = req.roles /\ rows[t][req.roles[1]] = 0
        /\ Len(req.roles) = 1 /\ req.roles[1] \in RoleNames
    BY <1>5, BeginEffect DEF t
  <2>2. \A i \in 1 .. Len(req.roles) : i = 1
    BY <2>1
  <2>3. \A r \in RoleNames : (rows[t][r] - revoked'[r]) + added'[r] = rows[t][r]
    <3>1. \A r \in RoleNames : revoked'[r] = 0
      BY <2>1 DEF NoRows
    <3> QED
      BY <1>7, <3>1
  <2> QED
    BY <1>2, <1>3, <2>1, <2>2, <2>3 DEF Distinct, Repeats
<1>6. CASE req.op = "revoke"
  <2>1. /\ revoked' = [r \in RoleNames |-> IF r = req.roles[1] THEN 1 ELSE 0]
        /\ todo' = <<>>
    BY <1>6, BeginEffect
  <2>2. \A r \in RoleNames : (rows[t][r] - revoked'[r]) + added'[r] <= 1
    <3>1. \A r \in RoleNames : revoked'[r] \in {0, 1}
      BY <2>1
    <3> QED
      BY <1>7, <3>1
  <2>3. Len(todo') = 0
    BY <2>1
  <2> QED
    BY <1>2, <1>3, <2>2, <2>3 DEF Distinct, Repeats
<1> QED
  BY <1>4, <1>5, <1>6, BeginEffect

\* A grant takes one role off the list and adds one row of it.
LEMMA GrantEffect ==
    ASSUME Base, Grant
    PROVE  /\ pc = "grant" /\ pc' \in {"grant", "commit"} /\ Head(todo) \in RoleNames
           /\ Head(todo) = todo[1] /\ Len(todo) \in Nat /\ Len(todo) >= 1
           /\ Len(todo') = Len(todo) - 1
           /\ \A i \in 1 .. Len(todo') : todo'[i] = todo[i + 1] /\ todo'[i] \in RoleNames
           /\ policy' = policy \cup {<<on, Head(todo)>>}
           /\ added' = [added EXCEPT ![Head(todo)] = @ + 1]
           /\ UNCHANGED <<rows, by, on, strips, revoked, seeder, struck>>
<1>1. todo \in Seq(RoleNames) /\ todo # <<>>
  BY DEF Base, TypeOK, HandlerOK, Grant
<1>2. Tail(todo) \in Seq(RoleNames) /\ Head(todo) \in RoleNames /\ Len(Tail(todo)) = Len(todo) - 1
      /\ \A i \in 1 .. Len(Tail(todo)) : Tail(todo)[i] = todo[i + 1]
  BY <1>1, HeadTailProperties
<1>3. \A i \in 1 .. Len(Tail(todo)) : Tail(todo)[i] \in RoleNames
  BY <1>2, ElementOfSeq
<1>4. Len(todo) \in Nat /\ Len(todo) >= 1 /\ Head(todo) = todo[1]
  BY <1>1, LenProperties
<1> QED
  BY <1>2, <1>3, <1>4, PendingStep DEF Grant, WithRole, mishaps

\* The role granted was not there yet, and is not on the rest of the list.
LEMMA DistinctGrant == ASSUME Base, Distinct, Grant PROVE Distinct'
<1> SUFFICES ASSUME struck' \cap {"overlap", "repeat"} = {}
             PROVE  Distinct'
  BY DEF Distinct
<1> DEFINE h == todo[1]
<1>1. struck \cap {"overlap", "repeat"} = {} /\ pc # "idle" /\ h \in RoleNames /\ 1 \in 1 .. Len(todo)
  BY GrantEffect
<1>2. /\ \A u \in Users : \A r \in RoleNames :
            rows[u][r] <= 1 /\ (<<u, r>> \in granted => rows[u][r] = 0)
      /\ \A r \in RoleNames : (rows[on][r] - revoked[r]) + added[r] <= 1
      /\ \A i \in 1 .. Len(todo) : (rows[on][todo[i]] - revoked[todo[i]]) + added[todo[i]] = 0
      /\ \A i, j \in 1 .. Len(todo) : i # j => todo[i] # todo[j]
  BY <1>1 DEF Distinct, Repeats
<1>3. on \in Users /\ added \in [RoleNames -> Nat] /\ revoked \in [RoleNames -> Nat]
      /\ rows[on] \in [RoleNames -> Nat]
  BY DEF Base, TypeOK
<1>4. \A r \in RoleNames : added'[r] = IF r = h THEN added[r] + 1 ELSE added[r]
  BY <1>3, GrantEffect
<1>5. \A r \in RoleNames : (rows[on][r] - revoked[r]) + added'[r] <= 1
  BY <1>1, <1>2, <1>3, <1>4
<1>6. \A i \in 1 .. Len(todo') : i + 1 \in 1 .. Len(todo) /\ i + 1 # 1
  BY GrantEffect
<1>7. \A i \in 1 .. Len(todo') : todo'[i] = todo[i + 1] /\ todo'[i] # h /\ todo'[i] \in RoleNames
  BY <1>1, <1>2, <1>6, GrantEffect
<1>8. \A i \in 1 .. Len(todo') : (rows[on][todo'[i]] - revoked[todo'[i]]) + added'[todo'[i]] = 0
  <2>1. TAKE i \in 1 .. Len(todo')
  <2>2. (rows[on][todo[i + 1]] - revoked[todo[i + 1]]) + added[todo[i + 1]] = 0
    BY <1>2, <1>6
  <2>3. todo'[i] = todo[i + 1] /\ added'[todo'[i]] = added[todo'[i]]
    BY <1>4, <1>7
  <2> QED
    BY <2>2, <2>3
<1>9. \A i, j \in 1 .. Len(todo') : i # j => todo'[i] # todo'[j]
  <2>1. TAKE i, j \in 1 .. Len(todo')
  <2>2. i # j => i + 1 # j + 1
    OBVIOUS
  <2>3. i + 1 \in 1 .. Len(todo) /\ j + 1 \in 1 .. Len(todo)
    BY <1>6
  <2>4. i # j => todo[i + 1] # todo[j + 1]
    BY <1>2, <2>2, <2>3
  <2> QED
    BY <1>7, <2>4
<1> QED
  BY <1>2, <1>5, <1>8, <1>9, GrantEffect DEF Distinct, Repeats, seeder

\* What is committed is what was said of the rows to come.
LEMMA DistinctEnd == ASSUME Base, Distinct, CommitRoles \/ HandlerFails \/ ApiDies PROVE Distinct'
<1> SUFFICES ASSUME struck' \cap {"overlap", "repeat"} = {}
             PROVE  Distinct'
  BY DEF Distinct
<1>1. struck \cap {"overlap", "repeat"} = {} /\ pc' = "idle" /\ granted' = granted
  BY EndEffect DEF seeder
<1>2. CASE rows' = rows
  BY <1>1, <1>2 DEF Distinct
<1>3. CASE pc = "commit" /\ rows' = [rows EXCEPT ![on] = RowsCommitted]
  <2>1. \A r \in RoleNames : RowsCommitted[r] <= 1
    BY <1>1, <1>3 DEF RowsCommitted, Distinct
  <2>2. granted = {}
    BY <1>1, <1>3 DEF Base, HandlerOK, ScriptOK
  <2>3. \A u \in Users : rows'[u] = IF u = on THEN RowsCommitted ELSE rows[u]
    BY <1>3 DEF Base, TypeOK
  <2> QED
    BY <1>1, <2>1, <2>2, <2>3 DEF Distinct
<1> QED
  BY <1>2, <1>3, EndEffect

\* A script steps alone, or has struck.
LEMMA SeedAlone ==
    ASSUME Base, Seed, "overlap" \notin struck'
    PROVE  pc = "idle" /\ UNCHANGED handler /\ struck \subseteq struck'
<1>1. CASE SeedUsers \/ SeedDemo
  BY <1>1, StartEffect DEF handler
<1>2. CASE ~(SeedUsers \/ SeedDemo)
  <2>1. script # "none" /\ UNCHANGED handler
    BY <1>2 DEF Seed, SeedUsersCommits, SeedUsersAssigns, DemoReads, DemoSyncs, DemoCommits,
                DemoStumbles, SeedDies, SeedGivesUp
  <2>2. struck \subseteq struck'
    BY <1>2, StrikeTyped DEF Base, Seed, SeedUsersCommits, SeedUsersAssigns, DemoReads,
                DemoSyncs, DemoCommits, DemoStumbles, SeedDies, mishaps
  <2> QED
    BY <2>1, <2>2 DEF Base, HandlerOK, handler
<1> QED
  BY <1>1, <1>2

\* A script inserts only rows that it has found missing, and no handler comes between.
LEMMA DistinctSeed == ASSUME Base, Distinct, Seed PROVE Distinct'
<1> SUFFICES ASSUME struck' \cap {"overlap", "repeat"} = {}
             PROVE  Distinct'
  BY DEF Distinct
<1>1. /\ struck \cap {"overlap", "repeat"} = {} /\ pc' = "idle"
  BY SeedAlone DEF handler
<1>2. \A u \in Users : \A r \in RoleNames :
          /\ rows[u][r] \in Nat /\ rows[u][r] <= 1
          /\ <<u, r>> \in granted => rows[u][r] = 0
  BY <1>1 DEF Distinct, Base, TypeOK
<1>3. \A u \in Users : \A r \in RoleNames :
          rows'[u][r] <= 1 /\ (<<u, r>> \in granted' => rows'[u][r] = 0)
  <2>1. CASE SeedUsers \/ SeedDemo
    <3>1. /\ rows' = rows
          /\ \/ granted' = granted
             \/ granted' = {<<Admin, "admin">>} /\ account[Admin] = "absent"
      <4>1. rows' = rows
        BY <2>1, StartEffect DEF stores
      <4> QED
        BY <2>1, <4>1, StartEffect
    <3>2. account[Admin] = "absent" => rows[Admin]["admin"] = 0
      BY RolesAssumption DEF Base, AccountsOK, RoleNames
    <3>3. ASSUME NEW u \in Users, NEW r \in RoleNames, <<u, r>> \in granted'
          PROVE  rows[u][r] = 0
      <4>1. CASE granted' = granted
        BY <1>2, <3>3, <4>1
      <4>2. CASE granted' = {<<Admin, "admin">>} /\ account[Admin] = "absent"
        <5>1. u = Admin /\ r = "admin"
          BY <3>3, <4>2
        <5> QED
          BY <3>2, <4>2, <5>1
      <4> QED
        BY <3>1, <4>1, <4>2
    <3> QED
      BY <1>2, <3>1, <3>3
  <2>2. CASE SeedUsersCommits \/ DemoCommits
    <3>1. granted' = {} /\ \A u \in Users : \A r \in RoleNames :
              rows'[u][r] = IF <<u, r>> \in granted THEN rows[u][r] + 1 ELSE rows[u][r]
      BY <2>2, SeededEffect
    <3>2. ASSUME NEW u \in Users, NEW r \in RoleNames
          PROVE  rows'[u][r] <= 1
      <4>1. rows[u][r] \in Nat /\ rows[u][r] <= 1 /\ (<<u, r>> \in granted => rows[u][r] = 0)
        BY <1>2
      <4>2. rows'[u][r] = IF <<u, r>> \in granted THEN rows[u][r] + 1 ELSE rows[u][r]
        BY <3>1
      <4> QED
        BY <4>1, <4>2
    <3> QED
      BY <3>1, <3>2
  <2>3. CASE DemoReads
    <3>1. rows' = rows /\ granted' = granted \cup MissingRoles(Demo[turn])
      BY <2>3 DEF DemoReads, stores
    <3>2. \A u \in Users : \A r \in RoleNames : <<u, r>> \in MissingRoles(Demo[turn]) => rows[u][r] = 0
      BY DEF MissingRoles
    <3> QED
      BY <1>2, <3>1, <3>2
  <2>4. CASE SeedUsersAssigns \/ DemoSyncs
    BY <1>2, <2>4 DEF SeedUsersAssigns, DemoSyncs
  <2>5. CASE DemoStumbles \/ SeedDies
    BY <1>2, <2>5 DEF DemoStumbles, SeedDies, SeedGivesUp
  <2> QED
    BY <2>1, <2>2, <2>3, <2>4, <2>5 DEF Seed
<1> QED
  BY <1>1, <1>3 DEF Distinct

\* Serving requests that write no roles.
LEMMA QuietSteps ==
    ASSUME Base, [ReviewNext]_allVars,
           \/ Elsewhere \/ UNCHANGED vars
           \/ \E u \in Users : Register(u)
           \/ \E req \in Requests : Admit(req)
           \/ \E req \in requests : InviteUser(req)
           \/ \E req \in requests \cup DirectCalls : Refuse(req)
    PROVE  Quiet
<1>1. struck \subseteq struck'
  BY StruckGrows
<1> QED
  BY <1>1 DEF Quiet, Elsewhere, vars, stores, Register, Admit, InviteUser, Refuse

\* Every step preserves distinctness.
LEMMA DistinctStep == ASSUME Base, Distinct, [ReviewNext]_allVars PROVE Distinct'
<1>1. ASSUME Quiet PROVE Distinct'
  BY <1>1 DEF Quiet, Distinct, Repeats, handler, seeder
<1>2. CASE Serve
  <2>1. ASSUME NEW req \in requests \cup DirectCalls, AssignAgain(req)
        PROVE  Distinct'
    <3>1. struck \subseteq struck'
      BY StruckGrows
    <3> QED
      BY <2>1, <3>1 DEF AssignAgain, Distinct, Repeats, handler, seeder
  <2>2. CASE Strip
    BY <2>2, PendingStep DEF Strip, Distinct, Repeats, seeder, mishaps
  <2> QED
    BY <1>1, <1>2, <2>1, <2>2, QuietSteps, DistinctBegin, DistinctGrant, DistinctEnd DEF Serve
<1> QED
  BY <1>1, <1>2, DistinctEnd, DistinctSeed, QuietSteps, RolesStep

\* Distinct is an invariant on top of the base.
LEMMA DistinctInvariant == ReviewSpec => [](Base /\ Distinct)
<1>1. ReviewInit => Base /\ Distinct
  <2>1. Init => Distinct
    BY DEF Init, Distinct, NoRows
  <2> QED
    BY <2>1, BaseInit DEF ReviewInit
<1>2. Base /\ Distinct /\ [ReviewNext]_allVars => (Base /\ Distinct)'
  BY BaseStep, DistinctStep
<1> QED
  BY <1>1, <1>2, PTL DEF ReviewSpec

\* No role is active twice, whatever fails, as long as no request lists a role
\* twice and no script runs into a handler (data-model.md:36).
THEOREM RolesOnce == ReviewSpec => []NoDuplicateRoles
<1>1. Base /\ Distinct => NoDuplicateRoles
  BY DEF Distinct, NoDuplicateRoles
<1> QED
  BY <1>1, DistinctInvariant, PTL

-----------------------------------------------------------------------------
(* The two stores of roles, and their writers one at a time.               *)

\* A replacement under way, once it has begun: the target's policies are those
\* it has granted, whatever they were before.
Replacing ==
    "overlap" \notin struck /\ strips = RoleNames /\ pc # "idle" =>
        \A r \in RoleNames :
            /\ revoked[r] = rows[on][r]
            /\ pc = "strip" => added[r] = 0
            /\ pc # "strip" => (<<on, r>> \in policy <=> added[r] > 0)

\* A request begins alone, or strikes.
LEMMA BeginAlone ==
    ASSUME Base, NEW req \in requests \cup DirectCalls, Begin(req) \/ AssignAgain(req),
           "overlap" \notin struck'
    PROVE  script = "none" /\ script' = "none" /\ pc = "idle"
<1>1. struck' = struck \cup Oddities(req)
  BY StrikeTyped DEF Base, Begin, AssignAgain
<1> QED
  BY <1>1 DEF Oddities, Begin, AssignAgain, seeder

\* So does whatever changes the stores when no script does.
LEMMA HandlerAlone ==
    ASSUME Base, [ReviewNext]_allVars, ~Seed, "overlap" \notin struck'
    PROVE  /\ "overlap" \notin struck /\ UNCHANGED seeder
           /\ script = "none" \/ UNCHANGED <<rows, policy>>
<1>1. "overlap" \notin struck
  BY StruckGrows
<1>2. pc # "idle" => script = "none"
  BY <1>1 DEF Base, HandlerOK
<1>3. CASE Serve
  <2>1. CASE Strip \/ Grant \/ CommitRoles \/ HandlerFails
    BY <1>1, <1>2, <2>1 DEF Strip, Grant, CommitRoles, HandlerFails
  <2>2. ASSUME NEW req \in requests \cup DirectCalls, Begin(req) \/ AssignAgain(req)
        PROVE  script = "none" /\ UNCHANGED seeder
    BY <2>2, BeginAlone DEF Begin, AssignAgain
  <2>3. ASSUME Quiet PROVE UNCHANGED <<rows, policy, seeder>>
    BY <2>3 DEF Quiet
  <2> QED
    BY <1>1, <1>3, <2>1, <2>2, <2>3, QuietSteps DEF Serve
<1>4. CASE ApiDies
  BY <1>1, <1>2, <1>4, EndEffect
<1>5. CASE Elsewhere \/ UNCHANGED vars
  BY <1>1, <1>5 DEF Elsewhere, vars, stores
<1> QED
  BY <1>3, <1>4, <1>5, RolesStep

\* A replacement's policies are those it has granted so far, whatever was there before.
LEMMA ReplacingStep == ASSUME Base, Replacing, [ReviewNext]_allVars PROVE Replacing'
<1> SUFFICES ASSUME "overlap" \notin struck', strips' = RoleNames, pc' # "idle"
             PROVE  Replacing'
  BY DEF Replacing
<1>1. "overlap" \notin struck
  BY StruckGrows
<1>2. ASSUME Quiet PROVE Replacing'
  BY <1>2 DEF Quiet, Replacing, handler
<1>3. ASSUME NEW req \in requests \cup DirectCalls, Begin(req)
      PROVE  Replacing'
  <2>1. req.op = "replace"
    <3>1. \A r : {r} # RoleNames
      BY DEF RoleNames
    <3>2. {} # RoleNames
      BY DEF RoleNames
    <3> QED
      BY <1>3, <3>1, <3>2, BeginEffect
  <2>2. /\ pc' = "strip" /\ revoked' = rows[req.on] /\ added' = NoRows /\ on' = req.on
        /\ rows' = rows
    BY <1>3, <2>1, BeginEffect DEF stores
  <2> QED
    BY <2>2 DEF Replacing, NoRows
<1>4. ASSUME NEW req \in requests \cup DirectCalls, AssignAgain(req)
      PROVE  FALSE
  BY <1>4 DEF AssignAgain, handler
<1>5. CASE Strip
  <2>1. /\ policy' = policy \ ({on} \X strips) /\ pc = "strip" /\ pc' # "strip"
        /\ UNCHANGED <<rows, on, strips, revoked, added>>
    BY <1>5, PendingStep DEF Strip, WithoutRoles
  <2>2. \A r \in RoleNames : <<on, r>> \notin policy' /\ added[r] = 0 /\ revoked[r] = rows[on][r]
    BY <1>1, <2>1 DEF Replacing
  <2> QED
    BY <2>1, <2>2 DEF Replacing
<1>6. CASE Grant
  <2>1. \A r \in RoleNames : added[r] \in Nat
    BY DEF Base, TypeOK
  <2>2. \A r \in RoleNames : /\ revoked[r] = rows[on][r]
                             /\ <<on, r>> \in policy <=> added[r] > 0
    BY <1>1, <1>6, GrantEffect DEF Replacing
  <2>3. \A r \in RoleNames : /\ added'[r] = IF r = Head(todo) THEN added[r] + 1 ELSE added[r]
                             /\ <<on, r>> \in policy' <=> <<on, r>> \in policy \/ r = Head(todo)
    <3>1. \A r \in RoleNames : added'[r] = IF r = Head(todo) THEN added[r] + 1 ELSE added[r]
      <4>1. added \in [RoleNames -> Nat]
        BY DEF Base, TypeOK
      <4> QED
        BY <1>6, <4>1, GrantEffect
    <3>2. \A r \in RoleNames : <<on, r>> \in policy' <=> <<on, r>> \in policy \/ r = Head(todo)
      BY <1>6, GrantEffect
    <3> QED
      BY <3>1, <3>2
  <2>4. \A r \in RoleNames : <<on, r>> \in policy' <=> added'[r] > 0
    BY <2>1, <2>2, <2>3
  <2> QED
    BY <1>6, <2>2, <2>4, GrantEffect DEF Replacing
<1>7. CASE CommitRoles \/ HandlerFails \/ ApiDies
  BY <1>7, EndEffect
<1>8. CASE Seed
  BY <1>8, SeedAlone DEF handler
<1> QED
  BY <1>2, <1>3, <1>4, <1>5, <1>6, <1>7, <1>8, QuietSteps, RolesStep DEF Serve

\* A replacement that succeeds leaves the two stores agreeing on its target,
\* whatever an earlier failure had left in either.
THEOREM ReplacementsRepair == ReviewSpec => ReplacementRepairs
<1>1. ReviewInit => Base /\ Replacing
  BY BaseInit DEF ReviewInit, Init, Replacing
<1>2. Base /\ Replacing /\ [ReviewNext]_allVars => (Base /\ Replacing)'
  BY BaseStep, ReplacingStep
<1>3. ASSUME Base, Replacing, NEW u \in Users,
             CommitRoles, on = u, strips = RoleNames, "overlap" \notin struck
      PROVE  Agree(u)'
  <2>1. pc = "commit" /\ rows' = [rows EXCEPT ![on] = RowsCommitted] /\ policy' = policy
    BY <1>3 DEF CommitRoles
  <2>2. \A r \in RoleNames : rows'[u][r] = (rows[on][r] - revoked[r]) + added[r]
    BY <1>3, <2>1 DEF Base, TypeOK, RowsCommitted
  <2>3. \A r \in RoleNames : /\ revoked[r] = rows[on][r]
                             /\ <<on, r>> \in policy <=> added[r] > 0
                             /\ rows[on][r] \in Nat /\ added[r] \in Nat
    BY <1>3, <2>1 DEF Base, TypeOK, Replacing
  <2>4. \A r \in RoleNames : rows'[u][r] = added[r]
    <3>1. \A n, k \in Nat : (n - n) + k = k
      OBVIOUS
    <3>2. TAKE r \in RoleNames
    <3>3. rows'[u][r] = (rows[on][r] - rows[on][r]) + added[r]
      BY <2>2, <2>3
    <3> QED
      BY <2>3, <3>1, <3>3
  <2> QED
    BY <1>3, <2>1, <2>3, <2>4 DEF Agree
<1>4. Base /\ Replacing /\ [ReviewNext]_allVars =>
      [\A u \in Users :
         CommitRoles /\ on = u /\ strips = RoleNames /\ "overlap" \notin struck
             => Agree(u)']_vars
  BY <1>3
<1> QED
  BY <1>1, <1>2, <1>4, PTL DEF ReviewSpec, ReplacementRepairs

\* The demo script under way: the entries behind it are in Casbin, and in the
\* rows or in its transaction.
Reseeding ==
    "overlap" \notin struck =>
        /\ script \in {"demo", "sync", "commit"} =>
              \A i \in 1 .. Len(Demo) : script = "commit" \/ i < turn =>
                  \A r \in Demo[i].roles :
                      /\ <<Demo[i].user, r>> \in policy
                      /\ rows[Demo[i].user][r] > 0 \/ <<Demo[i].user, r>> \in granted
        /\ script = "sync" =>
              \A r \in Demo[turn].roles :
                  rows[Demo[turn].user][r] > 0 \/ <<Demo[turn].user, r>> \in granted

\* The demo seeding leaves each account that it is done with repaired.
LEMMA ReseedingStep == ASSUME Base, Reseeding, [ReviewNext]_allVars PROVE Reseeding'
<1> SUFFICES ASSUME "overlap" \notin struck'
             PROVE  Reseeding'
  BY DEF Reseeding
<1>1. "overlap" \notin struck
  BY StruckGrows
<1>2. CASE ~Seed
  BY <1>1, <1>2, HandlerAlone DEF Reseeding, seeder
<1>3. CASE SeedUsers \/ SeedDemo
  <2>1. \/ script' = "users"
        \/ script' = "demo" /\ turn' = 1
    BY <1>3, StartEffect
  <2> QED
    BY <2>1 DEF Reseeding
<1>4. CASE SeedUsersCommits \/ DemoCommits
  BY <1>4, SeededEffect DEF Reseeding
<1>5. CASE SeedUsersAssigns \/ DemoStumbles \/ SeedDies
  BY <1>5 DEF SeedUsersAssigns, DemoStumbles, SeedDies, SeedGivesUp, Reseeding
<1>6. CASE DemoReads
  <2>1. /\ script = "demo" /\ script' = "sync" /\ UNCHANGED <<rows, policy, turn>>
        /\ granted' = granted \cup MissingRoles(Demo[turn])
    BY <1>6 DEF DemoReads, stores
  <2>2. turn \in 1 .. Len(Demo)
    BY <2>1 DEF Base, ScriptOK
  <2>3. Demo[turn].user \in Users /\ Demo[turn].roles \subseteq RoleNames
    BY <2>2, DemoEntry
  <2>4. \A r \in Demo[turn].roles : rows[Demo[turn].user][r] \in Nat
    BY <2>3 DEF Base, TypeOK
  <2>5. \A r \in Demo[turn].roles :
            rows[Demo[turn].user][r] > 0 \/ <<Demo[turn].user, r>> \in granted'
    BY <2>1, <2>4 DEF MissingRoles
  <2> QED
    BY <1>1, <2>1, <2>5 DEF Reseeding
<1>7. CASE DemoSyncs
  <2>1. /\ script = "sync" /\ UNCHANGED <<rows, granted>>
        /\ policy' = policy \cup {<<Demo[turn].user, r>> : r \in Demo[turn].roles}
        /\ script' # "sync"
        /\ script' = "commit" => turn = Len(Demo)
        /\ script' # "commit" => turn' = turn + 1
    <3>1. turn \in 1 .. Len(Demo) /\ Len(Demo) \in Nat
      BY <1>7, DemoEntry DEF DemoSyncs, Base, ScriptOK
    <3> QED
      BY <1>7, <3>1 DEF DemoSyncs, SyncAll
  <2>2. turn \in 1 .. Len(Demo) /\ Len(Demo) \in Nat
    BY <2>1, DemoEntry DEF Base, ScriptOK
  <2>3. \A i \in 1 .. Len(Demo) : i < turn \/ i = turn =>
            \A r \in Demo[i].roles :
                /\ <<Demo[i].user, r>> \in policy'
                /\ rows[Demo[i].user][r] > 0 \/ <<Demo[i].user, r>> \in granted
    BY <1>1, <2>1 DEF Reseeding
  <2>4. \A i \in 1 .. Len(Demo) : script' = "commit" \/ i < turn' => i < turn \/ i = turn
    BY <2>1, <2>2
  <2> QED
    BY <2>1, <2>3, <2>4 DEF Reseeding
<1> QED
  BY <1>2, <1>3, <1>4, <1>5, <1>6, <1>7 DEF Seed

\* When the demo script has committed, every role of its list is in both
\* stores, also one whose row alone had survived.
THEOREM DemoSeedRepairs == ReviewSpec => DemoSeedRestores
<1>1. ReviewInit => Base /\ Reseeding
  BY BaseInit DEF ReviewInit, Init, Reseeding
<1>2. Base /\ Reseeding /\ [ReviewNext]_allVars => (Base /\ Reseeding)'
  BY BaseStep, ReseedingStep
<1>3. ASSUME Base, Reseeding, DemoCommits, "overlap" \notin struck,
             NEW i \in 1 .. Len(Demo), NEW r \in Demo[i].roles
      PROVE  <<Demo[i].user, r>> \in policy' /\ rows'[Demo[i].user][r] > 0
  <2>1. /\ <<Demo[i].user, r>> \in policy
        /\ rows[Demo[i].user][r] > 0 \/ <<Demo[i].user, r>> \in granted
    BY <1>3 DEF DemoCommits, Reseeding
  <2>2. Demo[i].user \in Users /\ r \in RoleNames
    BY DemoEntry
  <2>3. /\ rows[Demo[i].user][r] \in Nat /\ policy' = policy
        /\ rows'[Demo[i].user][r] = IF <<Demo[i].user, r>> \in granted
                                    THEN rows[Demo[i].user][r] + 1 ELSE rows[Demo[i].user][r]
    BY <1>3, <2>2, SeededEffect
  <2> QED
    BY <2>1, <2>3
<1>4. Base /\ Reseeding /\ [ReviewNext]_allVars =>
      [DemoCommits /\ "overlap" \notin struck =>
         \A i \in 1 .. Len(Demo) : \A r \in Demo[i].roles :
             <<Demo[i].user, r>> \in policy' /\ rows'[Demo[i].user][r] > 0]_vars
  BY <1>3
<1> QED
  BY <1>1, <1>2, <1>4, PTL DEF ReviewSpec, DemoSeedRestores

\* What Casbin says of a user, with what the script under way has yet to tell it.
Told(u, r) ==
    \/ <<u, r>> \in policy
    \/ script = "assign" /\ u = Admin /\ r = "admin"
    \/ script = "sync" /\ u = Demo[turn].user /\ r \in Demo[turn].roles

\* What the rows say, with those the demo script has in its transaction.
Held(u, r) ==
    \/ rows[u][r] > 0
    \/ script \in {"demo", "sync", "commit"} /\ <<u, r>> \in granted

\* The target of the handler under way: what it has done so far to the two.
Halfway ==
    \A r \in RoleNames :
        /\ pc = "strip" =>
              /\ added[r] = 0
              /\ r \in strips => revoked[r] = rows[on][r]
              /\ r \notin strips => revoked[r] = 0 /\ (<<on, r>> \in policy <=> rows[on][r] > 0)
        /\ pc \in {"grant", "commit"} =>
              (<<on, r>> \in policy <=> (rows[on][r] - revoked[r]) + added[r] > 0)

\* As long as nothing has failed, the two stores say the same of everybody whom
\* nobody is at work on, and the same but for the rest of the work otherwise.
InStep ==
    struck \subseteq {"self"} =>
        /\ \A u \in Users : \A r \in RoleNames :
              pc = "idle" \/ u # on => (Told(u, r) <=> Held(u, r))
        /\ Halfway

\* A handler starts alone, on stores that agree.
LEMMA InStepBegin ==
    ASSUME Base, Distinct, InStep, NEW req \in requests \cup DirectCalls, Begin(req)
    PROVE  InStep'
<1> SUFFICES ASSUME struck' \subseteq {"self"} PROVE InStep'
  BY DEF InStep
<1>1. /\ struck \subseteq {"self"} /\ pc = "idle" /\ script = "none" /\ script' = "none"
      /\ UNCHANGED <<rows, policy>>
  BY BeginEffect, BeginAlone DEF stores
<1>2. \A u \in Users : \A r \in RoleNames : <<u, r>> \in policy <=> rows[u][r] > 0
  BY <1>1 DEF InStep, Told, Held
<1>3. req.on \in Users /\ on' = req.on /\ added' = NoRows
  BY BeginEffect
<1>4. \A r \in RoleNames : /\ rows[req.on][r] \in Nat /\ rows[req.on][r] <= 1 /\ added'[r] = 0
                           /\ <<req.on, r>> \in policy <=> rows[req.on][r] > 0
  BY <1>1, <1>2, <1>3 DEF Base, TypeOK, Distinct, NoRows
<1>5. CASE req.op = "replace"
  <2>1. pc' = "strip" /\ strips' = RoleNames /\ revoked' = rows[req.on]
    BY <1>5, BeginEffect
  <2> QED
    BY <1>1, <1>2, <1>3, <1>4, <2>1 DEF InStep, Told, Held, Halfway
<1>6. CASE req.op = "assign"
  <2>1. pc' = "grant" /\ revoked' = NoRows
    BY <1>6, BeginEffect
  <2>2. \A r \in RoleNames : (rows[req.on][r] - revoked'[r]) + added'[r] = rows[req.on][r]
    <3>1. \A r \in RoleNames : revoked'[r] = 0
      BY <2>1 DEF NoRows
    <3>2. TAKE r \in RoleNames
    <3>3. rows[req.on][r] \in Nat /\ added'[r] = 0
      BY <1>4
    <3> QED
      BY <3>1, <3>3
  <2> QED
    BY <1>1, <1>2, <1>3, <1>4, <2>1, <2>2 DEF InStep, Told, Held, Halfway
<1>7. CASE req.op = "revoke"
  <2>1. /\ pc' = "strip" /\ strips' = {req.roles[1]} /\ rows[req.on][req.roles[1]] > 0
        /\ revoked' = [r \in RoleNames |-> IF r = req.roles[1] THEN 1 ELSE 0]
    BY <1>7, BeginEffect
  <2>2. \A r \in RoleNames : IF r \in strips' THEN revoked'[r] = rows[req.on][r]
                                              ELSE revoked'[r] = 0
    <3>1. TAKE r \in RoleNames
    <3>2. CASE r = req.roles[1]
      <4>1. rows[req.on][r] = 1
        <5>1. rows[req.on][r] \in Nat /\ rows[req.on][r] <= 1 /\ rows[req.on][r] > 0
          BY <1>4, <2>1, <3>2
        <5> QED
          BY <5>1
      <4> QED
        BY <2>1, <3>2, <4>1
    <3>3. CASE r # req.roles[1]
      BY <2>1, <3>3
    <3> QED
      BY <3>2, <3>3
  <2> QED
    BY <1>1, <1>2, <1>3, <1>4, <2>1, <2>2 DEF InStep, Told, Held, Halfway
<1> QED
  BY <1>5, <1>6, <1>7, BeginEffect

\* The handler's steps, each store by its own share.
LEMMA InStepHandler ==
    ASSUME Base, InStep, Strip \/ Grant \/ CommitRoles
    PROVE  InStep'
<1> SUFFICES ASSUME struck' \subseteq {"self"} PROVE InStep'
  BY DEF InStep
<1>1. struck \subseteq {"self"} /\ pc # "idle" /\ UNCHANGED seeder
  BY DEF Strip, Grant, CommitRoles, mishaps
<1>2. script = "none" /\ script' = "none"
  BY <1>1 DEF Base, HandlerOK, seeder
<1>3. /\ \A u \in Users : \A r \in RoleNames :
            u # on => (<<u, r>> \in policy <=> rows[u][r] > 0)
      /\ Halfway
  BY <1>1, <1>2 DEF InStep, Told, Held
<1>4. \A r \in RoleNames : /\ rows[on][r] \in Nat /\ revoked[r] \in Nat /\ added[r] \in Nat
                           /\ revoked[r] <= rows[on][r]
  BY <1>1 DEF Base, TypeOK, HandlerOK
<1>5. \A n \in Nat : (n - n) + 0 = 0 /\ (n - 0) + 0 = n
  OBVIOUS
<1>6. CASE Strip
  <2>1. /\ policy' = policy \ ({on} \X strips) /\ pc = "strip" /\ pc' \in {"grant", "commit"}
        /\ UNCHANGED <<rows, on, strips, revoked, added>>
    BY <1>6, PendingStep DEF Strip, WithoutRoles
  <2>2. ASSUME NEW r \in RoleNames
        PROVE  <<on, r>> \in policy' <=> (rows[on][r] - revoked[r]) + added[r] > 0
    <3>1. CASE r \in strips
      <4>1. <<on, r>> \notin policy' /\ revoked[r] = rows[on][r] /\ added[r] = 0
        BY <1>3, <2>1, <3>1 DEF Halfway
      <4>2. (rows[on][r] - revoked[r]) + added[r] = 0
        BY <1>4, <1>5, <4>1
      <4> QED
        BY <4>1, <4>2
    <3>2. CASE r \notin strips
      <4>1. /\ revoked[r] = 0 /\ added[r] = 0
            /\ <<on, r>> \in policy' <=> rows[on][r] > 0
        BY <1>3, <2>1, <3>2 DEF Halfway
      <4>2. (rows[on][r] - revoked[r]) + added[r] = rows[on][r]
        BY <1>4, <1>5, <4>1
      <4> QED
        BY <4>1, <4>2
    <3> QED
      BY <3>1, <3>2
  <2>3. \A u \in Users : \A r \in RoleNames :
            u # on => (<<u, r>> \in policy' <=> rows[u][r] > 0)
    BY <1>3, <2>1
  <2> QED
    BY <1>2, <2>1, <2>2, <2>3 DEF InStep, Told, Held, Halfway
<1>7. CASE Grant
  <2>1. /\ policy' = policy \cup {<<on, Head(todo)>>} /\ Head(todo) \in RoleNames
        /\ pc = "grant" /\ pc' \in {"grant", "commit"} /\ UNCHANGED <<rows, on, revoked>>
        /\ added' = [added EXCEPT ![Head(todo)] = @ + 1]
    BY <1>7, GrantEffect
  <2>2. ASSUME NEW r \in RoleNames
        PROVE  <<on, r>> \in policy' <=> (rows[on][r] - revoked[r]) + added'[r] > 0
    <3>1. <<on, r>> \in policy <=> (rows[on][r] - revoked[r]) + added[r] > 0
      BY <1>3, <2>1 DEF Halfway
    <3>2. CASE r = Head(todo)
      <4>1. added'[r] = added[r] + 1 /\ <<on, r>> \in policy'
        BY <2>1, <3>2 DEF Base, TypeOK
      <4> QED
        BY <1>4, <4>1
    <3>3. CASE r # Head(todo)
      <4>1. added'[r] = added[r] /\ (<<on, r>> \in policy' <=> <<on, r>> \in policy)
        BY <2>1, <3>3 DEF Base, TypeOK
      <4> QED
        BY <3>1, <4>1
    <3> QED
      BY <3>2, <3>3
  <2>3. \A u \in Users : \A r \in RoleNames :
            u # on => (<<u, r>> \in policy' <=> rows[u][r] > 0)
    BY <1>3, <2>1
  <2> QED
    BY <1>2, <2>1, <2>2, <2>3 DEF InStep, Told, Held, Halfway
<1>8. CASE CommitRoles
  <2>1. /\ pc = "commit" /\ rows' = [rows EXCEPT ![on] = RowsCommitted]
        /\ policy' = policy /\ pc' = "idle"
    BY <1>8 DEF CommitRoles, End
  <2>2. \A u \in Users : \A r \in RoleNames :
            rows'[u][r] = IF u = on THEN (rows[on][r] - revoked[r]) + added[r] ELSE rows[u][r]
    BY <2>1 DEF Base, TypeOK, RowsCommitted
  <2>3. \A u \in Users : \A r \in RoleNames : <<u, r>> \in policy' <=> rows'[u][r] > 0
    <3>1. TAKE u \in Users
    <3>2. TAKE r \in RoleNames
    <3>3. CASE u = on
      BY <1>3, <2>1, <2>2, <3>3 DEF Halfway
    <3>4. CASE u # on
      BY <1>3, <2>1, <2>2, <3>4
    <3> QED
      BY <3>3, <3>4
  <2> QED
    BY <1>2, <2>1, <2>3 DEF InStep, Told, Held, Halfway
<1> QED
  BY <1>6, <1>7, <1>8

\* The scripts' steps.
LEMMA InStepSeed == ASSUME Base, Distinct, InStep, Seed PROVE InStep'
<1> SUFFICES ASSUME struck' \subseteq {"self"} PROVE InStep'
  BY DEF InStep
<1>1. /\ struck \subseteq {"self"} /\ pc = "idle" /\ pc' = "idle"
  BY SeedAlone DEF handler
<1>2. \A u \in Users : \A r \in RoleNames : Told(u, r) <=> Held(u, r)
  BY <1>1 DEF InStep
<1>3. \A u \in Users : \A r \in RoleNames : rows[u][r] \in Nat /\ rows[u][r] <= 1
  <2>1. struck \cap {"overlap", "repeat"} = {}
    BY <1>1
  <2>2. \A u \in Users : \A r \in RoleNames : rows[u][r] <= 1
    BY <2>1 DEF Distinct
  <2>3. \A u \in Users : \A r \in RoleNames : rows[u][r] \in Nat
    BY DEF Base, TypeOK
  <2> QED
    BY <2>2, <2>3
<1>4. SUFFICES \A u \in Users : \A r \in RoleNames : Told(u, r)' <=> Held(u, r)'
  BY <1>1 DEF InStep, Halfway
<1>5. CASE SeedUsers \/ SeedDemo
  <2>1. /\ script = "none" /\ UNCHANGED <<rows, policy>>
        /\ \/ script' = "users"
           \/ script' = "demo" /\ granted' = granted
    BY <1>5, StartEffect DEF stores
  <2>2. granted = {}
    BY <2>1 DEF Base, ScriptOK
  <2> QED
    BY <1>2, <2>1, <2>2 DEF Told, Held
<1>6. CASE SeedUsersCommits
  <2>1. script = "users" /\ script' = "assign" /\ policy' = policy /\ granted = {<<Admin, "admin">>}
    BY <1>6 DEF SeedUsersCommits, Base, ScriptOK
  <2>2. \A u \in Users : \A r \in RoleNames :
            rows'[u][r] = IF <<u, r>> \in granted THEN rows[u][r] + 1 ELSE rows[u][r]
    BY <1>6, SeededEffect
  <2>3. \A u \in Users : \A r \in RoleNames :
            rows'[u][r] > 0 <=> rows[u][r] > 0 \/ <<u, r>> \in granted
    <3>1. TAKE u \in Users
    <3>2. TAKE r \in RoleNames
    <3>3. rows[u][r] \in Nat
      BY <1>3
    <3>4. rows'[u][r] = IF <<u, r>> \in granted THEN rows[u][r] + 1 ELSE rows[u][r]
      BY <2>2
    <3> QED
      BY <3>3, <3>4
  <2>4. \A u, r : <<u, r>> \in granted <=> u = Admin /\ r = "admin"
    BY <2>1
  <2> QED
    BY <1>2, <2>1, <2>3, <2>4 DEF Told, Held
<1>7. CASE DemoCommits
  <2>1. script = "commit" /\ script' = "none" /\ policy' = policy
    BY <1>7 DEF DemoCommits
  <2>2. \A u \in Users : \A r \in RoleNames :
            rows'[u][r] = IF <<u, r>> \in granted THEN rows[u][r] + 1 ELSE rows[u][r]
    BY <1>7, SeededEffect
  <2>3. \A u \in Users : \A r \in RoleNames :
            rows'[u][r] > 0 <=> rows[u][r] > 0 \/ <<u, r>> \in granted
    <3>1. TAKE u \in Users
    <3>2. TAKE r \in RoleNames
    <3>3. rows[u][r] \in Nat
      BY <1>3
    <3>4. rows'[u][r] = IF <<u, r>> \in granted THEN rows[u][r] + 1 ELSE rows[u][r]
      BY <2>2
    <3> QED
      BY <3>3, <3>4
  <2> QED
    BY <1>2, <2>1, <2>3 DEF Told, Held
<1>8. CASE SeedUsersAssigns
  <2>1. /\ script = "assign" /\ script' = "none" /\ rows' = rows
        /\ policy' = policy \cup {<<Admin, "admin">>}
    BY <1>8 DEF SeedUsersAssigns, WithRole
  <2> QED
    BY <1>2, <2>1 DEF Told, Held
<1>9. CASE DemoReads
  <2>1. /\ script = "demo" /\ script' = "sync" /\ UNCHANGED <<rows, policy, turn>>
        /\ granted' = granted \cup MissingRoles(Demo[turn])
    BY <1>9 DEF DemoReads, stores
  <2>2. Demo[turn].user \in Users /\ Demo[turn].roles \subseteq RoleNames
    BY <2>1, DemoEntry DEF Base, ScriptOK
  <2>3. \A u \in Users : \A r \in RoleNames :
            <<u, r>> \in MissingRoles(Demo[turn]) <=>
                u = Demo[turn].user /\ r \in Demo[turn].roles /\ ~(rows[u][r] > 0)
    BY <1>3, <2>2 DEF MissingRoles
  <2> QED
    BY <1>2, <2>1, <2>3 DEF Told, Held
<1>10. CASE DemoSyncs
  <2>1. /\ script = "sync" /\ script' \in {"demo", "commit"} /\ UNCHANGED <<rows, granted>>
        /\ policy' = policy \cup {<<Demo[turn].user, r>> : r \in Demo[turn].roles}
    BY <1>10 DEF DemoSyncs, SyncAll
  <2>2. \A u, r : <<u, r>> \in policy' <=>
            \/ <<u, r>> \in policy
            \/ u = Demo[turn].user /\ r \in Demo[turn].roles
    BY <2>1
  <2> QED
    BY <1>2, <2>1, <2>2 DEF Told, Held
<1>11. ~DemoStumbles
  <2>1. SUFFICES ASSUME DemoStumbles PROVE FALSE
    OBVIOUS
  <2>2. PICK r \in Demo[turn].roles : rows[Demo[turn].user][r] > 1
    BY <2>1 DEF DemoStumbles
  <2>3. Demo[turn].user \in Users /\ r \in RoleNames
    BY <2>1, <2>2, DemoEntry DEF DemoStumbles, Base, ScriptOK
  <2> QED
    BY <1>3, <2>2, <2>3
<1>12. ~SeedDies
  BY DEF SeedDies, Strike
<1> QED
  BY <1>5, <1>6, <1>7, <1>8, <1>9, <1>10, <1>11, <1>12 DEF Seed

\* Every step keeps the two stores in step.
LEMMA InStepStep == ASSUME Base, Distinct, InStep, [ReviewNext]_allVars PROVE InStep'
<1>1. ASSUME Quiet PROVE InStep'
  BY <1>1 DEF Quiet, InStep, Halfway, Told, Held, handler, seeder
<1>2. CASE Serve
  <2>1. ASSUME NEW req \in requests \cup DirectCalls, AssignAgain(req), struck' \subseteq {"self"}
        PROVE  InStep'
    <3>1. /\ script = "none" /\ script' = "none" /\ pc = "idle" /\ struck \subseteq {"self"}
      BY <2>1, BeginAlone, StruckGrows
    <3>2. req.on \in Users /\ req.roles[1] \in RoleNames /\ rows[req.on][req.roles[1]] = 1
      <4>1. req \in Requests \cup Calls /\ req.op = "assign"
        BY <2>1 DEF Base, TypeOK, DirectCalls, AssignAgain
      <4>2. req.on \in Users /\ Len(req.roles) = 1
        BY <4>1 DEF Requests, Calls
      <4> QED
        BY <2>1, <4>2 DEF AssignAgain, Valid
    <3>3. \A u \in Users : \A r \in RoleNames : <<u, r>> \in policy <=> rows[u][r] > 0
      BY <3>1 DEF InStep, Told, Held
    <3>4. <<req.on, req.roles[1]>> \in policy
      BY <3>2, <3>3
    <3>5. policy' = policy /\ UNCHANGED <<rows, handler, seeder>>
      BY <2>1, <3>4 DEF AssignAgain, WithRole
    <3> QED
      BY <3>1, <3>3, <3>5 DEF InStep, Halfway, Told, Held, handler
  <2>2. ASSUME HandlerFails PROVE InStep'
    BY <2>2 DEF HandlerFails, Strike, InStep
  <2>3. ASSUME NEW req \in requests \cup DirectCalls, AssignAgain(req) PROVE InStep'
    BY <2>1, <2>3 DEF InStep
  <2> QED
    BY <1>1, <1>2, <2>2, <2>3, QuietSteps, InStepBegin, InStepHandler DEF Serve
<1>3. CASE ApiDies
  BY <1>3 DEF ApiDies, Strike, InStep
<1> QED
  BY <1>1, <1>2, <1>3, InStepSeed, QuietSteps, RolesStep

\* The rows and the policies of a user agree whenever nobody is at work on
\* them, as long as nothing fails, no script runs into a handler and no request
\* lists a role twice.
THEOREM StoresInStep == ReviewSpec => []StoresAgree
<1>1. ReviewInit => Base /\ Distinct /\ InStep
  <2>1. Init => InStep
    BY DEF Init, InStep, Halfway, Told, Held, NoRows
  <2>2. Init => Distinct
    BY DEF Init, Distinct, NoRows
  <2> QED
    BY <2>1, <2>2, BaseInit DEF ReviewInit
<1>2. Base /\ Distinct /\ InStep /\ [ReviewNext]_allVars => (Base /\ Distinct /\ InStep)'
  BY BaseStep, DistinctStep, InStepStep
<1>3. Base /\ InStep => StoresAgree
  <2>1. ASSUME Base, InStep, struck \subseteq {"self"}, NEW u \in Users, Settled(u)
        PROVE  Agree(u)
    <3>1. pc = "idle" \/ u # on
      BY <2>1 DEF Settled
    <3> QED
      BY <2>1, <3>1 DEF InStep, Told, Held, Settled, Agree
  <2> QED
    BY <2>1 DEF StoresAgree
<1> QED
  BY <1>1, <1>2, <1>3, PTL DEF ReviewSpec

-----------------------------------------------------------------------------
(* The accounts and roles that callers see: every step is one of theirs.   *)

\* Policies that no account has yet are those the demo script has added for an
\* account of its own transaction; whom it is about to tell Casbin of exists.
Rooted ==
    /\ \A u \in Users : \A r \in RoleNames :
          account[u] = "absent" /\ <<u, r>> \in policy =>
              /\ u \in created /\ script \in {"demo", "sync", "commit"}
              /\ r \in ListedRoles[u]
    /\ script = "assign" => account[Admin] # "absent"
    /\ script = "sync" => account[Demo[turn].user] # "absent" \/ Demo[turn].user \in created

\* Who changes roles of their own has the role by the rows too, until the commit.
SelfManaged == pc # "idle" /\ by = on /\ ~MayDiffer => rows[by]["admin"] > 0

\* A handler writes the policies of its target only, which has an account.
LEMMA HandlerWrites ==
    ASSUME Base, [ReviewNext]_allVars, ~Seed
    PROVE  /\ UNCHANGED seeder
           /\ \A u \in Users : \A r \in RoleNames :
                 account[u] = "absent" => (<<u, r>> \in policy' <=> <<u, r>> \in policy)
<1>1. ASSUME Quiet PROVE UNCHANGED <<policy, seeder>>
  BY <1>1 DEF Quiet
<1>2. CASE Strip \/ Grant
  <2>1. account[on] # "absent" /\ UNCHANGED seeder
    BY <1>2 DEF Base, HandlerOK, Strip, Grant
  <2>2. \A u, r : u # on => (<<u, r>> \in policy' <=> <<u, r>> \in policy)
    BY <1>2 DEF Strip, Grant, WithoutRoles, WithRole
  <2> QED
    BY <2>1, <2>2
<1>3. CASE CommitRoles \/ HandlerFails \/ ApiDies
  <2>1. \A u, r : u # on \/ pc = "idle" => (<<u, r>> \in policy' <=> <<u, r>> \in policy)
    BY <1>3, EndEffect DEF WithoutRoles, WithRole
  <2>2. pc # "idle" => account[on] # "absent"
    BY DEF Base, HandlerOK
  <2> QED
    BY <1>3, <2>1, <2>2, EndEffect
<1>4. ASSUME NEW req \in requests \cup DirectCalls, Begin(req) PROVE UNCHANGED <<policy, seeder>>
  BY <1>4 DEF Begin, stores
<1>5. ASSUME NEW req \in requests \cup DirectCalls, AssignAgain(req)
      PROVE  /\ UNCHANGED seeder
             /\ \A u \in Users : \A r \in RoleNames :
                   account[u] = "absent" => (<<u, r>> \in policy' <=> <<u, r>> \in policy)
  <2>1. account[req.on] # "absent"
    BY <1>5 DEF AssignAgain, Base, AccountsOK, DirectCalls
  <2>2. \A u, r : u # req.on => (<<u, r>> \in policy' <=> <<u, r>> \in policy)
    BY <1>5 DEF AssignAgain, WithRole
  <2> QED
    BY <1>5, <2>1, <2>2 DEF AssignAgain
<1>6. CASE Serve
  BY <1>1, <1>2, <1>3, <1>4, <1>5, <1>6, QuietSteps DEF Serve
<1>7. CASE Elsewhere \/ UNCHANGED vars
  BY <1>7 DEF Elsewhere, vars, stores
<1> QED
  BY <1>3, <1>6, <1>7, RolesStep

\* Accounts come before roles, whatever fails.
LEMMA RootedStep == ASSUME Base, Rooted, [ReviewNext]_allVars PROVE Rooted'
<1>1. CASE ~Seed
  <2>1. UNCHANGED seeder
    BY <1>1, HandlerWrites
  <2>2. script = "assign" => account'[Admin] # "absent"
    BY AccountsRemain, RolesAssumption DEF Rooted
  <2>3. script = "sync" => account'[Demo[turn].user] # "absent" \/ Demo[turn].user \in created
    <3>1. script = "sync" => Demo[turn].user \in Users
      BY DemoEntry DEF Base, ScriptOK
    <3> QED
      BY <3>1, AccountsRemain DEF Rooted
  <2>4. \A u \in Users : \A r \in RoleNames :
            account'[u] = "absent" /\ <<u, r>> \in policy' =>
                account[u] = "absent" /\ <<u, r>> \in policy
    BY <1>1, HandlerWrites, AccountsRemain
  <2> QED
    BY <2>1, <2>2, <2>3, <2>4 DEF Rooted, seeder
<1>2. CASE SeedUsers \/ SeedDemo
  BY <1>2, StartEffect DEF Rooted, stores
<1>3. CASE SeedUsersCommits \/ DemoCommits
  <2>1. /\ UNCHANGED <<policy>> /\ script' \in {"none", "assign"}
        /\ script' = "assign" => created = {Admin}
    BY <1>3, SeededEffect DEF SeedUsersCommits, DemoCommits, Base, ScriptOK
  <2>2. \A u \in Users : account'[u] = "absent" => account[u] = "absent" /\ u \notin created
    BY <1>3, SeededEffect
  <2> QED
    BY <2>1, <2>2, RolesAssumption DEF Rooted
<1>4. CASE SeedUsersAssigns
  <2>1. /\ policy' = policy \cup {<<Admin, "admin">>} /\ UNCHANGED account
        /\ script = "assign" /\ script' = "none"
    BY <1>4 DEF SeedUsersAssigns, WithRole
  <2> QED
    BY <2>1 DEF Rooted
<1>5. CASE DemoReads
  <2>1. /\ UNCHANGED <<account, policy, turn>> /\ script = "demo" /\ script' = "sync"
        /\ created' = IF account[Demo[turn].user] = "absent" THEN created \cup {Demo[turn].user}
                                                              ELSE created
    BY <1>5 DEF DemoReads, stores
  <2> QED
    BY <2>1 DEF Rooted
<1>6. CASE DemoSyncs
  <2>1. /\ script = "sync" /\ script' \in {"demo", "commit"} /\ UNCHANGED <<account, created>>
        /\ policy' = policy \cup {<<Demo[turn].user, r>> : r \in Demo[turn].roles}
    BY <1>6 DEF DemoSyncs, SyncAll
  <2>2. turn \in 1 .. Len(Demo)
    BY <2>1 DEF Base, ScriptOK
  <2>3. \A u \in Users : \A r \in RoleNames :
            u = Demo[turn].user /\ r \in Demo[turn].roles => r \in ListedRoles[u]
    BY <2>2 DEF ListedRoles
  <2>4. \A u, r : <<u, r>> \in policy' <=>
            \/ <<u, r>> \in policy
            \/ u = Demo[turn].user /\ r \in Demo[turn].roles
    BY <2>1
  <2> QED
    BY <2>1, <2>3, <2>4 DEF Rooted
<1>7. CASE DemoStumbles \/ SeedDies
  BY <1>7 DEF DemoStumbles, SeedDies, SeedGivesUp, Rooted
<1> QED
  BY <1>1, <1>2, <1>3, <1>4, <1>5, <1>6, <1>7 DEF Seed

\* The rows stay until the commit, while nothing disturbs the handler.
LEMMA SelfManagedStep ==
    ASSUME Base, Distinct, InStep, SelfManaged, [ReviewNext]_allVars
    PROVE  SelfManaged'
<1> SUFFICES ASSUME pc' # "idle", by' = on', struck' \subseteq {"self"}
             PROVE  rows'[by']["admin"] > 0
  BY DEF SelfManaged, MayDiffer
<1>1. struck \subseteq {"self"}
  BY StruckGrows
<1>2. ASSUME Quiet PROVE rows'[by']["admin"] > 0
  BY <1>1, <1>2 DEF Quiet, SelfManaged, MayDiffer, handler
<1>3. CASE Strip \/ Grant
  BY <1>1, <1>3 DEF Strip, Grant, SelfManaged, MayDiffer
<1>4. ASSUME NEW req \in requests \cup DirectCalls, Begin(req)
      PROVE  rows'[by']["admin"] > 0
  <2>1. /\ pc = "idle" /\ script = "none" /\ UNCHANGED <<rows, policy>>
        /\ by' = req.by /\ req.by \in Users /\ req.by \in Managers
    BY <1>4, BeginAlone, BeginEffect DEF stores
  <2>2. <<req.by, "admin">> \in policy /\ "admin" \in RoleNames
    BY <2>1 DEF Managers, Can, Baseline, RoleNames
  <2> QED
    BY <1>1, <2>1, <2>2 DEF InStep, Told, Held
<1>5. ASSUME NEW req \in requests \cup DirectCalls, AssignAgain(req) PROVE FALSE
  BY <1>5 DEF AssignAgain, handler
<1>6. ~(CommitRoles \/ HandlerFails \/ ApiDies)
  BY EndEffect
<1>7. CASE Seed
  BY <1>7, SeedAlone DEF handler
<1> QED
  BY <1>2, <1>3, <1>4, <1>5, <1>6, <1>7, QuietSteps, RolesStep DEF Serve

\* What callers see of a user, unless a handler that nothing has disturbed is at work.
LEMMA SeenRoles ==
    ASSUME NEW u \in Users
    PROVE  /\ InForce[u] = RolesOf(u) /\ RolesOf(u) \in SUBSET RoleNames
           /\ account[u] = "absent" => RolesOf(u) = {}
           /\ account[u] # "absent" /\ (pc = "idle" \/ on # u \/ MayDiffer)
                 => RolesOf(u) = {r \in RoleNames : <<u, r>> \in policy}
           /\ account[u] # "absent" /\ pc # "idle" /\ on = u /\ ~MayDiffer
                 => RolesOf(u) = {r \in RoleNames : rows[u][r] > 0}
BY DEF InForce, RolesOf

\* A step that callers do not see.
LEMMA UnseenStep ==
    ASSUME UNCHANGED account, MayDiffer' <=> MayDiffer, \A u \in Users : RolesOf(u)' = RolesOf(u)
    PROVE  UNCHANGED Acc!vars
<1>1. InForce' = InForce
  BY DEF InForce
<1>2. MayDiffer' = MayDiffer
  BY DEF MayDiffer
<1> QED
  BY <1>1, <1>2 DEF Acc!vars

\* A step that makes an account.
LEMMA OpeningStep ==
    ASSUME NEW u \in Users, NEW s \in {"invited", "active"}, account[u] = "absent",
           account' = [account EXCEPT ![u] = s], MayDiffer' <=> MayDiffer,
           \A v \in Users : RolesOf(v)' = RolesOf(v)
    PROVE  Acc!Next
<1>1. InForce' = InForce
  BY DEF InForce
<1>2. MayDiffer' = MayDiffer
  BY DEF MayDiffer
<1> QED
  BY <1>1, <1>2 DEF Acc!Next, Acc!Open

\* The roles of one user change.
LEMMA OthersStay ==
    ASSUME NEW u \in Users, \A v \in Users \ {u} : RolesOf(v)' = RolesOf(v)
    PROVE  Acc!Others(u)
<1>1. \A v \in Users : RolesOf(v)' \in SUBSET RoleNames
  BY DEF RolesOf
<1>2. InForce' \in [Users -> SUBSET RoleNames]
  BY <1>1 DEF InForce
<1>3. \A v \in Users \ {u} : InForce'[v] = InForce[v]
  BY DEF InForce
<1> QED
  BY <1>2, <1>3 DEF Acc!Others

\* A manager changes somebody's roles.
LEMMA ChangingStep ==
    ASSUME NEW b \in Users, account[b] = "active", "admin" \in RolesOf(b),
           NEW u \in Users, account[u] # "absent",
           UNCHANGED account, MayDiffer' <=> MayDiffer,
           \A v \in Users \ {u} : RolesOf(v)' = RolesOf(v)
    PROVE  Acc!Next
<1>1. Acc!Manages(b)
  BY SeenRoles DEF Acc!Manages
<1>2. MayDiffer' = MayDiffer
  BY DEF MayDiffer
<1> QED
  BY <1>1, <1>2, OthersStay DEF Acc!Next, Acc!Change

\* A mishap, or its aftermath.
LEMMA TearingStep ==
    ASSUME NEW u \in Users, UNCHANGED account, MayDiffer',
           \A v \in Users \ {u} : RolesOf(v)' = RolesOf(v)
    PROVE  Acc!Next
<1>1. account[u] = "absent" => InForce'[u] = {}
  BY DEF InForce, RolesOf
<1>2. MayDiffer' = TRUE
  BY DEF MayDiffer
<1> QED
  BY <1>1, <1>2, OthersStay DEF Acc!Next, Acc!Tear

\* A seeding script makes accounts and adds roles.
LEMMA SeedingStep ==
    ASSUME NEW new \in SUBSET Users, \A u \in new : account[u] = "absent",
           account' = [u \in Users |-> IF u \in new THEN "active" ELSE account[u]],
           MayDiffer' <=> MayDiffer,
           \A u \in Users : /\ RolesOf(u) \subseteq RolesOf(u)'
                            /\ RolesOf(u)' \subseteq RolesOf(u) \cup ListedRoles[u]
    PROVE  Acc!Next
<1>1. \A u \in Users : RolesOf(u)' \in SUBSET RoleNames
  BY DEF RolesOf
<1>2. InForce' \in [Users -> SUBSET RoleNames]
  BY <1>1 DEF InForce
<1>3. ASSUME NEW u \in Users
      PROVE  /\ InForce[u] \subseteq InForce'[u] /\ InForce'[u] \subseteq InForce[u] \cup ListedRoles[u]
             /\ account'[u] = "absent" => InForce'[u] = {}
  <2>1. InForce[u] = RolesOf(u) /\ InForce'[u] = RolesOf(u)'
    BY DEF InForce
  <2>2. account'[u] = "absent" => RolesOf(u)' = {}
    BY DEF RolesOf
  <2> QED
    BY <2>1, <2>2
<1>4. MayDiffer' = MayDiffer
  BY DEF MayDiffer
<1>5. Acc!Seed(new)
  BY <1>2, <1>3, <1>4 DEF Acc!Seed
<1> QED
  BY <1>5 DEF Acc!Next

\* Registration and invitation.
LEMMA SeenAccounts ==
    ASSUME Base, Rooted, (\E u \in Users : Register(u)) \/ (\E req \in requests : InviteUser(req))
    PROVE  [Acc!Next]_(Acc!vars)
<1>1. PICK u \in Users, s \in {"invited", "active"} :
          \/ account' = account
          \/ account[u] = "absent" /\ u \notin created /\ account' = [account EXCEPT ![u] = s]
  <2>1. \A req \in requests : req.on \in Users
    BY DEF Base, TypeOK, Requests
  <2> QED
    BY <2>1 DEF Register, InviteUser, Free
<1>2. UNCHANGED <<rows, policy, pc, on, struck>> /\ pc = "idle"
  BY DEF Register, InviteUser, handler, mishaps
<1>3. MayDiffer' <=> MayDiffer
  BY <1>2 DEF MayDiffer
<1>4. CASE account' = account
  <2>1. \A v \in Users : RolesOf(v)' = RolesOf(v)
    BY <1>2, <1>3, <1>4 DEF RolesOf
  <2> QED
    BY <1>3, <1>4, <2>1, UnseenStep
<1>5. CASE account[u] = "absent" /\ u \notin created /\ account' = [account EXCEPT ![u] = s]
  <2>1. \A r \in RoleNames : <<u, r>> \notin policy
    BY <1>5 DEF Rooted
  <2>2. \A v \in Users \ {u} : account'[v] = account[v]
    BY <1>5 DEF Base, TypeOK
  <2>3. \A v \in Users : RolesOf(v)' = RolesOf(v)
    BY <1>2, <1>3, <1>5, <2>1, <2>2 DEF RolesOf
  <2> QED
    BY <1>3, <1>5, <2>3, OpeningStep
<1> QED
  BY <1>1, <1>4, <1>5

\* A handler that starts is not seen, unless a mishap comes with it.
LEMMA SeenBegin ==
    ASSUME Base, InStep, NEW req \in requests \cup DirectCalls, Begin(req)
    PROVE  [Acc!Next]_(Acc!vars)
<1>1. /\ pc = "idle" /\ pc' # "idle" /\ on' = req.on /\ req.on \in Users
      /\ UNCHANGED <<account, rows, policy>> /\ struck \subseteq struck'
  BY BeginEffect DEF stores
<1>2. \A v \in Users \ {req.on} : RolesOf(v)' = RolesOf(v)
  BY <1>1 DEF RolesOf
<1>3. CASE MayDiffer'
  BY <1>1, <1>2, <1>3, TearingStep
<1>4. CASE ~MayDiffer'
  <2>1. script = "none" /\ ~MayDiffer
    BY <1>1, <1>4, BeginAlone DEF MayDiffer
  <2>2. \A r \in RoleNames : <<req.on, r>> \in policy <=> rows[req.on][r] > 0
    BY <1>1, <2>1 DEF InStep, Told, Held, MayDiffer
  <2>3. RolesOf(req.on)' = RolesOf(req.on)
    BY <1>1, <1>4, <2>1, <2>2 DEF RolesOf
  <2> QED
    BY <1>1, <1>2, <1>4, <2>1, <2>3, UnseenStep
<1> QED
  BY <1>3, <1>4

\* Nor is a policy that is there already.
LEMMA SeenAssignAgain ==
    ASSUME Base, InStep, NEW req \in requests \cup DirectCalls, AssignAgain(req)
    PROVE  [Acc!Next]_(Acc!vars)
<1>1. req \in Requests \cup Calls /\ req.op = "assign"
  BY DEF Base, TypeOK, DirectCalls, AssignAgain
<1>2. req.on \in Users /\ Len(req.roles) = 1
  BY <1>1 DEF Requests, Calls
<1>3. /\ pc = "idle" /\ UNCHANGED <<account, rows, pc>> /\ struck \subseteq struck'
      /\ policy' = policy \cup {<<req.on, req.roles[1]>>}
      /\ req.roles[1] \in RoleNames /\ rows[req.on][req.roles[1]] = 1
  BY <1>2 DEF AssignAgain, Valid, WithRole, handler, Strike
<1>4. CASE MayDiffer'
  <2>1. \A v \in Users \ {req.on} : RolesOf(v)' = RolesOf(v)
    BY <1>3 DEF RolesOf
  <2> QED
    BY <1>2, <1>3, <1>4, <2>1, TearingStep
<1>5. CASE ~MayDiffer'
  <2>1. script = "none" /\ ~MayDiffer
    BY <1>3, <1>5, BeginAlone DEF MayDiffer
  <2>2. <<req.on, req.roles[1]>> \in policy
    BY <1>2, <1>3, <2>1 DEF InStep, Told, Held, MayDiffer
  <2>3. \A v \in Users : RolesOf(v)' = RolesOf(v)
    BY <1>3, <2>2 DEF RolesOf
  <2> QED
    BY <1>3, <1>5, <2>1, <2>3, UnseenStep
<1> QED
  BY <1>4, <1>5

\* A handler's writes are not seen before its commit, which is the change.
LEMMA SeenHandler ==
    ASSUME Base, SelfManaged, Strip \/ Grant \/ CommitRoles
    PROVE  [Acc!Next]_(Acc!vars)
<1>1. /\ pc # "idle" /\ UNCHANGED account /\ (MayDiffer' <=> MayDiffer)
      /\ on \in Users /\ by \in Users
      /\ account[by] = "active" /\ account[on] # "absent" /\ (by # on => by \in Managers)
  BY DEF Strip, Grant, CommitRoles, Base, TypeOK, HandlerOK, MayDiffer, mishaps
<1>2. \A u, r : u # on => (<<u, r>> \in policy' <=> <<u, r>> \in policy)
  BY DEF Strip, Grant, CommitRoles, WithoutRoles, WithRole
<1>3. \A v \in Users \ {on} : RolesOf(v)' = RolesOf(v)
  <2>1. \A v \in Users \ {on} : RolesOf(v) = IF account[v] = "absent" THEN {}
                                              ELSE {r \in RoleNames : <<v, r>> \in policy}
    BY DEF RolesOf
  <2>2. on' = on \/ pc' = "idle"
    BY DEF Strip, Grant, CommitRoles, End
  <2>3. \A v \in Users \ {on} : RolesOf(v)' = IF account[v] = "absent" THEN {}
                                               ELSE {r \in RoleNames : <<v, r>> \in policy'}
    BY <1>1, <2>2 DEF RolesOf
  <2> QED
    BY <1>2, <2>1, <2>3
<1>4. CASE MayDiffer
  BY <1>1, <1>3, <1>4, TearingStep
<1>5. CASE ~MayDiffer /\ (Strip \/ Grant)
  <2>1. UNCHANGED <<rows, on>> /\ pc' # "idle"
    BY <1>5, PendingStep DEF Strip, Grant
  <2>2. \A v \in Users : v = on => RolesOf(v)' = RolesOf(v)
    BY <1>1, <1>5, <2>1 DEF RolesOf
  <2>3. \A v \in Users : RolesOf(v)' = RolesOf(v)
    BY <1>3, <2>2
  <2> QED
    BY <1>1, <2>3, UnseenStep
<1>6. CASE ~MayDiffer /\ CommitRoles
  <2>1. "admin" \in RolesOf(by)
    <3>1. CASE by = on
      <4>1. rows[by]["admin"] > 0 /\ "admin" \in RoleNames
        BY <1>1, <1>6, <3>1 DEF SelfManaged, RoleNames
      <4> QED
        BY <1>1, <1>6, <3>1, <4>1, SeenRoles
    <3>2. CASE by # on
      <4>1. <<by, "admin">> \in policy /\ "admin" \in RoleNames
        BY <1>1, <3>2 DEF Managers, Can, Baseline, RoleNames
      <4> QED
        BY <1>1, <3>2, <4>1, SeenRoles
    <3> QED
      BY <3>1, <3>2
  <2> QED
    BY <1>1, <1>3, <2>1, ChangingStep
<1> QED
  BY <1>4, <1>5, <1>6

\* What fails tears the roles of the handler's target at most.
LEMMA SeenFailures ==
    ASSUME Base, HandlerFails \/ ApiDies \/ Elsewhere
    PROVE  [Acc!Next]_(Acc!vars)
<1>1. /\ UNCHANGED account /\ on \in Users
      /\ pc' = "idle" \/ on' = on
      /\ \A u, r : u # on => (<<u, r>> \in policy' <=> <<u, r>> \in policy)
  BY EndEffect DEF WithoutRoles, WithRole, Elsewhere, stores, handler, Base, TypeOK
<1>2. MayDiffer'
  BY DEF HandlerFails, ApiDies, Elsewhere, Strike, MayDiffer
<1>3. \A v \in Users \ {on} : RolesOf(v)' = RolesOf(v)
  <2>1. \A v \in Users \ {on} : RolesOf(v) = IF account[v] = "absent" THEN {}
                                              ELSE {r \in RoleNames : <<v, r>> \in policy}
    BY DEF RolesOf
  <2>2. \A v \in Users \ {on} : RolesOf(v)' = IF account[v] = "absent" THEN {}
                                               ELSE {r \in RoleNames : <<v, r>> \in policy'}
    BY <1>1, <1>2 DEF RolesOf
  <2> QED
    BY <1>1, <2>1, <2>2
<1> QED
  BY <1>1, <1>2, <1>3, TearingStep

\* While nothing has gone wrong a script works alone, so callers see the policies.
LEMMA ScriptSeen ==
    ASSUME Base, Seed
    PROVE  /\ UNCHANGED handler /\ struck \subseteq struck'
           /\ ~MayDiffer' => pc = "idle" /\ ~MayDiffer
           /\ MayDiffer \/ ~MayDiffer' => \A u \in Users :
                 /\ RolesOf(u) = IF account[u] = "absent" THEN {}
                                 ELSE {r \in RoleNames : <<u, r>> \in policy}
                 /\ RolesOf(u)' = IF account'[u] = "absent" THEN {}
                                  ELSE {r \in RoleNames : <<u, r>> \in policy'}
<1>1. UNCHANGED handler
  BY StartEffect, SeededEffect DEF Seed, SeedUsersAssigns, DemoReads, DemoSyncs, DemoStumbles,
         SeedDies, SeedGivesUp
<1>2. struck \subseteq struck'
  BY StrikeTyped, StartEffect, SeededEffect DEF Base, Seed, SeedUsersAssigns, DemoReads, DemoSyncs,
         DemoStumbles, SeedDies, mishaps
<1>3. ~MayDiffer' => pc = "idle" /\ ~MayDiffer
  BY <1>2, SeedAlone DEF MayDiffer
<1>4. MayDiffer => MayDiffer'
  BY <1>2 DEF MayDiffer
<1>5. pc' = pc /\ on' = on
  BY <1>1 DEF handler
<1> QED
  BY <1>1, <1>2, <1>3, <1>4, <1>5 DEF RolesOf

\* The scripts' steps.
LEMMA SeenSeed == ASSUME Base, Rooted, Seed PROVE [Acc!Next]_(Acc!vars)
<1> DEFINE Shown(u) == {r \in RoleNames : <<u, r>> \in policy}
<1>1. CASE SeedUsers \/ SeedDemo
  <2>1. UNCHANGED stores /\ pc' = pc /\ on' = on
    BY <1>1, StartEffect DEF handler
  <2>2. \A v \in Users \ {on} : RolesOf(v)' = RolesOf(v)
    BY <2>1 DEF RolesOf, stores
  <2>3. CASE MayDiffer'
    BY <2>1, <2>2, <2>3, TearingStep DEF Base, TypeOK, stores
  <2>4. CASE ~MayDiffer'
    <3>1. \A u \in Users : RolesOf(u)' = RolesOf(u)
      BY <2>1, <2>4, ScriptSeen DEF stores
    <3> QED
      BY <2>1, <2>4, <3>1, ScriptSeen, UnseenStep DEF stores
  <2> QED
    BY <2>3, <2>4
<1>2. CASE SeedUsersCommits \/ DemoCommits
  <2>1. /\ account' = [u \in Users |-> IF u \in created THEN "active" ELSE account[u]]
        /\ UNCHANGED <<policy, mishaps>>
    BY <1>2 DEF SeedUsersCommits, DemoCommits, SeedCommitted
  <2>2. created \in SUBSET Users /\ \A u \in created : account[u] = "absent"
    BY DEF Base, TypeOK, ScriptOK
  <2>3. MayDiffer' <=> MayDiffer
    BY <2>1 DEF MayDiffer, mishaps
  <2>4. ASSUME NEW u \in Users
        PROVE  RolesOf(u) \subseteq RolesOf(u)' /\ RolesOf(u)' \subseteq RolesOf(u) \cup ListedRoles[u]
    <3>1. /\ RolesOf(u) = IF account[u] = "absent" THEN {} ELSE Shown(u)
          /\ RolesOf(u)' = IF account'[u] = "absent" THEN {} ELSE Shown(u)
      BY <2>1, <2>3, ScriptSeen
    <3>2. account[u] = "absent" => Shown(u) \subseteq ListedRoles[u]
      BY DEF Rooted
    <3>3. account'[u] = "absent" => account[u] = "absent"
      BY <2>1
    <3> HIDE DEF Shown
    <3> QED
      BY <3>1, <3>2, <3>3
  <2> QED
    BY <2>1, <2>2, <2>3, <2>4, SeedingStep
<1>3. CASE SeedUsersAssigns \/ DemoSyncs
  <2>1. PICK w \in Users : \E R \in SUBSET ListedRoles[w] :
            policy' = policy \cup {<<w, r>> : r \in R}
    <3>1. CASE SeedUsersAssigns
      <4>1. policy' = policy \cup {<<Admin, r>> : r \in {"admin"}}
        BY <3>1 DEF SeedUsersAssigns, WithRole
      <4>2. "admin" \in ListedRoles[Admin] /\ Admin \in Users
        BY RolesAssumption DEF ListedRoles, RoleNames
      <4> QED
        BY <4>1, <4>2
    <3>2. CASE DemoSyncs
      <4>1. /\ turn \in 1 .. Len(Demo)
            /\ policy' = policy \cup {<<Demo[turn].user, r>> : r \in Demo[turn].roles}
        BY <3>2 DEF DemoSyncs, SyncAll, Base, ScriptOK
      <4>2. Demo[turn].user \in Users /\ Demo[turn].roles \subseteq RoleNames
        BY <4>1, DemoEntry
      <4>3. Demo[turn].roles \subseteq ListedRoles[Demo[turn].user]
        BY <4>1, <4>2 DEF ListedRoles
      <4> QED
        BY <4>1, <4>2, <4>3
    <3> QED
      BY <1>3, <3>1, <3>2
  <2>2. UNCHANGED <<account, mishaps>>
    BY <1>3 DEF SeedUsersAssigns, DemoSyncs
  <2>3. MayDiffer' <=> MayDiffer
    BY <2>2 DEF MayDiffer, mishaps
  <2>4. ASSUME NEW u \in Users
        PROVE  RolesOf(u) \subseteq RolesOf(u)' /\ RolesOf(u)' \subseteq RolesOf(u) \cup ListedRoles[u]
    <3>1. /\ RolesOf(u) = IF account[u] = "absent" THEN {} ELSE Shown(u)
          /\ RolesOf(u)' = IF account[u] = "absent" THEN {}
                           ELSE {r \in RoleNames : <<u, r>> \in policy'}
      BY <2>2, <2>3, ScriptSeen
    <3>2. \A r : /\ <<u, r>> \in policy => <<u, r>> \in policy'
                 /\ <<u, r>> \in policy' => <<u, r>> \in policy \/ r \in ListedRoles[u]
      BY <2>1
    <3> QED
      BY <3>1, <3>2
  <2>5. account' = [u \in Users |-> IF u \in {} THEN "active" ELSE account[u]]
    BY <2>2 DEF Base, TypeOK
  <2>6. {} \in SUBSET Users /\ \A u \in {} : account[u] = "absent"
    OBVIOUS
  <2> QED
    BY <2>3, <2>4, <2>5, <2>6, SeedingStep
<1>4. CASE DemoReads \/ DemoStumbles \/ SeedDies
  <2>1. UNCHANGED account /\ pc' = pc /\ on' = on
    BY <1>4, ScriptSeen DEF DemoReads, DemoStumbles, SeedDies, SeedGivesUp, stores, handler
  <2>2. \A u, r : account[u] # "absent" => (<<u, r>> \in policy' <=> <<u, r>> \in policy)
    BY <1>4 DEF DemoReads, DemoStumbles, SeedDies, SeedGivesUp, stores, Base, ScriptOK
  <2>3. \A v \in Users \ {on} : RolesOf(v)' = RolesOf(v)
    BY <2>1, <2>2 DEF RolesOf
  <2>4. CASE MayDiffer'
    BY <2>1, <2>3, <2>4, TearingStep DEF Base, TypeOK
  <2>5. CASE ~MayDiffer'
    <3>1. \A u \in Users : RolesOf(u)' = RolesOf(u)
      BY <2>1, <2>2, <2>5, ScriptSeen
    <3> QED
      BY <2>1, <2>5, <3>1, ScriptSeen, UnseenStep
  <2> QED
    BY <2>4, <2>5
<1> QED
  BY <1>1, <1>2, <1>3, <1>4 DEF Seed

\* Every step is one that callers may see, or none.
LEMMA SeenStep ==
    ASSUME Base, InStep, Rooted, SelfManaged, [ReviewNext]_allVars
    PROVE  [Acc!Next]_(Acc!vars)
<1>1. CASE Serve
  <2>1. CASE \/ \E req \in Requests : Admit(req)
             \/ \E req \in requests \cup DirectCalls : Refuse(req)
    <3>1. UNCHANGED <<account, rows, policy, pc, on, struck>>
      BY <2>1 DEF Admit, Refuse, stores, handler, mishaps
    <3>2. (MayDiffer' <=> MayDiffer) /\ \A u \in Users : RolesOf(u)' = RolesOf(u)
      BY <3>1 DEF MayDiffer, RolesOf
    <3> QED
      BY <3>1, <3>2, UnseenStep
  <2> QED
    BY <1>1, <2>1, SeenAccounts, SeenBegin, SeenAssignAgain, SeenHandler, SeenFailures DEF Serve
<1>2. CASE UNCHANGED vars
  <2>1. UNCHANGED <<account, rows, policy, pc, on, struck>>
    BY <1>2 DEF vars, stores, handler, mishaps
  <2>2. (MayDiffer' <=> MayDiffer) /\ \A u \in Users : RolesOf(u)' = RolesOf(u)
    BY <2>1 DEF MayDiffer, RolesOf
  <2> QED
    BY <2>1, <2>2, UnseenStep
<1> QED
  BY <1>1, <1>2, SeenSeed, SeenFailures, RolesStep

\* Role management does what its callers rely on: for any users, lists and
\* faults, every step of handlers, scripts and failures is a step of Access, and a
\* change of roles that nothing has disturbed is one step of an active manager.
THEOREM AccessImplemented == ReviewSpec => ImplementsAccess
<1>1. ReviewInit => /\ Base /\ Distinct /\ InStep /\ Rooted /\ SelfManaged
                    /\ Acc!Init
  <2> SUFFICES ASSUME Init
               PROVE  Distinct /\ InStep /\ Rooted /\ SelfManaged /\ Acc!Init
    BY BaseInit DEF ReviewInit
  <2>1. Distinct /\ InStep
    BY DEF Init, Distinct, InStep, Halfway, Told, Held, NoRows
  <2>2. Rooted /\ SelfManaged
    BY DEF Init, Rooted, SelfManaged
  <2>3. InForce = [u \in Users |-> {}] /\ MayDiffer = FALSE
    BY DEF Init, InForce, RolesOf, MayDiffer
  <2>4. Acc!Init
    BY <2>3 DEF Init, Acc!Init
  <2> QED
    BY <2>1, <2>2, <2>4
<1>2. /\ Base /\ Distinct /\ InStep /\ Rooted /\ SelfManaged
      /\ [ReviewNext]_allVars
      => /\ (Base /\ Distinct /\ InStep /\ Rooted /\ SelfManaged)'
         /\ [Acc!Next]_(Acc!vars)
  BY BaseStep, DistinctStep, InStepStep, RootedStep, SelfManagedStep, SeenStep
<1> QED
  BY <1>1, <1>2, PTL DEF ReviewSpec, ImplementsAccess, Acc!Spec
=============================================================================
