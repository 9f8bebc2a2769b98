------------------------------- MODULE Access -------------------------------
(***************************************************************************)
(* What a caller of the API may rely on about accounts and roles: a change *)
(* of somebody's roles is one step (role_management.py:164), taken by an   *)
(* active account that has the role admin at that moment.  The seeding     *)
(* scripts make accounts and give them the roles on their lists, and take  *)
(* none away.  Nothing is said of rows, policies, transactions or requests.*)
(*                                                                         *)
(* The promise holds until the two stores of roles may have come apart.    *)
(* From then on the roles of any one user may be anything, and still no    *)
(* account is deactivated or deleted, or has roles before it exists.       *)
(***************************************************************************)

CONSTANTS
    Users,
    Names,   \* the roles
    Listed   \* users: the roles that the seeding scripts have for them

VARIABLES
    account,
    roles,   \* what each user is entitled by
    torn     \* may the stores have come apart

vars == <<account, roles, torn>>

Init ==
    /\ account = [u \in Users |-> "absent"]
    /\ roles = [u \in Users |-> {}]
    /\ torn = FALSE

Manages(u) == account[u] = "active" /\ "admin" \in roles[u]

\* Anybody may have an account, without a role.
Open(u, state) ==
    /\ account[u] = "absent"
    /\ account' = [account EXCEPT ![u] = state]
    /\ UNCHANGED <<roles, torn>>

\* The roles of everybody else stay.
Others(u) ==
    /\ \A v \in Users \ {u} : roles'[v] = roles[v]
    /\ roles' \in [Users -> SUBSET Names]

Change(by, u) ==
    /\ Manages(by) /\ account[u] # "absent"
    /\ UNCHANGED <<account, torn>>
    /\ Others(u)

Seed(new) ==
    /\ UNCHANGED torn
    /\ \A u \in new : account[u] = "absent"
    /\ account' = [u \in Users |-> IF u \in new THEN "active" ELSE account[u]]
    /\ \A u \in Users :
          /\ roles[u] \subseteq roles'[u] /\ roles'[u] \subseteq roles[u] \cup Listed[u]
          /\ account'[u] = "absent" => roles'[u] = {}
    /\ roles' \in [Users -> SUBSET Names]

Tear(u) ==
    /\ torn' = TRUE
    /\ UNCHANGED account
    /\ Others(u)
    /\ account[u] = "absent" => roles'[u] = {}

Next ==
    \/ \E u \in Users : Open(u, "invited") \/ Open(u, "active")
    \/ \E by, u \in Users : Change(by, u)
    \/ \E new \in SUBSET Users : Seed(new)
    \/ \E u \in Users : Tear(u)

Spec == Init /\ [][Next]_vars
=============================================================================
