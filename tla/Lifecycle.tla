----------------------------- MODULE Lifecycle ------------------------------
(***************************************************************************)
(* What an operator may rely on: a document is filed, and then its fate is *)
(* decided once.  It is classified, with one result, or it has failed and  *)
(* stays so until somebody intervenes (app/infra/queue.py:11-14).  Nothing *)
(* is said of queues, retries, workers or transactions.                    *)
(*                                                                         *)
(* The promise holds until the queue takes a live worker for a dead one.   *)
(* From then on a decided document may be decided again.                   *)
(***************************************************************************)
EXTENDS Naturals

CONSTANT Docs

VARIABLES
    fate,       \* what the operator is told of each document
    results,    \* how many results each document has
    suspected   \* was a live worker taken for dead

vars == <<fate, results, suspected>>

Fates == {"unfiled", "pending", "failed", "classified"}

TypeOK ==
    /\ fate \in [Docs -> Fates]
    /\ results \in [Docs -> Nat]
    /\ suspected \in BOOLEAN

Init ==
    /\ fate = [d \in Docs |-> "unfiled"]
    /\ results = [d \in Docs |-> 0]
    /\ suspected = FALSE

File(d) ==
    /\ fate[d] = "unfiled"
    /\ fate' = [fate EXCEPT ![d] = "pending"]
    /\ UNCHANGED <<results, suspected>>

Classify(d) ==
    /\ fate[d] = "pending" \/ (suspected /\ fate[d] # "unfiled")
    /\ fate' = [fate EXCEPT ![d] = "classified"]
    /\ results' = [results EXCEPT ![d] = @ + 1]
    /\ UNCHANGED suspected

Fail(d) ==
    /\ fate[d] = "pending"
    /\ fate' = [fate EXCEPT ![d] = "failed"]
    /\ UNCHANGED <<results, suspected>>

\* Nobody intervenes but a second worker at the same document.
TakeUpAgain(d) ==
    /\ suspected /\ fate[d] = "failed"
    /\ fate' = [fate EXCEPT ![d] = "pending"]
    /\ UNCHANGED <<results, suspected>>

Suspect ==
    /\ ~suspected /\ suspected' = TRUE
    /\ UNCHANGED <<fate, results>>

Next ==
    \/ \E d \in Docs : File(d) \/ Classify(d) \/ Fail(d) \/ TakeUpAgain(d)
    \/ Suspect

Spec == Init /\ [][Next]_vars
=============================================================================
