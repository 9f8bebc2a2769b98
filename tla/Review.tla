------------------------------- MODULE Review -------------------------------
(***************************************************************************)
(* PredictionReviewService (app/services/prediction_review.py) beside role *)
(* management: reviewers and managers put labels on predictions while the  *)
(* roles that allow it come and go.                                        *)
(*                                                                         *)
(* The handler of POST /predictions/{id}/review runs in the same event     *)
(* loop as the handlers of Roles, so none of them is under way when it     *)
(* runs, and nobody sees the database between its checks and its commit:   *)
(* it is one step, which a failure of the database makes void or leaves    *)
(* committed without an answer.  The prediction itself, its class and its  *)
(* confidence, is no variable: nothing in the service writes them.         *)
(***************************************************************************)
EXTENDS Roles

CONSTANTS
    Predictions, \* committed predictions
    Classes,     \* the RVL-CDIP classes
    Submitted,   \* the labels requests carry, a class or not
    None

ASSUME ReviewAssumption == None \notin Submitted \X Users

VARIABLES
    eligible,   \* review_eligible: the confidence is below 0.7
    label,      \* review_label with reviewed_by_user_id
    trail,      \* audit events prediction.relabeled
    asked       \* reviews past the permission dependency, not yet handled

reviewVars == <<eligible, label, trail, asked>>
allVars == <<vars, reviewVars>>

Reviews == [by : Users, of : Predictions, label : Submitted]

\* Types only.
ReviewTypeOK ==
    /\ TypeOK
    /\ eligible \subseteq Predictions
    /\ label \in [Predictions -> (Classes \X Users) \cup {None}]
    /\ trail \subseteq Predictions \X (Classes \X Users)
    /\ asked \subseteq Reviews

ReviewInit ==
    /\ Init
    /\ eligible \in SUBSET Predictions
    /\ label = [p \in Predictions |-> None]
    /\ trail = {} /\ asked = {}

\* The dependency of the route; the request has exactly one label.
AskReview(r) ==
    /\ pc = "idle"
    /\ Cardinality(requests) + Cardinality(asked) < MaxRequests
    /\ account[r.by] = "active" /\ Can(r.by, "predictions.relabel")
    /\ asked' = asked \cup {r}
    /\ UNCHANGED <<vars, eligible, label, trail>>

\* Mutant: the permission dependency of the route is taken to be enough.
AskedIsEnough(r) == r.of \in eligible \/ Can(r.by, "roles.manage")

\* require_permission and the confidence, which a manager need not mind.
MayLabel(r) ==
    /\ Can(r.by, "predictions.relabel")
    /\ r.of \in eligible \/ Can(r.by, "roles.manage")

\* Mutant: the event is recorded for a first label only.
FirstLabelled(r) ==
    /\ label' = [label EXCEPT ![r.of] = <<r.label, r.by>>]
    /\ trail' = IF label[r.of] = None THEN trail \cup {<<r.of, <<r.label, r.by>>>>} ELSE trail

\* What the commit makes visible: the label and its audit event.
Labelled(r) ==
    /\ label' = [label EXCEPT ![r.of] = <<r.label, r.by>>]
    /\ trail' = trail \cup {<<r.of, <<r.label, r.by>>>>}

Relabel(r) ==
    /\ pc = "idle" /\ r \in asked
    /\ MayLabel(r) /\ r.label \in Classes
    /\ Labelled(r)
    /\ asked' = asked \ {r}
    /\ UNCHANGED <<vars, eligible>>

\* 403, 409 or 422.
RejectReview(r) ==
    /\ pc = "idle" /\ r \in asked
    /\ ~(MayLabel(r) /\ r.label \in Classes)
    /\ asked' = asked \ {r}
    /\ UNCHANGED <<vars, eligible, label, trail>>

RelabelFails(r) ==
    /\ pc = "idle" /\ r \in asked
    /\ MayLabel(r) /\ r.label \in Classes
    /\ Strike({"db"})
    /\ Labelled(r) \/ UNCHANGED <<label, trail>>
    /\ asked' = asked \ {r}
    /\ UNCHANGED <<stores, requests, handler, seeder, eligible>>

ReviewNext ==
    \/ (Serve \/ Seed) /\ UNCHANGED reviewVars
    \/ ApiDies /\ asked' = {} /\ UNCHANGED <<eligible, label, trail>>
    \/ \E r \in Reviews : AskReview(r)
    \/ \E r \in asked : Relabel(r) \/ RejectReview(r) \/ RelabelFails(r)

ReviewSpec == ReviewInit /\ [][ReviewNext]_allVars

-----------------------------------------------------------------------------
(* What review promises.                                                   *)

\* A later reviewer overwrites an earlier one's label unasked
\* (prediction_review.py:107-110), but the audit trail has every label that a
\* prediction ever showed.
LabelsAreAudited ==
    [][\A p \in Predictions : label[p] # None =>
         <<p, label[p]>> \in trail /\ <<p, label'[p]>> \in trail']_allVars

\* A label appears only while its author has the permission, and on a confident
\* prediction only while the author can manage roles (prediction_review.py:89-104),
\* even if a role went between admission and handling.
LabelsAreAuthorised ==
    [][\A p \in Predictions : label'[p] # label[p] =>
         /\ Can(label'[p][2], "predictions.relabel")
         /\ p \in eligible \/ label'[p][2] \in Managers]_allVars
=============================================================================
