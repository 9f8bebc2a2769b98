------------------------------ MODULE MCAccess ------------------------------
(* Two accounts, both of the demo list; a prediction of either confidence. *)
EXTENDS Review

CONSTANTS a, b, p

MCUsers == {a, b}
MCDemo == <<[user |-> a, roles |-> {"admin"}], [user |-> b, roles |-> {"reviewer"}]>>
MCRoleLists == {<<>>, <<"admin">>, <<"admin", "admin">>}
MCPredictions == {p}
MCClasses == {"memo"}
MCSubmitted == {"memo", "cat"}
=============================================================================
