---------------------------- MODULE MCOutboxRelay ----------------------------
(* Two events; the relay without a filter beside the digest worker, as       *)
(* compose.prod.yaml runs them.                                              *)
EXTENDS OutboxRelay

CONSTANTS relay, digest, report, other

AllReports == [e \in Events |-> report]
OneReport == [e \in Events |-> IF e = 1 THEN report ELSE other]
OwnName == [w \in Workers |-> w]
ComposeSubscription == [w \in Workers |-> IF w = digest THEN {report} ELSE Types]
==============================================================================
