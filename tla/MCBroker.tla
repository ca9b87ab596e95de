------------------------------ MODULE MCBroker ------------------------------
(***************************************************************************)
(* Runs of the broker: the specification with fairness for the liveness    *)
(* run, the plain one for the others.                                      *)
(***************************************************************************)
EXTENDS BrokerSafety
=============================================================================
