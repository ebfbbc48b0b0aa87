---------------------------- MODULE MCConnections ----------------------------
(* Connections on a small instance: two transactions exhaust the main      *)
(* pool, and one statement any other.                                      *)
EXTENDS Connections

MCPoolMax ==
  [MAIN |-> 2, ANALYTICS |-> 1, TENANT |-> 1, LOGS |-> 1]
=============================================================================
