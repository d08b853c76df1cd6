-------------------------- MODULE MCCircuitBreaker --------------------------
(* Two agents and three callers: enough for a queue behind a holder whose   *)
(* successor guards another agent, and for a query that stops at the first  *)
(* open agent of its list.                                                  *)
EXTENDS CircuitBreaker

CONSTANTS a1, a2

MCQueries == {<<a1>>, <<a1, a2>>, <<a2, a1>>}
=============================================================================
