--------------------------- MODULE MCQueryWorkflow ---------------------------
(***************************************************************************)
(* A small instance of QueryWorkflow: two posts, under one request id that *)
(* a client repeats or under fresh ones, and a provider that is asked      *)
(* twice at most.                                                          *)
(***************************************************************************)
EXTENDS QueryWorkflow

CONSTANT c

MCClientIds == {c}
=============================================================================
