--------------------------- MODULE MCQueryWorkspace ---------------------------
(***************************************************************************)
(* A small instance of QueryWorkspace: three questions, so that a result   *)
(* may follow another while feedback on the first is on its way.           *)
(***************************************************************************)
EXTENDS QueryWorkspace
=============================================================================
