---------------------------- MODULE MCPsaClient ----------------------------
(***************************************************************************)
(* TLC instance of PsaClient: the first task has two operation structures. *)
(***************************************************************************)
EXTENDS PsaClient, TLC

CONSTANTS t1, t2, o1, o2, o3

MCUserOf == (o1 :> t1) @@ (o2 :> t1) @@ (o3 :> t2)
=============================================================================
