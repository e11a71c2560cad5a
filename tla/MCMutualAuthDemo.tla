-------------------------- MODULE MCMutualAuthDemo --------------------------
(***************************************************************************)
(* TLC instances of MutualAuthDemo.                                        *)
(***************************************************************************)
EXTENDS MutualAuthDemo
=============================================================================
