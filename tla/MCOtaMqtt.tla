----------------------------- MODULE MCOtaMqtt -----------------------------
(* Instances of OtaMqtt for TLC. *)
EXTENDS OtaMqtt
=============================================================================
