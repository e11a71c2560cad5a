---------------------------- MODULE MCPkiPkcs11 ----------------------------
(* An instance of PkiPkcs11 for TLC: signatures of two bytes a number, with *)
(* leading zeros and with first bytes on both sides of the sign bit.        *)
EXTENDS PkiPkcs11

MCNumbers == {<<0, 1>>, <<127, 0>>, <<128, 5>>}
MCRawSignatures == MCNumbers \X MCNumbers
=============================================================================
