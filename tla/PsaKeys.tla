------------------------------- MODULE PsaKeys -------------------------------
(***************************************************************************)
(* The store of PSA crypto as the provisioning code uses it: which         *)
(* identifiers there are, and what has to hold of the keys behind them.    *)
(* The services that change it are in PkiObjects.                          *)
(***************************************************************************)

VARIABLE
    keys    \* PSA crypto: key by identifier, NoKey if there is none

\* A key is its number, its curve and whether it is a pair.
NoKey == [n |-> 0, curve |-> "none", pair |-> FALSE]

PSA_TLS_PRV_KEY_ID == 1
PSA_TLS_PUB_KEY_ID == 16
OTA_SIGNING_KEY_ID == 17

KeyIds == {PSA_TLS_PRV_KEY_ID, PSA_TLS_PUB_KEY_ID, OTA_SIGNING_KEY_ID}

\* When the device has both keys of its pair they belong together, whichever
\* call of xPkiGenerateECKeypair failed or was cut off by a reset.
PairMatches ==
    LET prv == keys[PSA_TLS_PRV_KEY_ID]  pub == keys[PSA_TLS_PUB_KEY_ID]
    IN  prv # NoKey /\ pub # NoKey => prv.n = pub.n
=============================================================================
