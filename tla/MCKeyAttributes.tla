--------------------------- MODULE MCKeyAttributes ---------------------------
(* Model checking of KeyAttributes. *)
EXTENDS KeyAttributes

(* The pair and the public key of the curves SECP_R1, and the other types. *)
MCKeyTypes ==
    {PSA_KEY_TYPE_RAW_DATA, PSA_KEY_TYPE_HMAC, PSA_KEY_TYPE_AES, PSA_KEY_TYPE_DES,
     PSA_KEY_TYPE_CHACHA20, PSA_KEY_TYPE_RSA_KEY_PAIR, PSA_KEY_TYPE_RSA_PUBLIC_KEY,
     PSA_KEY_TYPE_ECC_KEY_PAIR(EccFamilies.SECP_R1),
     PSA_KEY_TYPE_ECC_PUBLIC_KEY(EccFamilies.SECP_R1),
     PSA_KEY_TYPE_DH_KEY_PAIR(PSA_DH_FAMILY_RFC7919)}

(* Volatile and persistent keys in two locations, and a read-only one. *)
MCLifetimes == {0, 1, 256, 257, 255}

(* The setters of the identifier, the lifetime and the usage touch no      *)
(* field the algorithm depends on: they are exercised on attributes that   *)
(* declare no algorithm and no key type.                                   *)
Separated ==
    \/ /\ attributes.alg = PSA_ALG_NONE
       /\ attributes.type = PSA_KEY_TYPE_NONE
       /\ attributes.bits = 0
    \/ /\ attributes.id = 0
       /\ attributes.lifetime = PSA_KEY_LIFETIME_VOLATILE
       /\ attributes.usage = {}

=============================================================================
