------------------------------ MODULE PsaValues ------------------------------
(***************************************************************************)
(* The encodings of key types, algorithms and key lifetimes that the       *)
(* application hands to the secure firmware: the macros of                 *)
(* psa/crypto_values.h.  A value is the record of its bit fields; masking  *)
(* a field out is an EXCEPT, extracting it a selection.                    *)
(*                                                                         *)
(* Key type, 16 bits:   cat 14..12 | blk 11..8 | low 7..0                  *)
(* Algorithm, 32 bits:  cat 30..24 | sub 23..22 | len 21..16 | least 15 |  *)
(*                      mid 14..8 | hash 7..0                              *)
(* The vendor flags (bit 15 and bit 31) are never set by this program.     *)
(***************************************************************************)
EXTENDS Integers

----------------------------------------------------------------------------
(* Key types. *)

KeyType(cat, blk, low) == [cat |-> cat, blk |-> blk, low |-> low]

PSA_KEY_TYPE_NONE == KeyType(0, 0, 0)
PSA_KEY_TYPE_CATEGORY_RAW == 1
PSA_KEY_TYPE_CATEGORY_SYMMETRIC == 2
PSA_KEY_TYPE_CATEGORY_PUBLIC_KEY == 4
PSA_KEY_TYPE_CATEGORY_KEY_PAIR == 7

(* The unstructured key types and data. *)
PSA_KEY_TYPE_RAW_DATA == KeyType(1, 0, 1)
PSA_KEY_TYPE_HMAC == KeyType(1, 1, 0)
PSA_KEY_TYPE_DERIVE == KeyType(1, 2, 0)
PSA_KEY_TYPE_PASSWORD == KeyType(1, 2, 3)
PSA_KEY_TYPE_PASSWORD_HASH == KeyType(1, 2, 5)
PSA_KEY_TYPE_PEPPER == KeyType(1, 2, 6)

(* The cipher keys: blk is the exponent of the block size. *)
PSA_KEY_TYPE_AES == KeyType(2, 4, 0)
PSA_KEY_TYPE_ARIA == KeyType(2, 4, 6)
PSA_KEY_TYPE_DES == KeyType(2, 3, 1)
PSA_KEY_TYPE_CAMELLIA == KeyType(2, 4, 3)
PSA_KEY_TYPE_CHACHA20 == KeyType(2, 0, 4)

PSA_KEY_TYPE_RSA_PUBLIC_KEY == KeyType(4, 0, 1)
PSA_KEY_TYPE_RSA_KEY_PAIR == KeyType(7, 0, 1)
PSA_KEY_TYPE_DSA_PUBLIC_KEY == KeyType(4, 0, 2)
PSA_KEY_TYPE_DSA_KEY_PAIR == KeyType(7, 0, 2)
PSA_KEY_TYPE_ECC_KEY_PAIR(curve) == KeyType(7, 1, curve)
PSA_KEY_TYPE_ECC_PUBLIC_KEY(curve) == KeyType(4, 1, curve)
PSA_KEY_TYPE_DH_KEY_PAIR(group) == KeyType(7, 2, group)
PSA_KEY_TYPE_DH_PUBLIC_KEY(group) == KeyType(4, 2, group)

(* psa_ecc_family_t and psa_dh_family_t; 0 is no family. *)
EccFamilies ==
    [SECP_K1 |-> 23, SECP_R1 |-> 18, SECP_R2 |-> 27, SECT_K1 |-> 39,
     SECT_R1 |-> 34, SECT_R2 |-> 43, BRAINPOOL_P_R1 |-> 48,
     MONTGOMERY |-> 65, TWISTED_EDWARDS |-> 66]
PSA_DH_FAMILY_RFC7919 == 3

PSA_KEY_TYPE_IS_UNSTRUCTURED(type) ==
    type.cat \in {PSA_KEY_TYPE_CATEGORY_RAW, PSA_KEY_TYPE_CATEGORY_SYMMETRIC}

(* The two low bits of the category tell a pair from its public key. *)
PSA_KEY_TYPE_IS_ASYMMETRIC(type) ==
    type.cat - (type.cat % 4) = PSA_KEY_TYPE_CATEGORY_PUBLIC_KEY

PSA_KEY_TYPE_IS_PUBLIC_KEY(type) == type.cat = PSA_KEY_TYPE_CATEGORY_PUBLIC_KEY

PSA_KEY_TYPE_IS_KEY_PAIR(type) == type.cat = PSA_KEY_TYPE_CATEGORY_KEY_PAIR

PSA_KEY_TYPE_KEY_PAIR_OF_PUBLIC_KEY(type) ==
    [type EXCEPT !.cat = @ - (@ % 4) + 3]

PSA_KEY_TYPE_PUBLIC_KEY_OF_KEY_PAIR(type) ==
    [type EXCEPT !.cat = @ - (@ % 4)]

PSA_KEY_TYPE_IS_RSA(type) ==
    PSA_KEY_TYPE_PUBLIC_KEY_OF_KEY_PAIR(type) = PSA_KEY_TYPE_RSA_PUBLIC_KEY

PSA_KEY_TYPE_IS_ECC(type) ==
    [PSA_KEY_TYPE_PUBLIC_KEY_OF_KEY_PAIR(type) EXCEPT !.low = 0]
        = PSA_KEY_TYPE_ECC_PUBLIC_KEY(0)

PSA_KEY_TYPE_IS_ECC_KEY_PAIR(type) ==
    [type EXCEPT !.low = 0] = PSA_KEY_TYPE_ECC_KEY_PAIR(0)

PSA_KEY_TYPE_IS_ECC_PUBLIC_KEY(type) ==
    [type EXCEPT !.low = 0] = PSA_KEY_TYPE_ECC_PUBLIC_KEY(0)

PSA_KEY_TYPE_ECC_GET_FAMILY(type) ==
    IF PSA_KEY_TYPE_IS_ECC(type) THEN type.low ELSE 0

PSA_KEY_TYPE_IS_DH(type) ==
    [PSA_KEY_TYPE_PUBLIC_KEY_OF_KEY_PAIR(type) EXCEPT !.low = 0]
        = PSA_KEY_TYPE_DH_PUBLIC_KEY(0)

PSA_KEY_TYPE_IS_DH_KEY_PAIR(type) ==
    [type EXCEPT !.low = 0] = PSA_KEY_TYPE_DH_KEY_PAIR(0)

PSA_KEY_TYPE_IS_DH_PUBLIC_KEY(type) ==
    [type EXCEPT !.low = 0] = PSA_KEY_TYPE_DH_PUBLIC_KEY(0)

PSA_KEY_TYPE_DH_GET_FAMILY(type) ==
    IF PSA_KEY_TYPE_IS_DH(type) THEN type.low ELSE 0

(* 1 << exponent, of three bits. *)
PowerOfTwo == [e \in 0 .. 7 |->
    CASE e = 0 -> 1 [] e = 1 -> 2 [] e = 2 -> 4 [] e = 3 -> 8
      [] e = 4 -> 16 [] e = 5 -> 32 [] e = 6 -> 64 [] e = 7 -> 128]
PSA_BLOCK_CIPHER_BLOCK_LENGTH(type) ==
    IF type.cat = PSA_KEY_TYPE_CATEGORY_SYMMETRIC THEN PowerOfTwo[type.blk % 8] ELSE 0

----------------------------------------------------------------------------
(* Algorithms. *)

Algorithm(cat, sub, len, least, mid, hash) ==
    [cat |-> cat, sub |-> sub, len |-> len,
     least |-> least, mid |-> mid, hash |-> hash]

PSA_ALG_NONE == Algorithm(0, 0, 0, 0, 0, 0)

PSA_ALG_CATEGORY_HASH == 2
PSA_ALG_CATEGORY_MAC == 3
PSA_ALG_CATEGORY_CIPHER == 4
PSA_ALG_CATEGORY_AEAD == 5
PSA_ALG_CATEGORY_SIGN == 6
PSA_ALG_CATEGORY_ASYMMETRIC_ENCRYPTION == 7
PSA_ALG_CATEGORY_KEY_DERIVATION == 8
PSA_ALG_CATEGORY_KEY_AGREEMENT == 9

PSA_ALG_IS_HASH(alg) == alg.cat = PSA_ALG_CATEGORY_HASH
PSA_ALG_IS_MAC(alg) == alg.cat = PSA_ALG_CATEGORY_MAC
PSA_ALG_IS_CIPHER(alg) == alg.cat = PSA_ALG_CATEGORY_CIPHER
PSA_ALG_IS_AEAD(alg) == alg.cat = PSA_ALG_CATEGORY_AEAD
PSA_ALG_IS_SIGN(alg) == alg.cat = PSA_ALG_CATEGORY_SIGN
PSA_ALG_IS_ASYMMETRIC_ENCRYPTION(alg) ==
    alg.cat = PSA_ALG_CATEGORY_ASYMMETRIC_ENCRYPTION
PSA_ALG_IS_KEY_AGREEMENT(alg) == alg.cat = PSA_ALG_CATEGORY_KEY_AGREEMENT
PSA_ALG_IS_KEY_DERIVATION(alg) == alg.cat = PSA_ALG_CATEGORY_KEY_DERIVATION
PSA_ALG_IS_KEY_DERIVATION_STRETCHING(alg) ==
    PSA_ALG_IS_KEY_DERIVATION(alg) /\ alg.sub >= 2

(* alg & ~PSA_ALG_HASH_MASK *)
Scheme(alg) == [alg EXCEPT !.hash = 0]

(* base | (hash_alg & PSA_ALG_HASH_MASK) *)
WithHash(base, hash_alg) == [base EXCEPT !.hash = hash_alg.hash]

(* The hash functions by the number in their low byte. *)
PsaHash(n) == Algorithm(PSA_ALG_CATEGORY_HASH, 0, 0, 0, 0, n)
HashNumbers ==
    [MD5 |-> 3, RIPEMD160 |-> 4, SHA_1 |-> 5, SHA_224 |-> 8, SHA_256 |-> 9,
     SHA_384 |-> 10, SHA_512 |-> 11, SHA_512_224 |-> 12, SHA_512_256 |-> 13,
     SHA3_224 |-> 16, SHA3_256 |-> 17, SHA3_384 |-> 18, SHA3_512 |-> 19,
     SHAKE256_512 |-> 21]
PSA_ALG_ANY_HASH == PsaHash(255)

(* MACs: sub 2 is HMAC, sub 3 a block cipher MAC; len 0 is untruncated. *)
PSA_ALG_HMAC_BASE == Algorithm(PSA_ALG_CATEGORY_MAC, 2, 0, 0, 0, 0)
PSA_ALG_CBC_MAC == Algorithm(PSA_ALG_CATEGORY_MAC, 3, 0, 0, 1, 0)
PSA_ALG_CMAC == Algorithm(PSA_ALG_CATEGORY_MAC, 3, 0, 0, 2, 0)

PSA_ALG_HMAC(hash_alg) == WithHash(PSA_ALG_HMAC_BASE, hash_alg)
PSA_ALG_HMAC_GET_HASH(hmac_alg) == PsaHash(hmac_alg.hash)
PSA_ALG_IS_HMAC(alg) == PSA_ALG_IS_MAC(alg) /\ alg.sub = 2
PSA_ALG_IS_BLOCK_CIPHER_MAC(alg) == PSA_ALG_IS_MAC(alg) /\ alg.sub = 3

(* Mutant: the flag of a wildcard survives a truncation. *)
TruncatedMac_KeepsFlag(mac_alg, mac_length) ==
    [mac_alg EXCEPT !.len = mac_length % 64]

PSA_ALG_TRUNCATED_MAC(mac_alg, mac_length) ==
    [mac_alg EXCEPT !.len = mac_length % 64, !.least = 0]
PSA_ALG_FULL_LENGTH_MAC(mac_alg) == [mac_alg EXCEPT !.len = 0, !.least = 0]
PSA_MAC_TRUNCATED_LENGTH(mac_alg) == mac_alg.len
PSA_ALG_AT_LEAST_THIS_LENGTH_MAC(mac_alg, min_mac_length) ==
    [PSA_ALG_TRUNCATED_MAC(mac_alg, min_mac_length) EXCEPT !.least = 1]

(* Ciphers: sub is the stream flag (2) and the from-block flag (1). *)
PSA_ALG_IS_STREAM_CIPHER(alg) == PSA_ALG_IS_CIPHER(alg) /\ alg.sub >= 2
PSA_ALG_STREAM_CIPHER == Algorithm(PSA_ALG_CATEGORY_CIPHER, 2, 0, 0, 1, 0)
PSA_ALG_CTR == Algorithm(PSA_ALG_CATEGORY_CIPHER, 3, 0, 0, 16, 0)
PSA_ALG_CFB == Algorithm(PSA_ALG_CATEGORY_CIPHER, 3, 0, 0, 17, 0)
PSA_ALG_OFB == Algorithm(PSA_ALG_CATEGORY_CIPHER, 3, 0, 0, 18, 0)
PSA_ALG_XTS == Algorithm(PSA_ALG_CATEGORY_CIPHER, 1, 0, 1, 127, 0)
PSA_ALG_ECB_NO_PADDING == Algorithm(PSA_ALG_CATEGORY_CIPHER, 1, 0, 0, 68, 0)
PSA_ALG_CBC_NO_PADDING == Algorithm(PSA_ALG_CATEGORY_CIPHER, 1, 0, 0, 64, 0)
PSA_ALG_CBC_PKCS7 == Algorithm(PSA_ALG_CATEGORY_CIPHER, 1, 0, 0, 65, 0)
PSA_ALG_CCM_STAR_NO_TAG == Algorithm(PSA_ALG_CATEGORY_CIPHER, 3, 0, 0, 19, 0)

(* AEAD: len is the length of the tag, sub 1 a mode of a block cipher. *)
PSA_ALG_CCM == Algorithm(PSA_ALG_CATEGORY_AEAD, 1, 16, 0, 1, 0)
PSA_ALG_GCM == Algorithm(PSA_ALG_CATEGORY_AEAD, 1, 16, 0, 2, 0)
PSA_ALG_CHACHA20_POLY1305 == Algorithm(PSA_ALG_CATEGORY_AEAD, 0, 16, 0, 5, 0)

PSA_ALG_IS_AEAD_ON_BLOCK_CIPHER(alg) == PSA_ALG_IS_AEAD(alg) /\ alg.sub % 2 = 1
PSA_ALG_AEAD_WITH_SHORTENED_TAG(aead_alg, tag_length) ==
    [aead_alg EXCEPT !.len = tag_length % 64, !.least = 0]
PSA_ALG_AEAD_GET_TAG_LENGTH(aead_alg) == aead_alg.len
PSA_ALG_AEAD_WITH_AT_LEAST_THIS_LENGTH_TAG(aead_alg, min_tag_length) ==
    [PSA_ALG_AEAD_WITH_SHORTENED_TAG(aead_alg, min_tag_length) EXCEPT !.least = 1]

MBEDTLS_PSA_ALG_AEAD_EQUAL(alg1, alg2) ==
    [alg1 EXCEPT !.len = 0, !.least = 0] = [alg2 EXCEPT !.len = 0, !.least = 0]

PSA_ALG_AEAD_WITH_DEFAULT_LENGTH_TAG(aead_alg) ==
    LET refs == {r \in {PSA_ALG_CCM, PSA_ALG_GCM, PSA_ALG_CHACHA20_POLY1305} :
                    PSA_ALG_AEAD_WITH_SHORTENED_TAG(aead_alg, 0)
                        = PSA_ALG_AEAD_WITH_SHORTENED_TAG(r, 0)}
    IN  IF refs = {} THEN PSA_ALG_NONE ELSE CHOOSE r \in refs : TRUE

(* Signatures. *)
PSA_ALG_RSA_PKCS1V15_SIGN_BASE == Algorithm(PSA_ALG_CATEGORY_SIGN, 0, 0, 0, 2, 0)
PSA_ALG_RSA_PSS_BASE == Algorithm(PSA_ALG_CATEGORY_SIGN, 0, 0, 0, 3, 0)
PSA_ALG_RSA_PSS_ANY_SALT_BASE == Algorithm(PSA_ALG_CATEGORY_SIGN, 0, 0, 0, 19, 0)
PSA_ALG_ECDSA_BASE == Algorithm(PSA_ALG_CATEGORY_SIGN, 0, 0, 0, 6, 0)
PSA_ALG_DETERMINISTIC_ECDSA_BASE == Algorithm(PSA_ALG_CATEGORY_SIGN, 0, 0, 0, 7, 0)
PSA_ALG_PURE_EDDSA == Algorithm(PSA_ALG_CATEGORY_SIGN, 0, 0, 0, 8, 0)
PSA_ALG_HASH_EDDSA_BASE == Algorithm(PSA_ALG_CATEGORY_SIGN, 0, 0, 0, 9, 0)

PSA_ALG_RSA_PKCS1V15_SIGN(hash_alg) == WithHash(PSA_ALG_RSA_PKCS1V15_SIGN_BASE, hash_alg)
PSA_ALG_RSA_PSS(hash_alg) == WithHash(PSA_ALG_RSA_PSS_BASE, hash_alg)
PSA_ALG_RSA_PSS_ANY_SALT(hash_alg) == WithHash(PSA_ALG_RSA_PSS_ANY_SALT_BASE, hash_alg)
PSA_ALG_ECDSA(hash_alg) == WithHash(PSA_ALG_ECDSA_BASE, hash_alg)
PSA_ALG_DETERMINISTIC_ECDSA(hash_alg) == WithHash(PSA_ALG_DETERMINISTIC_ECDSA_BASE, hash_alg)
PSA_ALG_ED25519PH == WithHash(PSA_ALG_HASH_EDDSA_BASE, PsaHash(HashNumbers.SHA_512))
PSA_ALG_ED448PH == WithHash(PSA_ALG_HASH_EDDSA_BASE, PsaHash(HashNumbers.SHAKE256_512))

PSA_ALG_IS_RSA_PKCS1V15_SIGN(alg) == Scheme(alg) = PSA_ALG_RSA_PKCS1V15_SIGN_BASE
PSA_ALG_IS_RSA_PSS_STANDARD_SALT(alg) == Scheme(alg) = PSA_ALG_RSA_PSS_BASE
PSA_ALG_IS_RSA_PSS_ANY_SALT(alg) == Scheme(alg) = PSA_ALG_RSA_PSS_ANY_SALT_BASE
PSA_ALG_IS_RSA_PSS(alg) ==
    PSA_ALG_IS_RSA_PSS_STANDARD_SALT(alg) \/ PSA_ALG_IS_RSA_PSS_ANY_SALT(alg)
(* The deterministic flag is the lowest bit of mid. *)
PSA_ALG_IS_ECDSA(alg) ==
    [Scheme(alg) EXCEPT !.mid = @ - (@ % 2)] = PSA_ALG_ECDSA_BASE
PSA_ALG_ECDSA_IS_DETERMINISTIC(alg) == alg.mid % 2 = 1
PSA_ALG_IS_DETERMINISTIC_ECDSA(alg) ==
    PSA_ALG_IS_ECDSA(alg) /\ PSA_ALG_ECDSA_IS_DETERMINISTIC(alg)
PSA_ALG_IS_RANDOMIZED_ECDSA(alg) ==
    PSA_ALG_IS_ECDSA(alg) /\ ~PSA_ALG_ECDSA_IS_DETERMINISTIC(alg)
PSA_ALG_IS_HASH_EDDSA(alg) == Scheme(alg) = PSA_ALG_HASH_EDDSA_BASE
PSA_ALG_IS_SIGN_HASH(alg) ==
    \/ PSA_ALG_IS_RSA_PSS(alg)
    \/ PSA_ALG_IS_RSA_PKCS1V15_SIGN(alg)
    \/ PSA_ALG_IS_ECDSA(alg)
    \/ PSA_ALG_IS_HASH_EDDSA(alg)
PSA_ALG_IS_SIGN_MESSAGE(alg) ==
    PSA_ALG_IS_SIGN_HASH(alg) \/ alg = PSA_ALG_PURE_EDDSA
PSA_ALG_IS_HASH_AND_SIGN(alg) == PSA_ALG_IS_SIGN_HASH(alg) /\ alg.hash # 0
PSA_ALG_SIGN_GET_HASH(alg) ==
    IF PSA_ALG_IS_HASH_AND_SIGN(alg) THEN PsaHash(alg.hash) ELSE PSA_ALG_NONE

(* Asymmetric encryption. *)
PSA_ALG_RSA_PKCS1V15_CRYPT ==
    Algorithm(PSA_ALG_CATEGORY_ASYMMETRIC_ENCRYPTION, 0, 0, 0, 2, 0)
PSA_ALG_RSA_OAEP_BASE ==
    Algorithm(PSA_ALG_CATEGORY_ASYMMETRIC_ENCRYPTION, 0, 0, 0, 3, 0)
PSA_ALG_RSA_OAEP(hash_alg) == WithHash(PSA_ALG_RSA_OAEP_BASE, hash_alg)
PSA_ALG_IS_RSA_OAEP(alg) == Scheme(alg) = PSA_ALG_RSA_OAEP_BASE
PSA_ALG_RSA_OAEP_GET_HASH(alg) ==
    IF PSA_ALG_IS_RSA_OAEP(alg) THEN PsaHash(alg.hash) ELSE PSA_ALG_NONE

(* Key derivation: sub 2 is the stretching flag. *)
PSA_ALG_HKDF_BASE == Algorithm(PSA_ALG_CATEGORY_KEY_DERIVATION, 0, 0, 0, 1, 0)
PSA_ALG_TLS12_PRF_BASE == Algorithm(PSA_ALG_CATEGORY_KEY_DERIVATION, 0, 0, 0, 2, 0)
PSA_ALG_TLS12_PSK_TO_MS_BASE == Algorithm(PSA_ALG_CATEGORY_KEY_DERIVATION, 0, 0, 0, 3, 0)
PSA_ALG_PBKDF2_HMAC_BASE == Algorithm(PSA_ALG_CATEGORY_KEY_DERIVATION, 2, 0, 0, 1, 0)
PSA_ALG_PBKDF2_AES_CMAC_PRF_128 == Algorithm(PSA_ALG_CATEGORY_KEY_DERIVATION, 2, 0, 0, 2, 0)

PSA_ALG_HKDF(hash_alg) == WithHash(PSA_ALG_HKDF_BASE, hash_alg)
PSA_ALG_TLS12_PRF(hash_alg) == WithHash(PSA_ALG_TLS12_PRF_BASE, hash_alg)
PSA_ALG_TLS12_PSK_TO_MS(hash_alg) == WithHash(PSA_ALG_TLS12_PSK_TO_MS_BASE, hash_alg)
PSA_ALG_PBKDF2_HMAC(hash_alg) == WithHash(PSA_ALG_PBKDF2_HMAC_BASE, hash_alg)
PSA_ALG_IS_HKDF(alg) == Scheme(alg) = PSA_ALG_HKDF_BASE
PSA_ALG_IS_TLS12_PRF(alg) == Scheme(alg) = PSA_ALG_TLS12_PRF_BASE
PSA_ALG_IS_TLS12_PSK_TO_MS(alg) == Scheme(alg) = PSA_ALG_TLS12_PSK_TO_MS_BASE
PSA_ALG_IS_PBKDF2_HMAC(alg) == Scheme(alg) = PSA_ALG_PBKDF2_HMAC_BASE
PSA_ALG_HKDF_GET_HASH(hkdf_alg) == PsaHash(hkdf_alg.hash)

(* Key agreement: len names the primitive.  The category of a key          *)
(* derivation, 8, is contained in that of a key agreement, 9.              *)
PSA_ALG_FFDH == Algorithm(PSA_ALG_CATEGORY_KEY_AGREEMENT, 0, 1, 0, 0, 0)
PSA_ALG_ECDH == Algorithm(PSA_ALG_CATEGORY_KEY_AGREEMENT, 0, 2, 0, 0, 0)
PSA_ALG_KEY_AGREEMENT(ka_alg, kdf_alg) ==
    [ka_alg EXCEPT !.sub = kdf_alg.sub, !.mid = kdf_alg.mid, !.hash = kdf_alg.hash]
(* cat | bit, for a power of two. *)
Raised(cat, bit) == IF (cat \div bit) % 2 = 1 THEN cat ELSE cat + bit

(* The mask 0xfe00ffff clears the lowest bit of the category, sub and len. *)
PSA_ALG_KEY_AGREEMENT_GET_KDF(alg) ==
    [alg EXCEPT !.cat = Raised(@ - (@ % 2), 8), !.sub = 0, !.len = 0]
PSA_ALG_KEY_AGREEMENT_GET_BASE(alg) ==
    [alg EXCEPT !.cat = Raised(Raised(@, 1), 8),
                !.least = 0, !.mid = 0, !.hash = 0]
PSA_ALG_IS_RAW_KEY_AGREEMENT(alg) ==
    /\ PSA_ALG_IS_KEY_AGREEMENT(alg)
    /\ PSA_ALG_KEY_AGREEMENT_GET_KDF(alg)
          = Algorithm(PSA_ALG_CATEGORY_KEY_DERIVATION, 0, 0, 0, 0, 0)
PSA_ALG_IS_FFDH(alg) == PSA_ALG_KEY_AGREEMENT_GET_BASE(alg) = PSA_ALG_FFDH
PSA_ALG_IS_ECDH(alg) == PSA_ALG_KEY_AGREEMENT_GET_BASE(alg) = PSA_ALG_ECDH

PSA_ALG_IS_WILDCARD(alg) ==
    CASE PSA_ALG_IS_HASH_AND_SIGN(alg) -> PSA_ALG_SIGN_GET_HASH(alg) = PSA_ALG_ANY_HASH
      [] PSA_ALG_IS_MAC(alg) \/ PSA_ALG_IS_AEAD(alg) -> alg.least # 0
      [] OTHER -> alg = PSA_ALG_ANY_HASH

PSA_ALG_GET_HASH(alg) ==
    IF alg.hash = 0 THEN PSA_ALG_NONE ELSE PsaHash(alg.hash)

----------------------------------------------------------------------------
(* Lifetimes: the persistence in the low byte, the location above it. *)

PSA_KEY_PERSISTENCE_VOLATILE == 0
PSA_KEY_PERSISTENCE_DEFAULT == 1
PSA_KEY_PERSISTENCE_READ_ONLY == 255
PSA_KEY_LIFETIME_FROM_PERSISTENCE_AND_LOCATION(persistence, location) ==
    location * 256 + persistence
PSA_KEY_LIFETIME_GET_PERSISTENCE(lifetime) == lifetime % 256
PSA_KEY_LIFETIME_GET_LOCATION(lifetime) == lifetime \div 256
PSA_KEY_LIFETIME_IS_VOLATILE(lifetime) ==
    PSA_KEY_LIFETIME_GET_PERSISTENCE(lifetime) = PSA_KEY_PERSISTENCE_VOLATILE
PSA_KEY_LIFETIME_IS_READ_ONLY(lifetime) ==
    PSA_KEY_LIFETIME_GET_PERSISTENCE(lifetime) = PSA_KEY_PERSISTENCE_READ_ONLY

PSA_KEY_LIFETIME_VOLATILE == 0
PSA_KEY_LIFETIME_PERSISTENT == 1

=============================================================================
