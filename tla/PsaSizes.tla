------------------------------ MODULE PsaSizes ------------------------------
(***************************************************************************)
(* The buffer sizes an application computes for the operations of the      *)
(* secure firmware: the macros of psa/crypto_sizes.h, over the encodings   *)
(* of PsaValues.                                                           *)
(***************************************************************************)
EXTENDS PsaValues

CONSTANT WantSha512     \* PSA_WANT_ALG_SHA_512 or PSA_WANT_ALG_SHA_384 is defined

ASSUME WantSha512Assumption == WantSha512 \in BOOLEAN

PSA_BITS_TO_BYTES(bits) == (bits + 7) \div 8
PSA_ROUND_UP_TO_MULTIPLE(block_size, length) ==
    ((length + block_size - 1) \div block_size) * block_size

(* The length and the block length of a hash, by its number. *)
HashLengths ==
    [n \in {3, 4, 5, 8, 9, 10, 11, 12, 13, 16, 17, 18, 19} |->
        CASE n = 3 -> 16
          [] n \in {4, 5} -> 20
          [] n \in {8, 12, 16} -> 28
          [] n \in {9, 13, 17} -> 32
          [] n \in {10, 18} -> 48
          [] n \in {11, 19} -> 64]
HashBlockLengths ==
    [n \in DOMAIN HashLengths |->
        CASE n \in {3, 4, 5, 8, 9} -> 64
          [] n \in 10 .. 13 -> 128
          [] n = 16 -> 144
          [] n = 17 -> 136
          [] n = 18 -> 104
          [] n = 19 -> 72]

PSA_HASH_LENGTH(alg) ==
    IF alg.hash \in DOMAIN HashLengths THEN HashLengths[alg.hash] ELSE 0
PSA_HASH_BLOCK_LENGTH(alg) ==
    IF alg.hash \in DOMAIN HashBlockLengths THEN HashBlockLengths[alg.hash] ELSE 0
PSA_HASH_MAX_SIZE == IF WantSha512 THEN 64 ELSE 32
PSA_HMAC_MAX_HASH_BLOCK_SIZE == IF WantSha512 THEN 128 ELSE 64
PSA_MAC_MAX_SIZE == PSA_HASH_MAX_SIZE

PSA_AEAD_TAG_MAX_SIZE == 16
PSA_AEAD_NONCE_MAX_SIZE == 13
PSA_VENDOR_RSA_MAX_KEY_BITS == 4096
PSA_VENDOR_ECC_MAX_CURVE_BITS == 521
PSA_BLOCK_CIPHER_BLOCK_MAX_SIZE == 16

PSA_MAC_LENGTH(key_type, alg) ==
    IF PSA_MAC_TRUNCATED_LENGTH(alg) # 0
    THEN PSA_MAC_TRUNCATED_LENGTH(alg)
    ELSE CASE PSA_ALG_IS_HMAC(alg) -> PSA_HASH_LENGTH(PSA_ALG_HMAC_GET_HASH(alg))
           [] PSA_ALG_IS_BLOCK_CIPHER_MAC(alg) -> PSA_BLOCK_CIPHER_BLOCK_LENGTH(key_type)
           [] OTHER -> 0

----------------------------------------------------------------------------
(* AEAD.  A nonce of length 0 is an incompatible key and algorithm. *)

PSA_AEAD_NONCE_LENGTH(key_type, alg) ==
    IF PSA_BLOCK_CIPHER_BLOCK_LENGTH(key_type) = 16
    THEN CASE MBEDTLS_PSA_ALG_AEAD_EQUAL(alg, PSA_ALG_CCM) -> 13
           [] MBEDTLS_PSA_ALG_AEAD_EQUAL(alg, PSA_ALG_GCM) -> 12
           [] OTHER -> 0
    ELSE IF /\ key_type = PSA_KEY_TYPE_CHACHA20
            /\ MBEDTLS_PSA_ALG_AEAD_EQUAL(alg, PSA_ALG_CHACHA20_POLY1305)
         THEN 12
         ELSE 0

AeadFits(key_type, alg) == PSA_AEAD_NONCE_LENGTH(key_type, alg) # 0

PSA_AEAD_TAG_LENGTH(key_type, alg) ==
    IF AeadFits(key_type, alg) THEN PSA_ALG_AEAD_GET_TAG_LENGTH(alg) ELSE 0

PSA_AEAD_ENCRYPT_OUTPUT_SIZE(key_type, alg, plaintext_length) ==
    IF AeadFits(key_type, alg)
    THEN plaintext_length + PSA_ALG_AEAD_GET_TAG_LENGTH(alg)
    ELSE 0
PSA_AEAD_ENCRYPT_OUTPUT_MAX_SIZE(plaintext_length) ==
    plaintext_length + PSA_AEAD_TAG_MAX_SIZE

PSA_AEAD_DECRYPT_OUTPUT_SIZE(key_type, alg, ciphertext_length) ==
    IF /\ AeadFits(key_type, alg)
       /\ ciphertext_length > PSA_ALG_AEAD_GET_TAG_LENGTH(alg)
    THEN ciphertext_length - PSA_ALG_AEAD_GET_TAG_LENGTH(alg)
    ELSE 0
PSA_AEAD_DECRYPT_OUTPUT_MAX_SIZE(ciphertext_length) == ciphertext_length

PSA_AEAD_UPDATE_OUTPUT_SIZE(key_type, alg, input_length) ==
    CASE ~AeadFits(key_type, alg) -> 0
      [] AeadFits(key_type, alg) /\ PSA_ALG_IS_AEAD_ON_BLOCK_CIPHER(alg) ->
            PSA_ROUND_UP_TO_MULTIPLE(PSA_BLOCK_CIPHER_BLOCK_LENGTH(key_type), input_length)
      [] OTHER -> input_length
PSA_AEAD_UPDATE_OUTPUT_MAX_SIZE(input_length) ==
    PSA_ROUND_UP_TO_MULTIPLE(PSA_BLOCK_CIPHER_BLOCK_MAX_SIZE, input_length)

PSA_AEAD_FINISH_OUTPUT_SIZE(key_type, alg) ==
    IF AeadFits(key_type, alg) /\ PSA_ALG_IS_AEAD_ON_BLOCK_CIPHER(alg)
    THEN PSA_BLOCK_CIPHER_BLOCK_LENGTH(key_type)
    ELSE 0
PSA_AEAD_FINISH_OUTPUT_MAX_SIZE == PSA_BLOCK_CIPHER_BLOCK_MAX_SIZE

PSA_AEAD_VERIFY_OUTPUT_SIZE(key_type, alg) ==
    PSA_AEAD_FINISH_OUTPUT_SIZE(key_type, alg)
PSA_AEAD_VERIFY_OUTPUT_MAX_SIZE == PSA_BLOCK_CIPHER_BLOCK_MAX_SIZE

----------------------------------------------------------------------------
(* Ciphers. *)

PSA_CIPHER_IV_LENGTH(key_type, alg) ==
    LET block == PSA_BLOCK_CIPHER_BLOCK_LENGTH(key_type)
    IN  CASE /\ block > 1
             /\ alg \in {PSA_ALG_CTR, PSA_ALG_CFB, PSA_ALG_OFB, PSA_ALG_XTS,
                         PSA_ALG_CBC_NO_PADDING, PSA_ALG_CBC_PKCS7} -> block
          [] key_type = PSA_KEY_TYPE_CHACHA20 /\ alg = PSA_ALG_STREAM_CIPHER -> 12
          [] alg = PSA_ALG_CCM_STAR_NO_TAG -> 13
          [] OTHER -> 0
PSA_CIPHER_IV_MAX_SIZE == 16

PSA_CIPHER_ENCRYPT_OUTPUT_SIZE(key_type, alg, input_length) ==
    LET block == PSA_BLOCK_CIPHER_BLOCK_LENGTH(key_type)
        iv == PSA_CIPHER_IV_LENGTH(key_type, alg)
    IN  CASE alg = PSA_ALG_CBC_PKCS7 /\ block # 0 ->
                PSA_ROUND_UP_TO_MULTIPLE(block, input_length + 1) + iv
          [] alg # PSA_ALG_CBC_PKCS7 /\ PSA_ALG_IS_CIPHER(alg) -> input_length + iv
          [] OTHER -> 0
PSA_CIPHER_ENCRYPT_OUTPUT_MAX_SIZE(input_length) ==
    PSA_ROUND_UP_TO_MULTIPLE(PSA_BLOCK_CIPHER_BLOCK_MAX_SIZE, input_length + 1)
        + PSA_CIPHER_IV_MAX_SIZE

PSA_CIPHER_DECRYPT_OUTPUT_SIZE(key_type, alg, input_length) ==
    IF PSA_ALG_IS_CIPHER(alg) /\ key_type.cat = PSA_KEY_TYPE_CATEGORY_SYMMETRIC
    THEN input_length
    ELSE 0
PSA_CIPHER_DECRYPT_OUTPUT_MAX_SIZE(input_length) == input_length

PSA_CIPHER_UPDATE_OUTPUT_SIZE(key_type, alg, input_length) ==
    LET block == PSA_BLOCK_CIPHER_BLOCK_LENGTH(key_type)
    IN  CASE ~PSA_ALG_IS_CIPHER(alg) \/ block = 0 -> 0
          [] /\ PSA_ALG_IS_CIPHER(alg) /\ block # 0
             /\ alg \in {PSA_ALG_CBC_PKCS7, PSA_ALG_CBC_NO_PADDING,
                         PSA_ALG_ECB_NO_PADDING} ->
                PSA_ROUND_UP_TO_MULTIPLE(block, input_length)
          [] OTHER -> input_length
PSA_CIPHER_UPDATE_OUTPUT_MAX_SIZE(input_length) ==
    PSA_ROUND_UP_TO_MULTIPLE(PSA_BLOCK_CIPHER_BLOCK_MAX_SIZE, input_length)

PSA_CIPHER_FINISH_OUTPUT_SIZE(key_type, alg) ==
    IF alg = PSA_ALG_CBC_PKCS7 THEN PSA_BLOCK_CIPHER_BLOCK_LENGTH(key_type) ELSE 0
PSA_CIPHER_FINISH_OUTPUT_MAX_SIZE == PSA_BLOCK_CIPHER_BLOCK_MAX_SIZE

----------------------------------------------------------------------------
(* Asymmetric operations. *)

PSA_ECDSA_SIGNATURE_SIZE(curve_bits) == PSA_BITS_TO_BYTES(curve_bits) * 2
PSA_SIGN_OUTPUT_SIZE(key_type, key_bits) ==
    CASE PSA_KEY_TYPE_IS_RSA(key_type) -> PSA_BITS_TO_BYTES(key_bits)
      [] PSA_KEY_TYPE_IS_ECC(key_type) -> PSA_ECDSA_SIGNATURE_SIZE(key_bits)
      [] OTHER -> 0
PSA_VENDOR_ECDSA_SIGNATURE_MAX_SIZE ==
    PSA_ECDSA_SIGNATURE_SIZE(PSA_VENDOR_ECC_MAX_CURVE_BITS)
Larger(a, b) == IF a > b THEN a ELSE b
PSA_SIGNATURE_MAX_SIZE ==
    Larger(PSA_BITS_TO_BYTES(PSA_VENDOR_RSA_MAX_KEY_BITS),
           PSA_VENDOR_ECDSA_SIGNATURE_MAX_SIZE)

PSA_RSA_MINIMUM_PADDING_SIZE(alg) ==
    IF PSA_ALG_IS_RSA_OAEP(alg)
    THEN 2 * PSA_HASH_LENGTH(PSA_ALG_RSA_OAEP_GET_HASH(alg)) + 1
    ELSE 11
PSA_ASYMMETRIC_ENCRYPT_OUTPUT_SIZE(key_type, key_bits) ==
    IF PSA_KEY_TYPE_IS_RSA(key_type) THEN PSA_BITS_TO_BYTES(key_bits) ELSE 0
PSA_ASYMMETRIC_ENCRYPT_OUTPUT_MAX_SIZE ==
    PSA_BITS_TO_BYTES(PSA_VENDOR_RSA_MAX_KEY_BITS)
(* size_t is unsigned: a modulus shorter than the padding wraps.  TLC does *)
(* not count to 2^32, so 2^30 stands for the size of the address space.    *)
AddressSpace == 1073741824
PSA_ASYMMETRIC_DECRYPT_OUTPUT_SIZE(key_type, key_bits, alg) ==
    IF PSA_KEY_TYPE_IS_RSA(key_type)
    THEN (PSA_BITS_TO_BYTES(key_bits) - PSA_RSA_MINIMUM_PADDING_SIZE(alg)) % AddressSpace
    ELSE 0
PSA_ASYMMETRIC_DECRYPT_OUTPUT_MAX_SIZE ==
    PSA_BITS_TO_BYTES(PSA_VENDOR_RSA_MAX_KEY_BITS)

PSA_RAW_KEY_AGREEMENT_OUTPUT_SIZE(key_type, key_bits) ==
    IF PSA_KEY_TYPE_IS_ECC_KEY_PAIR(key_type) THEN PSA_BITS_TO_BYTES(key_bits) ELSE 0
PSA_RAW_KEY_AGREEMENT_OUTPUT_MAX_SIZE ==
    PSA_BITS_TO_BYTES(PSA_VENDOR_ECC_MAX_CURVE_BITS)

----------------------------------------------------------------------------
(* Exported keys. *)

PSA_KEY_EXPORT_ASN1_INTEGER_MAX_SIZE(bits) == bits \div 8 + 5
PSA_KEY_EXPORT_RSA_PUBLIC_KEY_MAX_SIZE(key_bits) ==
    PSA_KEY_EXPORT_ASN1_INTEGER_MAX_SIZE(key_bits) + 11
(* Mutant: only the half-size numbers of a key pair are counted. *)
RsaKeyPair_HalvesOnly(key_bits) ==
    7 * PSA_KEY_EXPORT_ASN1_INTEGER_MAX_SIZE(key_bits \div 2 + 1) + 14

PSA_KEY_EXPORT_RSA_KEY_PAIR_MAX_SIZE(key_bits) ==
    9 * PSA_KEY_EXPORT_ASN1_INTEGER_MAX_SIZE(key_bits \div 2 + 1) + 14
PSA_KEY_EXPORT_DSA_PUBLIC_KEY_MAX_SIZE(key_bits) ==
    PSA_KEY_EXPORT_ASN1_INTEGER_MAX_SIZE(key_bits) * 3 + 59
PSA_KEY_EXPORT_DSA_KEY_PAIR_MAX_SIZE(key_bits) ==
    PSA_KEY_EXPORT_ASN1_INTEGER_MAX_SIZE(key_bits) * 3 + 75
PSA_KEY_EXPORT_ECC_PUBLIC_KEY_MAX_SIZE(key_bits) == 2 * PSA_BITS_TO_BYTES(key_bits) + 1
PSA_KEY_EXPORT_ECC_KEY_PAIR_MAX_SIZE(key_bits) == PSA_BITS_TO_BYTES(key_bits)

PSA_EXPORT_KEY_OUTPUT_SIZE(key_type, key_bits) ==
    CASE PSA_KEY_TYPE_IS_UNSTRUCTURED(key_type) -> PSA_BITS_TO_BYTES(key_bits)
      [] key_type = PSA_KEY_TYPE_RSA_KEY_PAIR ->
            PSA_KEY_EXPORT_RSA_KEY_PAIR_MAX_SIZE(key_bits)
      [] key_type = PSA_KEY_TYPE_RSA_PUBLIC_KEY ->
            PSA_KEY_EXPORT_RSA_PUBLIC_KEY_MAX_SIZE(key_bits)
      [] key_type = PSA_KEY_TYPE_DSA_KEY_PAIR ->
            PSA_KEY_EXPORT_DSA_KEY_PAIR_MAX_SIZE(key_bits)
      [] key_type = PSA_KEY_TYPE_DSA_PUBLIC_KEY ->
            PSA_KEY_EXPORT_DSA_PUBLIC_KEY_MAX_SIZE(key_bits)
      [] PSA_KEY_TYPE_IS_ECC_KEY_PAIR(key_type) ->
            PSA_KEY_EXPORT_ECC_KEY_PAIR_MAX_SIZE(key_bits)
      [] PSA_KEY_TYPE_IS_ECC_PUBLIC_KEY(key_type) ->
            PSA_KEY_EXPORT_ECC_PUBLIC_KEY_MAX_SIZE(key_bits)
      [] OTHER -> 0
PSA_EXPORT_PUBLIC_KEY_OUTPUT_SIZE(key_type, key_bits) ==
    CASE PSA_KEY_TYPE_IS_RSA(key_type) -> PSA_KEY_EXPORT_RSA_PUBLIC_KEY_MAX_SIZE(key_bits)
      [] PSA_KEY_TYPE_IS_ECC(key_type) -> PSA_KEY_EXPORT_ECC_PUBLIC_KEY_MAX_SIZE(key_bits)
      [] OTHER -> 0
PSA_EXPORT_KEY_PAIR_MAX_SIZE ==
    Larger(PSA_KEY_EXPORT_RSA_KEY_PAIR_MAX_SIZE(PSA_VENDOR_RSA_MAX_KEY_BITS),
           PSA_KEY_EXPORT_ECC_KEY_PAIR_MAX_SIZE(PSA_VENDOR_ECC_MAX_CURVE_BITS))
PSA_EXPORT_PUBLIC_KEY_MAX_SIZE ==
    Larger(PSA_KEY_EXPORT_RSA_PUBLIC_KEY_MAX_SIZE(PSA_VENDOR_RSA_MAX_KEY_BITS),
           PSA_KEY_EXPORT_ECC_PUBLIC_KEY_MAX_SIZE(PSA_VENDOR_ECC_MAX_CURVE_BITS))

=============================================================================
