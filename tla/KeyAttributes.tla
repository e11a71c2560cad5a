---------------------------- MODULE KeyAttributes ----------------------------
(***************************************************************************)
(* The key attributes an application fills in before it creates a key      *)
(* (psa/crypto_struct.h): the setters, called in any order and any number  *)
(* of times, with algorithms built by the macros of PsaValues.  `made` is  *)
(* a ghost: what the application asked for when it built the algorithm.    *)
(***************************************************************************)
EXTENDS PsaSizes

CONSTANTS
    KeyIds,         \* key identifiers, 0 for none
    Lifetimes,      \* lifetimes given to psa_set_key_lifetime
    KeyTypes,       \* key types given to psa_set_key_type
    KeyBits,        \* sizes given to psa_set_key_bits
    Hashes,         \* numbers of the hash functions used
    Lengths         \* lengths given to the truncating macros

(* The values of 15 bits a key type can have. *)
KeyTypeValues == [cat : 0 .. 7, blk : 0 .. 15, low : 0 .. 255]

(* The block ciphers and the hash functions are those the library is built *)
(* with: the maximum sizes of crypto_sizes.h cover no others.              *)
ASSUME KeyAttributesAssumption ==
    /\ KeyIds \subseteq Nat /\ Lifetimes \subseteq Nat
    /\ KeyBits \subseteq Nat /\ Lengths \subseteq Nat \ {0}
    /\ KeyTypes \subseteq KeyTypeValues
    /\ \A type \in KeyTypes :
          PSA_BLOCK_CIPHER_BLOCK_LENGTH(type) <= PSA_BLOCK_CIPHER_BLOCK_MAX_SIZE
    /\ Hashes \subseteq DOMAIN HashLengths
    /\ \A n \in Hashes : HashLengths[n] <= PSA_HASH_MAX_SIZE

VARIABLES attributes, made

attributesVars == <<attributes, made>>

Usages == {"export", "sign_hash", "sign_message", "verify_hash", "verify_message"}
PSA_KEY_BITS_TOO_LARGE == 65535
PSA_MAX_KEY_BITS == 65528

psa_key_attributes_init ==
    [type |-> PSA_KEY_TYPE_NONE, bits |-> 0, lifetime |-> PSA_KEY_LIFETIME_VOLATILE,
     id |-> 0, usage |-> {}, alg |-> PSA_ALG_NONE]

Made(scheme, base, hash, kdf) ==
    [scheme |-> scheme, base |-> base, hash |-> hash, kdf |-> kdf,
     len |-> 0, wild |-> FALSE]

Nothing == Made("none", PSA_ALG_NONE, 0, PSA_ALG_NONE)

----------------------------------------------------------------------------
(* What the constructors of PsaValues build. *)

Hashed(scheme, Build(_), hashes) ==
    {Made(scheme, Build(PsaHash(n)), n, PSA_ALG_NONE) : n \in hashes}

Fixed(scheme, algs) == {Made(scheme, a, 0, PSA_ALG_NONE) : a \in algs}

Macs == Hashed("hmac", PSA_ALG_HMAC, Hashes)
        \cup Fixed("cipher_mac", {PSA_ALG_CBC_MAC, PSA_ALG_CMAC})

Ciphers == Fixed("stream", {PSA_ALG_STREAM_CIPHER, PSA_ALG_CTR, PSA_ALG_CFB,
                            PSA_ALG_OFB, PSA_ALG_CCM_STAR_NO_TAG})
           \cup Fixed("block", {PSA_ALG_XTS, PSA_ALG_ECB_NO_PADDING,
                                PSA_ALG_CBC_NO_PADDING, PSA_ALG_CBC_PKCS7})

Aeads == Fixed("aead_block", {PSA_ALG_CCM, PSA_ALG_GCM})
         \cup Fixed("aead_stream", {PSA_ALG_CHACHA20_POLY1305})

(* A policy may leave the hash of a signature open. *)
Signatures ==
    LET hashes == Hashes \cup {PSA_ALG_ANY_HASH.hash}
    IN  Hashed("pkcs1v15", PSA_ALG_RSA_PKCS1V15_SIGN, hashes)
        \cup Hashed("pss", PSA_ALG_RSA_PSS, hashes)
        \cup Hashed("pss_any_salt", PSA_ALG_RSA_PSS_ANY_SALT, hashes)
        \cup Hashed("ecdsa", PSA_ALG_ECDSA, hashes)
        \cup Hashed("deterministic_ecdsa", PSA_ALG_DETERMINISTIC_ECDSA, hashes)
        \cup Fixed("pkcs1v15", {PSA_ALG_RSA_PKCS1V15_SIGN_BASE})
        \cup Fixed("ecdsa", {PSA_ALG_ECDSA_BASE})
        \cup Fixed("eddsa", {PSA_ALG_PURE_EDDSA})
        \cup {Made("hash_eddsa", a, a.hash, PSA_ALG_NONE) :
                 a \in {PSA_ALG_ED25519PH, PSA_ALG_ED448PH}}

Encryptions == Hashed("oaep", PSA_ALG_RSA_OAEP, Hashes)
               \cup Fixed("pkcs1v15_crypt", {PSA_ALG_RSA_PKCS1V15_CRYPT})

Derivations == Hashed("hkdf", PSA_ALG_HKDF, Hashes)
               \cup Hashed("tls12_prf", PSA_ALG_TLS12_PRF, Hashes)
               \cup Hashed("tls12_psk_to_ms", PSA_ALG_TLS12_PSK_TO_MS, Hashes)

Stretchings == Hashed("pbkdf2", PSA_ALG_PBKDF2_HMAC, Hashes)
               \cup Fixed("pbkdf2_cmac", {PSA_ALG_PBKDF2_AES_CMAC_PRF_128})

Agreements == Fixed("ffdh", {PSA_ALG_FFDH}) \cup Fixed("ecdh", {PSA_ALG_ECDH})

----------------------------------------------------------------------------
(* The setters. *)

AttributesInit == attributes = psa_key_attributes_init /\ made = Nothing

psa_set_key_id ==
    \E key \in KeyIds :
        /\ attributes' =
              [attributes EXCEPT
                 !.id = key,
                 !.lifetime =
                     IF PSA_KEY_LIFETIME_IS_VOLATILE(@)
                     THEN PSA_KEY_LIFETIME_FROM_PERSISTENCE_AND_LOCATION(
                            PSA_KEY_LIFETIME_PERSISTENT,
                            PSA_KEY_LIFETIME_GET_LOCATION(@))
                     ELSE @]
        /\ UNCHANGED made

(* Mutant: the identifier of a key made volatile is kept. *)
SetLifetime_KeepsId ==
    \E lifetime \in Lifetimes :
        /\ attributes' = [attributes EXCEPT !.lifetime = lifetime]
        /\ UNCHANGED made

psa_set_key_lifetime ==
    \E lifetime \in Lifetimes :
        /\ attributes' =
              [attributes EXCEPT
                 !.lifetime = lifetime,
                 !.id = IF PSA_KEY_LIFETIME_IS_VOLATILE(lifetime) THEN 0 ELSE @]
        /\ UNCHANGED made

psa_extend_key_usage_flags(usage_flags) ==
    usage_flags
    \cup (IF "sign_hash" \in usage_flags THEN {"sign_message"} ELSE {})
    \cup (IF "verify_hash" \in usage_flags THEN {"verify_message"} ELSE {})

psa_set_key_usage_flags ==
    \E usage_flags \in SUBSET Usages :
        /\ attributes' = [attributes EXCEPT
                             !.usage = psa_extend_key_usage_flags(usage_flags)]
        /\ UNCHANGED made

psa_set_key_type ==
    \E type \in KeyTypes :
        /\ attributes' = [attributes EXCEPT !.type = type]
        /\ UNCHANGED made

psa_set_key_bits ==
    \E bits \in KeyBits :
        /\ attributes' = [attributes EXCEPT
                             !.bits = IF bits > PSA_MAX_KEY_BITS
                                      THEN PSA_KEY_BITS_TOO_LARGE
                                      ELSE bits]
        /\ UNCHANGED made

psa_set_key_algorithm(m, alg) ==
    /\ attributes' = [attributes EXCEPT !.alg = alg]
    /\ made' = m

ResetAttributes ==
    /\ attributes' = psa_key_attributes_init
    /\ made' = Nothing

----------------------------------------------------------------------------
(* The algorithms an application declares. *)

SetBuilt ==
    \E m \in Macs \cup Ciphers \cup Aeads \cup Signatures \cup Encryptions
             \cup Derivations \cup Stretchings \cup Agreements
             \cup Hashed("hash", LAMBDA h : h, Hashes) :
        psa_set_key_algorithm(m, m.base)

(* A key stretching algorithm cannot follow a key agreement. *)
SetAgreement ==
    \E a \in Agreements, d \in Derivations :
        psa_set_key_algorithm([a EXCEPT !.kdf = d.base, !.hash = d.hash],
                              PSA_ALG_KEY_AGREEMENT(a.base, d.base))

(* The length of a MAC is at most that of the untruncated algorithm. *)
TruncateMac ==
    /\ PSA_ALG_IS_MAC(attributes.alg)
    /\ \E n \in Lengths :
        /\ n <= PSA_MAC_LENGTH(attributes.type, made.base)
        /\ \/ psa_set_key_algorithm([made EXCEPT !.len = n, !.wild = FALSE],
                                    PSA_ALG_TRUNCATED_MAC(attributes.alg, n))
           \/ psa_set_key_algorithm([made EXCEPT !.len = n, !.wild = TRUE],
                                    PSA_ALG_AT_LEAST_THIS_LENGTH_MAC(attributes.alg, n))

FullMac ==
    /\ PSA_ALG_IS_MAC(attributes.alg)
    /\ psa_set_key_algorithm([made EXCEPT !.len = 0, !.wild = FALSE],
                             PSA_ALG_FULL_LENGTH_MAC(attributes.alg))

ShortenTag ==
    /\ PSA_ALG_IS_AEAD(attributes.alg)
    /\ \E n \in Lengths :
        /\ n <= PSA_AEAD_TAG_MAX_SIZE
        /\ \/ psa_set_key_algorithm([made EXCEPT !.len = n, !.wild = FALSE],
                                    PSA_ALG_AEAD_WITH_SHORTENED_TAG(attributes.alg, n))
           \/ psa_set_key_algorithm([made EXCEPT !.len = n, !.wild = TRUE],
                  PSA_ALG_AEAD_WITH_AT_LEAST_THIS_LENGTH_TAG(attributes.alg, n))

DefaultTag ==
    /\ PSA_ALG_IS_AEAD(attributes.alg)
    /\ psa_set_key_algorithm([made EXCEPT !.len = 0, !.wild = FALSE],
                             PSA_ALG_AEAD_WITH_DEFAULT_LENGTH_TAG(attributes.alg))

AttributesNext ==
    \/ psa_set_key_id
    \/ psa_set_key_lifetime
    \/ psa_set_key_usage_flags
    \/ psa_set_key_type
    \/ psa_set_key_bits
    \/ ResetAttributes
    \/ SetBuilt
    \/ SetAgreement
    \/ TruncateMac
    \/ FullMac
    \/ ShortenTag
    \/ DefaultTag

AttributesSpec == AttributesInit /\ [][AttributesNext]_attributesVars

----------------------------------------------------------------------------
(* Properties. *)

(* The answers of the recognising macros, by the scheme each stands for. *)
Recognisers(alg) ==
    [hmac |-> PSA_ALG_IS_HMAC(alg),
     cipher_mac |-> PSA_ALG_IS_BLOCK_CIPHER_MAC(alg),
     stream |-> PSA_ALG_IS_STREAM_CIPHER(alg),
     aead_block |-> PSA_ALG_IS_AEAD_ON_BLOCK_CIPHER(alg),
     pkcs1v15 |-> PSA_ALG_IS_RSA_PKCS1V15_SIGN(alg),
     pss |-> PSA_ALG_IS_RSA_PSS_STANDARD_SALT(alg),
     pss_any_salt |-> PSA_ALG_IS_RSA_PSS_ANY_SALT(alg),
     ecdsa |-> PSA_ALG_IS_RANDOMIZED_ECDSA(alg),
     deterministic_ecdsa |-> PSA_ALG_IS_DETERMINISTIC_ECDSA(alg),
     hash_eddsa |-> PSA_ALG_IS_HASH_EDDSA(alg),
     oaep |-> PSA_ALG_IS_RSA_OAEP(alg),
     hkdf |-> PSA_ALG_IS_HKDF(alg),
     tls12_prf |-> PSA_ALG_IS_TLS12_PRF(alg),
     tls12_psk_to_ms |-> PSA_ALG_IS_TLS12_PSK_TO_MS(alg),
     pbkdf2 |-> PSA_ALG_IS_PBKDF2_HMAC(alg),
     ffdh |-> PSA_ALG_IS_FFDH(alg),
     ecdh |-> PSA_ALG_IS_ECDH(alg)]

SignatureSchemes ==
    {"pkcs1v15", "pss", "pss_any_salt", "ecdsa", "deterministic_ecdsa", "hash_eddsa"}

(* Whatever chain of length modifiers an algorithm went through, it is     *)
(* recognised by the macro of the scheme it was built with and by no other *)
(* one: the modifiers of MAC and AEAD lengths share their bits with the    *)
(* primitive of a key agreement and with the flags of other categories.    *)
RecognisedAsBuilt ==
    LET alg == attributes.alg
        is == Recognisers(alg)
    IN  /\ \A s \in DOMAIN is : is[s] <=> made.scheme = s
        /\ PSA_ALG_IS_SIGN_HASH(alg) <=> made.scheme \in SignatureSchemes
        /\ PSA_ALG_IS_SIGN(alg) <=> PSA_ALG_IS_SIGN_MESSAGE(alg)
        /\ PSA_ALG_IS_KEY_DERIVATION_STRETCHING(alg)
              <=> made.scheme \in {"pbkdf2", "pbkdf2_cmac"}
        /\ PSA_ALG_IS_RAW_KEY_AGREEMENT(alg)
              <=> made.scheme \in {"ffdh", "ecdh"} /\ made.kdf = PSA_ALG_NONE

(* What was put into an algorithm comes out of it: the base algorithm and  *)
(* the last length given survive any chain of modifiers, an algorithm is a *)
(* wildcard exactly when its last modifier (or its hash) made it one, and  *)
(* the hash and the two halves of a key agreement are recovered.           *)
PolicyRecovered ==
    LET alg == attributes.alg
    IN  /\ PSA_ALG_IS_WILDCARD(alg)
              <=> made.wild \/ made.hash = PSA_ALG_ANY_HASH.hash
        /\ PSA_ALG_GET_HASH(alg)
              = IF made.hash = 0 THEN PSA_ALG_NONE ELSE PsaHash(made.hash)
        /\ made.scheme \in SignatureSchemes =>
              PSA_ALG_SIGN_GET_HASH(alg) = PSA_ALG_GET_HASH(alg)
        /\ PSA_ALG_IS_MAC(alg) =>
              /\ PSA_ALG_FULL_LENGTH_MAC(alg) = made.base
              /\ made.len # 0 => PSA_MAC_LENGTH(attributes.type, alg) = made.len
        /\ PSA_ALG_IS_AEAD(alg) =>
              /\ PSA_ALG_AEAD_WITH_DEFAULT_LENGTH_TAG(alg) = made.base
              /\ PSA_ALG_AEAD_GET_TAG_LENGTH(alg)
                    = IF made.len = 0 THEN PSA_AEAD_TAG_MAX_SIZE ELSE made.len
        /\ PSA_ALG_IS_KEY_AGREEMENT(alg) =>
              /\ PSA_ALG_KEY_AGREEMENT_GET_BASE(alg) = made.base
              /\ made.kdf # PSA_ALG_NONE =>
                    PSA_ALG_KEY_AGREEMENT_GET_KDF(alg) = made.kdf

(* A key with an identifier is never volatile, in whatever order the       *)
(* identifier and the lifetime were set: psa_generate_key would drop the   *)
(* device key at the next reset.                                           *)
IdIsPersistent ==
    attributes.id # 0 => ~PSA_KEY_LIFETIME_IS_VOLATILE(attributes.lifetime)

(* The keys this library accepts. *)
Supported(type, bits) ==
    \/ PSA_KEY_TYPE_IS_UNSTRUCTURED(type)
    \/ PSA_KEY_TYPE_IS_RSA(type) /\ bits \in 1024 .. PSA_VENDOR_RSA_MAX_KEY_BITS
    \/ PSA_KEY_TYPE_IS_ECC(type) /\ bits \in 1 .. PSA_VENDOR_ECC_MAX_CURVE_BITS

(* The DER encoding of a number of that many bits, its sign bit clear, and *)
(* of a tag and length around a content.                                   *)
DerWrapped(n) == n + (CASE n < 128 -> 2 [] n \in 128 .. 255 -> 3 [] OTHER -> 4)
DerInteger(bits) == DerWrapped(bits \div 8 + 1)
DerPublicKey(bits) == DerWrapped(DerInteger(bits) + DerInteger(32))
DerKeyPair(bits) ==
    DerWrapped(DerInteger(1) + DerInteger(32) + 2 * DerInteger(bits)
               + 5 * DerInteger(bits \div 2 + 1))

(* A buffer of a key's own size is large enough for what is exported, and  *)
(* a buffer of the maximum size for what any supported key exports or      *)
(* signs.                                                                  *)
KeyOutputsFit ==
    LET type == attributes.type
        bits == attributes.bits
        size == PSA_EXPORT_KEY_OUTPUT_SIZE(type, bits)
        public == PSA_EXPORT_PUBLIC_KEY_OUTPUT_SIZE(type, bits)
    IN  Supported(type, bits) =>
          /\ PSA_KEY_TYPE_IS_RSA(type) => public >= DerPublicKey(bits)
          /\ type = PSA_KEY_TYPE_RSA_KEY_PAIR => size >= DerKeyPair(bits)
          /\ PSA_KEY_TYPE_IS_KEY_PAIR(type) => size <= PSA_EXPORT_KEY_PAIR_MAX_SIZE
          /\ PSA_KEY_TYPE_IS_PUBLIC_KEY(type) => size = public
          /\ public <= PSA_EXPORT_PUBLIC_KEY_MAX_SIZE
          /\ PSA_SIGN_OUTPUT_SIZE(type, bits) <= PSA_SIGNATURE_MAX_SIZE
          /\ PSA_RAW_KEY_AGREEMENT_OUTPUT_SIZE(type, bits)
                <= PSA_RAW_KEY_AGREEMENT_OUTPUT_MAX_SIZE
          /\ PSA_ASYMMETRIC_ENCRYPT_OUTPUT_SIZE(type, bits)
                <= PSA_ASYMMETRIC_ENCRYPT_OUTPUT_MAX_SIZE
          /\ PSA_BITS_TO_BYTES(bits) >= PSA_RSA_MINIMUM_PADDING_SIZE(attributes.alg) =>
                PSA_ASYMMETRIC_DECRYPT_OUTPUT_SIZE(type, bits, attributes.alg)
                    <= PSA_ASYMMETRIC_DECRYPT_OUTPUT_MAX_SIZE

(* The size of a one-shot operation covers what the parts of a multi-part  *)
(* one produce and the other way round; decryption gives back the length   *)
(* that was encrypted, and no size exceeds its maximum.                    *)
DataOutputsFit ==
    LET type == attributes.type
        alg == attributes.alg
        tag == PSA_AEAD_TAG_LENGTH(type, alg)
        iv == PSA_CIPHER_IV_LENGTH(type, alg)
        block == PSA_BLOCK_CIPHER_BLOCK_LENGTH(type)
    IN  /\ PSA_MAC_LENGTH(type, alg) <= PSA_MAC_MAX_SIZE \/ ~PSA_ALG_IS_MAC(alg)
        /\ tag <= PSA_AEAD_TAG_MAX_SIZE
        /\ PSA_AEAD_NONCE_LENGTH(type, alg) <= PSA_AEAD_NONCE_MAX_SIZE
        /\ iv <= PSA_CIPHER_IV_MAX_SIZE
        /\ \A n \in {0, 1, 8, 15, 16, 17, 48} :
             LET sealed == PSA_AEAD_ENCRYPT_OUTPUT_SIZE(type, alg, n)
                 parts == PSA_AEAD_UPDATE_OUTPUT_SIZE(type, alg, n)
                          + PSA_AEAD_FINISH_OUTPUT_SIZE(type, alg)
                 encrypted == PSA_CIPHER_ENCRYPT_OUTPUT_SIZE(type, alg, n)
                 cparts == PSA_CIPHER_UPDATE_OUTPUT_SIZE(type, alg, n)
                           + PSA_CIPHER_FINISH_OUTPUT_SIZE(type, alg)
             IN  /\ AeadFits(type, alg) =>
                       /\ PSA_AEAD_DECRYPT_OUTPUT_SIZE(type, alg, sealed) = n
                       /\ parts + tag >= sealed
                       /\ n < tag => PSA_AEAD_DECRYPT_OUTPUT_SIZE(type, alg, n) = 0
                 /\ sealed <= PSA_AEAD_ENCRYPT_OUTPUT_MAX_SIZE(n)
                 /\ parts <= PSA_AEAD_UPDATE_OUTPUT_MAX_SIZE(n)
                             + PSA_AEAD_FINISH_OUTPUT_MAX_SIZE
                 /\ PSA_ALG_IS_CIPHER(alg) /\ block # 0 =>
                       /\ iv + cparts >= encrypted
                       /\ PSA_CIPHER_DECRYPT_OUTPUT_SIZE(type, alg, encrypted) >= n
                 /\ encrypted <= PSA_CIPHER_ENCRYPT_OUTPUT_MAX_SIZE(n)
                 /\ cparts <= PSA_CIPHER_UPDATE_OUTPUT_MAX_SIZE(n)
                              + PSA_CIPHER_FINISH_OUTPUT_MAX_SIZE

(* What was built into an algorithm is what the macros of crypto_values.h  *)
(* recognise and give back, whatever chain of modifiers it went through.   *)
BuiltIsRecovered == RecognisedAsBuilt /\ PolicyRecovered

(* Every size macro of crypto_sizes.h is large enough for what the         *)
(* operation produces and within its maximum.                              *)
OutputsFit == KeyOutputsFit /\ DataOutputsFit

=============================================================================
