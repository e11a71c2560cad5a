----------------------------- MODULE PkiObjects -----------------------------
(***************************************************************************)
(* The PKI objects of the provisioning code (provision/crypto): where a    *)
(* label is stored, how an object is read, written and generated there,    *)
(* how the errors of the layers below are translated, and how public keys  *)
(* and signatures are encoded.                                             *)
(*                                                                         *)
(* A key is its number and its curve, a certificate or a request is the    *)
(* key it is for, the name in it and who signed it.  The PSA services are  *)
(* external: a store of keys by identifier, in which an identifier in use  *)
(* cannot be imported over, and a store of data by identifier, in which it *)
(* can.  The encodings are modelled by their lengths and, for signatures,  *)
(* by their bytes.                                                         *)
(***************************************************************************)
EXTENDS Integers, Sequences, FiniteSets, PsaKeys

VARIABLE
    ps      \* PSA protected storage: document by identifier, Nothing if there is none

pkiVars == <<keys, ps>>

None == "none"

(***************************************************************************)
(* Labels.                                                                 *)
(***************************************************************************)
TLS_KEY_PRV_LABEL == "tls_key_priv"
TLS_KEY_PUB_LABEL == "tls_key_pub"
TLS_CERT_LABEL == "tls_cert"
TLS_ROOT_CA_CERT_LABEL == "root_ca_cert"
OTA_SIGNING_KEY_LABEL == "ota_signer_pub"

PSA_TLS_CERT_ID == 5
PSA_TLS_ROOT_CA_CERT_ID == 7

StorageIds == {PSA_TLS_CERT_ID, PSA_TLS_ROOT_CA_CERT_ID}

Object(form, id) == [form |-> form, id |-> id]

xPkiObjectFromLabel(label) ==
    CASE label = TLS_KEY_PRV_LABEL      -> Object("psa_crypto", PSA_TLS_PRV_KEY_ID)
      [] label = TLS_KEY_PUB_LABEL      -> Object("psa_crypto", PSA_TLS_PUB_KEY_ID)
      [] label = TLS_CERT_LABEL         -> Object("psa_ps", PSA_TLS_CERT_ID)
      [] label = TLS_ROOT_CA_CERT_LABEL -> Object("psa_ps", PSA_TLS_ROOT_CA_CERT_ID)
      [] label = OTA_SIGNING_KEY_LABEL  -> Object("psa_crypto", OTA_SIGNING_KEY_ID)
      [] OTHER                          -> Object("none", 0)

(***************************************************************************)
(* Errors.  A status of the PSA services becomes an error of mbedtls, which *)
(* becomes a status of the PKI functions.                                  *)
(***************************************************************************)
PsaErrors ==
    {"not_supported", "insufficient_memory", "insufficient_entropy",
     "bad_state", "invalid_handle", "already_exists", "storage_failure",
     "corruption_detected"}

mbedtls_psa_err_translate_pk(status) ==
    CASE status = "success"              -> "0"
      [] status = "not_supported"        -> "PK_FEATURE_UNAVAILABLE"
      [] status = "insufficient_memory"  -> "PK_ALLOC_FAILED"
      [] status = "insufficient_entropy" -> "ECP_RANDOM_FAILED"
      [] status = "bad_state"            -> "PK_BAD_INPUT_DATA"
      [] OTHER                           -> "ERROR_GENERIC_ERROR"

xPrvMbedtlsErrToPkiStatus(error) ==
    CASE error = "0"                          -> "success"
      [] error = "X509_ALLOC_FAILED"          -> "nomem"
      [] error = "ERROR_CORRUPTION_DETECTED"  -> "internal"
      [] error \in {"X509_CERT_UNKNOWN_FORMAT", "X509_BAD_INPUT_DATA",
                    "PEM_BAD_INPUT_DATA", "PEM_NO_HEADER_FOOTER_PRESENT"}
                                              -> "parsing_failed"
      [] OTHER                                -> "err"

PkiStatus(psa) == xPrvMbedtlsErrToPkiStatus(mbedtls_psa_err_translate_pk(psa))

\* mbedtls_to_psa_error looks at the seven low bits of -ret first, also when
\* ret is not an error but the number of bytes that were written.
LowLevel(ret) == (-ret) % 128

\* The codes of the ciphers, of ASN.1 and of the random number generator.
CipherStatus(low) ==
    CASE low \in {32, 34, 36, 54, 56}      -> "not_supported"
      [] low \in {96, 98, 100, 102, 104}   -> "invalid_argument"
      [] low = 106                         -> "insufficient_memory"
      [] low = 108                         -> "buffer_too_small"
      [] low \in {52, 58}                  -> "insufficient_entropy"
      [] OTHER                             -> None

\* Those of the entropy sources and of big numbers, and of a corrupted state.
\* The other modules have high-level codes only, whose seven low bits are 0.
NumberStatus(low) ==
    CASE low \in {60, 61, 64}          -> "insufficient_entropy"
      [] low = 2                       -> "storage_failure"
      [] low \in {4, 6, 10, 12, 14}    -> "invalid_argument"
      [] low = 8                       -> "buffer_too_small"
      [] low = 16                      -> "insufficient_memory"
      [] low = 110                     -> "corruption_detected"
      [] OTHER                         -> None

mbedtls_to_psa_error(ret) ==
    CASE CipherStatus(LowLevel(ret)) # None -> CipherStatus(LowLevel(ret))
      [] NumberStatus(LowLevel(ret)) # None -> NumberStatus(LowLevel(ret))
      [] OTHER -> IF ret < 0 THEN "generic" ELSE "success"

(***************************************************************************)
(* Curves.                                                                 *)
(***************************************************************************)
Curves == {"secp192r1", "secp224r1", "secp256r1", "secp384r1", "secp521r1",
           "secp192k1", "secp224k1", "secp256k1", "bp256r1", "bp384r1",
           "bp512r1"}

xPsaFamilyFromMbedtlsEccGroupId(curve) ==
    CASE curve \in {"secp192r1", "secp224r1", "secp256r1", "secp384r1",
                    "secp521r1"}                        -> "secp_r1"
      [] curve \in {"bp256r1", "bp384r1", "bp512r1"}    -> "brainpool_p_r1"
      [] curve \in {"secp192k1", "secp224k1", "secp256k1"} -> "secp_k1"

Bits(curve) ==
    CASE curve \in {"secp192r1", "secp192k1"} -> 192
      [] curve \in {"secp224r1", "secp224k1"} -> 224
      [] curve \in {"secp256r1", "secp256k1", "bp256r1"} -> 256
      [] curve \in {"secp384r1", "bp384r1"}   -> 384
      [] curve = "bp512r1"                    -> 512
      [] curve = "secp521r1"                  -> 521

xMbedtlsEccGroupIdFromPsaFamily(family, bits) ==
    CASE family = "secp_r1" ->
           CASE bits = 192 -> "secp192r1" [] bits = 224 -> "secp224r1"
             [] bits = 256 -> "secp256r1" [] bits = 384 -> "secp384r1"
             [] bits \in {521, 528} -> "secp521r1" [] OTHER -> None
      [] family = "brainpool_p_r1" ->
           CASE bits = 256 -> "bp256r1" [] bits = 384 -> "bp384r1"
             [] bits = 512 -> "bp512r1" [] OTHER -> None
      [] family = "secp_k1" ->
           CASE bits = 192 -> "secp192k1" [] bits = 224 -> "secp224k1"
             [] bits = 256 -> "secp256k1" [] OTHER -> None
      [] OTHER -> None

\* The curve of an object identifier is that of the family and the bits;
\* its length is that of mbedtls/oid.h.
mbedtls_psa_get_ecc_oid_from_id(family, bits) ==
    xMbedtlsEccGroupIdFromPsaFamily(family, bits)

OidLength(curve) ==
    CASE curve \in {"secp192r1", "secp256r1"}            -> 8
      [] curve \in {"bp256r1", "bp384r1", "bp512r1"}     -> 9
      [] OTHER                                           -> 5

(***************************************************************************)
(* xReadPublicKeyFromPSACrypto: the exported point and the headers around  *)
(* it are written from the end of a buffer towards its start, and each     *)
(* number of bytes written goes through mbedtls_to_psa_error.              *)
(***************************************************************************)
ECP_PUB_DER_MAX_BYTES == 30 + 2 * 66

CeilDiv8(n) == (n + 7) \div 8

PointLength(curve) == 1 + 2 * CeilDiv8(Bits(curve))

\* Bytes of a DER length.
LenLen(n) == IF n < 128 THEN 1 ELSE IF n < 256 THEN 2 ELSE 3

\* The export leaves room for the byte in front of the point.
ExportFits(curve) == ECP_PUB_DER_MAX_BYTES >= PointLength(curve) + 1

BitStringLength(curve) ==
    LET n == PointLength(curve) + 1 IN n + LenLen(n) + 1

ParametersLength(curve) ==
    2 + OidLength(mbedtls_psa_get_ecc_oid_from_id(
                     xPsaFamilyFromMbedtlsEccGroupId(curve), Bits(curve)))

\* With the identifier of elliptic curve keys, 7 bytes long.
AlgorithmLength(curve) == 2 + (2 + 7) + ParametersLength(curve)

ReadPublicKeyStatus(curve) ==
    LET inner == BitStringLength(curve) + AlgorithmLength(curve)
    IN  CASE ~ExportFits(curve) -> "buffer_too_small"
          [] \E ret \in {ParametersLength(curve), AlgorithmLength(curve), 1} :
                mbedtls_to_psa_error(ret) # "success" -> "err"
          [] inner + LenLen(inner) + 1 > ECP_PUB_DER_MAX_BYTES -> "err"
          [] OTHER -> "success"

(***************************************************************************)
(* pk_ecdsa_sig_asn1_from_psa: the raw signature at the start of a buffer  *)
(* is turned into DER in place, from the end of the buffer towards its     *)
(* start.  A buffer is a sequence of bytes, p the index of the byte that   *)
(* was written last; start and p count from 1.                             *)
(***************************************************************************)
Failure(error) == [ok |-> FALSE, buf |-> <<>>, p |-> 0, len |-> 0, error |-> error]

Written(buf, p, len) == [ok |-> TRUE, buf |-> buf, p |-> p, len |-> len, error |-> None]

\* buf with the bytes s from index i on.
Put(buf, i, s) ==
    [j \in DOMAIN buf |-> IF j \in i .. (i + Len(s) - 1) THEN s[j - i + 1] ELSE buf[j]]

\* mbedtls_asn1_write_len and mbedtls_asn1_write_tag, of lengths below 128.
WriteHeader(w, start, tag) ==
    IF ~w.ok THEN w
    ELSE IF w.p - start < 2 THEN Failure("buf_too_small")
    ELSE Written(Put(w.buf, w.p - 2, <<tag, w.len>>), w.p - 2, w.len + 2)

\* Number of zero bytes at the start of s.
LeadingZeros(s) ==
    IF \A i \in DOMAIN s : s[i] = 0 THEN Len(s)
    ELSE (CHOOSE i \in DOMAIN s : s[i] # 0 /\ \A j \in 1 .. (i - 1) : s[j] = 0) - 1

asn1_write_mpibuf_NoPadding(buf, p, start, n) ==
    LET bytes == SubSeq(buf, start, start + n - 1)
        zeros == LeadingZeros(bytes)
        moved == Put(buf, p - n, bytes)
    IN  IF p - start < n THEN Failure("buf_too_small")
        ELSE IF zeros = n THEN Failure("out_of_data")
        ELSE WriteHeader(Written(moved, p - n + zeros, n - zeros), start, 2)

asn1_write_mpibuf(buf, p, start, n) ==
    LET bytes == SubSeq(buf, start, start + n - 1)
        zeros == LeadingZeros(bytes)
        moved == Put(buf, p - n, bytes)
        first == p - n + zeros
    IN  IF p - start < n THEN Failure("buf_too_small")
        ELSE IF zeros = n THEN Failure("out_of_data")
        ELSE IF moved[first] < 128
             THEN WriteHeader(Written(moved, first, n - zeros), start, 2)
             ELSE IF first - start < 1 THEN Failure("buf_too_small")
             ELSE WriteHeader(Written(Put(moved, first - 1, <<0>>), first - 1,
                                      n - zeros + 1), start, 2)

pk_ecdsa_sig_asn1_from_psa(raw, bufLen) ==
    LET half == Len(raw) \div 2
        buf == raw \o [i \in 1 .. (bufLen - Len(raw)) |-> 0]
        s == asn1_write_mpibuf(buf, bufLen + 1, half + 1, half)
        r == asn1_write_mpibuf(s.buf, s.p, 1, half)
        both == WriteHeader([r EXCEPT !.len = r.len + s.len], 1, 48)
    IN  IF ~s.ok THEN s ELSE IF ~r.ok THEN r ELSE both

\* The DER encoding of an integer of big-endian bytes, and of a signature.
DerInteger(bytes) ==
    LET minimal == SubSeq(bytes, LeadingZeros(bytes) + 1, Len(bytes))
        padded == IF minimal[1] >= 128 THEN <<0>> \o minimal ELSE minimal
    IN  <<2, Len(padded)>> \o padded

DerSignature(raw) ==
    LET half == Len(raw) \div 2
        body == DerInteger(SubSeq(raw, 1, half)) \o
                DerInteger(SubSeq(raw, half + 1, 2 * half))
    IN  <<48, Len(body)>> \o body

\* psa_ecdsa_sign: whether the signature the caller gets is the DER form of the
\* one the secure side made.
psa_ecdsa_sign(raw, bufLen) ==
    LET der == pk_ecdsa_sig_asn1_from_psa(raw, bufLen)
    IN  der.ok /\ SubSeq(der.buf, der.p, der.p + der.len - 1) = DerSignature(raw)

(***************************************************************************)
(* The stores.                                                             *)
(***************************************************************************)
Key(n, curve, pair) == [n |-> n, curve |-> curve, pair |-> pair]

\* A certificate, a request or a public key as it is stored or sent: the number
\* of its key, the name in it, and whether its signature is the one that was made.
Document(type, n, name, signed) ==
    [type |-> type, n |-> n, name |-> name, signed |-> signed]

Nothing == Document(None, 0, None, FALSE)

PkiInit ==
    /\ keys = [i \in KeyIds |-> NoKey]
    /\ ps = [i \in StorageIds |-> Nothing]

psa_destroy_key(id) == keys' = [keys EXCEPT ![id] = NoKey] /\ UNCHANGED ps

\* The first half of lGenerateKeyPairECPsaCrypto: an invalid handle is not an
\* error.
DestroyPrivate == psa_destroy_key(PSA_TLS_PRV_KEY_ID)

DestroyPublic_Missing == UNCHANGED pkiVars

DestroyPublic == psa_destroy_key(PSA_TLS_PUB_KEY_ID)

\* psa_generate_key and psa_import_key refuse an identifier in use.
Unused(id) == keys[id] = NoKey

psa_generate_key(n) ==
    /\ Unused(PSA_TLS_PRV_KEY_ID)
    /\ keys' = [keys EXCEPT ![PSA_TLS_PRV_KEY_ID] = Key(n, "secp256r1", TRUE)]
    /\ UNCHANGED ps

ImportPublic ==
    /\ Unused(PSA_TLS_PUB_KEY_ID)
    /\ keys' = [keys EXCEPT ![PSA_TLS_PUB_KEY_ID] =
                   Key(keys[PSA_TLS_PRV_KEY_ID].n, "secp256r1", FALSE)]
    /\ UNCHANGED ps

lWritePublicKeyToPSACrypto(id, key) ==
    /\ Unused(id)
    /\ keys' = [keys EXCEPT ![id] = Key(key.n, key.curve, FALSE)]
    /\ UNCHANGED ps

\* The protected storage replaces an object as a whole.
lWriteObjectToPsaPs(uid, object) ==
    /\ ps' = [ps EXCEPT ![uid] = object]
    /\ UNCHANGED keys

lWriteCertificateToPsaPS(uid, cert) == lWriteObjectToPsaPs(uid, cert)

\* xPkiWriteCertificate with a certificate that parsed.
xPkiWriteCertificate(label, cert) ==
    LET object == xPkiObjectFromLabel(label)
    IN  object.form = "psa_ps" /\ lWriteCertificateToPsaPS(object.id, cert)

\* xPkiWritePubKey with a label of the key store.
xPkiWritePubKey(label, key) ==
    LET object == xPkiObjectFromLabel(label)
    IN  object.form = "psa_crypto" /\ lWritePublicKeyToPSACrypto(object.id, key)

xReadPublicKeyFromPSACrypto(id) ==
    keys[id] # NoKey /\ ReadPublicKeyStatus(keys[id].curve) = "success"

\* A context for a private key is set up from its public part.
lPsa_initMbedtlsPkContext(id) == keys[id].pair /\ xReadPublicKeyFromPSACrypto(id)

xPkiReadPrivateKey(label) ==
    LET object == xPkiObjectFromLabel(label)
    IN  object.form = "psa_crypto" /\ lPsa_initMbedtlsPkContext(object.id)

xPkiReadPublicKeyDer(label) ==
    LET object == xPkiObjectFromLabel(label)
    IN  object.form = "psa_crypto" /\ xReadPublicKeyFromPSACrypto(object.id)

lReadObjectFromPsaPs(uid) == ps[uid] # Nothing

lReadCertificateFromPsaPS(uid) == lReadObjectFromPsaPs(uid)

xPkiReadCertificate(label) ==
    LET object == xPkiObjectFromLabel(label)
    IN  object.form = "psa_ps" /\ lReadCertificateFromPsaPS(object.id)
=============================================================================
