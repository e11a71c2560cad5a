----------------------------- MODULE PkiPkcs11 -----------------------------
(***************************************************************************)
(* The users of the PKCS #11 token: the PKI objects over PKCS #11          *)
(* (PkiObjectPkcs11.c), the mbedTLS key contexts whose private key stays   *)
(* in the token (mbedtls_pk_pkcs11.c), the helpers of corePKCS11 and the   *)
(* client credential of a TLS connection (iot_tls.c).                      *)
(*                                                                         *)
(* A command is the sequence of steps its functions go through; a step     *)
(* calls the token once and may fail, which sends the command to the       *)
(* cleaning up of the function it is in.  Between two steps the device may *)
(* be reset.  The token is the one of Pkcs11, here with what its objects   *)
(* hold: the number of a key pair, and for a certificate that of its key.  *)
(***************************************************************************)
EXTENDS Integers, Sequences

CONSTANTS
    MaxSessions,    \* sessions the heap has room for
    Width,          \* bytes of each of the two numbers of a signature
    RawSignatures,  \* signatures the token makes: pairs of Width bytes
    SignatureSpace, \* bytes of the buffer mbedTLS passes for a signature
    MaxKeys,        \* bound: key pairs generated
    None

Sessions == 1..MaxSessions
Objects == {"prv", "pub", "code", "cert", "jitp"}
Algs == {"EC", "RSA"}

\* One of the two numbers of a signature.
Octets == [1..Width -> 0..255]

ASSUME PkiPkcs11Assumption ==
    /\ MaxSessions \in Nat /\ Width \in 1..123 /\ SignatureSpace \in Nat /\ MaxKeys \in Nat
    /\ RawSignatures \subseteq Octets \X Octets

VARIABLES
    token,      \* what each object holds, kept over a reset
    sessions,   \* the open sessions
    call,       \* the command in progress, its step and its local variables
    pk,         \* the mbedTLS key context of the command
    tls,        \* the session of the TLS context, once its handshake started
    reply,      \* how the last command ended
    made,       \* key pairs generated
    leaked,     \* sessions whose handle was dropped without closing them
    undefined   \* a session handle was closed that was never set

vars == <<token, sessions, call, pk, tls, reply, made, leaked, undefined>>

Key(n, alg) == [n |-> n, alg |-> alg]
Cert(n) == Key(n, "cert")

NoContext == [session |-> None, alg |-> None, n |-> None]
NoReply == [command |-> None, status |-> None, out |-> None, raw |-> None, der |-> None]
Idle == [command |-> None, at |-> 0, session |-> None, handle |-> None,
         status |-> "PKI_SUCCESS", out |-> None, raw |-> None, der |-> None]

(***************************************************************************)
(* Signatures: the token gives two numbers of Width bytes, X.509 and TLS   *)
(* want a DER sequence of two integers.                                    *)
(***************************************************************************)
Zeros(n) == [i \in 1..n |-> 0]
Negative(octets) == octets[1] > 127

\* prvASN1WriteBigIntFromOctetStr: tag, length, and a zero byte before a first
\* byte that would make the number negative.  Leading zeros are kept.
Integer(octets) ==
    LET padded == IF Negative(octets) THEN <<0>> \o octets ELSE octets
    IN  <<2, Len(padded)>> \o padded

\* prvEcdsaSigToASN1InPlace, None if the signature does not fit.
prvEcdsaSigToASN1InPlace(raw) ==
    LET numbers == Integer(raw[1]) \o Integer(raw[2])
        der == <<48, Len(numbers)>> \o numbers
    IN  IF Len(der) <= SignatureSpace THEN der ELSE None

\* PKI_pkcs11SignatureTombedTLSSignature: the lengths start from those without
\* padding and count one for each number that needs it.
PKI_pkcs11SignatureTombedTLSSignature(raw) ==
    LET pad(i) == IF Negative(raw[i]) THEN 1 ELSE 0
        number(i) == <<2, Width + pad(i)>> \o Zeros(pad(i)) \o raw[i]
    IN  <<48, 2 * Width + 4 + pad(1) + pad(2)>> \o number(1) \o number(2)

\* One number of PKI_mbedTLSSignatureToPkcs11Signature, whose length is at i.
NumberAt(der, i) ==
    IF der[i] = Width + 1 THEN SubSeq(der, i + 2, i + 1 + Width)
    ELSE Zeros(Width - der[i]) \o SubSeq(der, i + 1, i + der[i])

PKI_mbedTLSSignatureToPkcs11Signature(der) ==
    LET next == IF der[4] = Width + 1 THEN 7 + Width ELSE 6 + der[4]
    IN  IF der[4] > Width + 1 \/ der[next] > Width + 1 THEN None
        ELSE <<NumberAt(der, 4), NumberAt(der, next)>>

(***************************************************************************)
(* Results.                                                                *)
(***************************************************************************)
TokenErrors == {"CKR_HOST_MEMORY", "CKR_FUNCTION_FAILED", "CKR_DEVICE_ERROR"}

xPrvCkRvToPkiStatus(rv) ==
    CASE rv = "CKR_OK"                    -> "PKI_SUCCESS"
      [] rv = "CKR_OBJECT_HANDLE_INVALID" -> "PKI_ERR_OBJ_NOT_FOUND"
      [] rv = "CKR_HOST_MEMORY"           -> "PKI_ERR_NOMEM"
      [] rv = "CKR_FUNCTION_FAILED"       -> "PKI_ERR_INTERNAL"
      [] OTHER                            -> "PKI_ERR"

\* The functions of mbedtls_pk_pkcs11.c that write return -1 on any error.
\* lReadCertificateFromPKCS11 returns the PKCS #11 code, a positive number,
\* which xPrvMbedtlsErrToPkiStatus takes for a length, or the error of parsing.
AllocFailed == -2
xPrvMbedtlsErrToPkiStatus(error) ==
    CASE error = AllocFailed -> "PKI_ERR_NOMEM" [] error = -1 -> "PKI_ERR" [] OTHER -> "PKI_SUCCESS"
WriteError(rv) == IF rv = "CKR_OK" THEN 0 ELSE -1
ReadError(rv) ==
    CASE rv = "CKR_OK" -> 0 [] rv = "MBEDTLS_ERR_X509_ALLOC_FAILED" -> AllocFailed [] OTHER -> 1

Seen(by, rv) ==
    CASE by = "ck"    -> xPrvCkRvToPkiStatus(rv)
      [] by = "write" -> xPrvMbedtlsErrToPkiStatus(WriteError(rv))
      [] by = "read"  -> xPrvMbedtlsErrToPkiStatus(ReadError(rv))
      [] by = "credential" -> "PKI_SUCCESS"

(***************************************************************************)
(* Functions as sequences of steps.  The error of a failing step reaches   *)
(* the caller as its field "by" says, and the function goes on at the next *)
(* step whose name is that of its field "then".  An error nobody looks at *)
(* has "ignored" there.                                                    *)
(***************************************************************************)
Step(do, object, by, then) == [do |-> do, object |-> object, by |-> by, then |-> then]

DestroyStep(object, by) ==
    <<Step("find", object, by, "close"), Step("destroy", object, by, "close")>>

xPrvDestoryObject(object) == DestroyStep(object, "ck")

lWriteCertificateToPKCS11 ==
    DestroyStep("cert", "write") \o <<Step("create", "cert", "write", "close")>>

\* The point is written only after the old key is gone, and only an EC key has
\* one.
lWriteEcPublicKeyToPKCS11 ==
    DestroyStep("code", "write") \o <<Step("point", "code", "write", "close"),
                                      Step("create", "code", "write", "close")>>

lReadCertificateFromPKCS11 ==
    <<Step("find", "cert", "read", "close"), Step("value", "cert", "read", "close")>>

Session(then) == <<Step("session", None, "ck", then)>>
Close == <<Step("close", None, None, None)>>

xPkcs11WriteCertificate ==
    Session("close") \o xPrvDestoryObject("cert") \o lWriteCertificateToPKCS11 \o Close

\* The handle of the session is not initialized, and closed all the same when
\* there is none.
xPkcs11ReadCertificate ==
    <<Step("session", None, "ck", "close_uninitialized")>> \o lReadCertificateFromPKCS11 \o Close

C_GenerateKeyPair ==
    <<Step("generate", "prv", "ck", "close"), Step("generate_public", "pub", "ck", "close"),
      Step("export", "pub", "ck", "close")>>

Generate_KeepsPublic ==
    Session("close") \o xPrvDestoryObject("prv") \o C_GenerateKeyPair \o Close

xPkcs11GenerateKeyPairEC ==
    Session("close") \o xPrvDestoryObject("prv") \o xPrvDestoryObject("pub")
        \o C_GenerateKeyPair \o Close

\* The result of C_CloseSession replaces what went wrong before it.
xPkcs11ReadPublicKey ==
    Session("close") \o <<Step("find", "pub", "ck", "close"), Step("export", "pub", "ck", "close"),
                          Step("close", "status", None, None)>>

xPkcs11WritePubKey ==
    Session("close") \o xPrvDestoryObject("code") \o lWriteEcPublicKeyToPKCS11 \o Close

\* A key context keeps the session.  There is nothing that closes it when the
\* key or its attributes cannot be read.
xPKCS11_initMbedtlsPkContext ==
    <<Step("key_type", "prv", "ck", "free"), Step("context", "prv", "ck", "free")>>

xPkcs11InitMbedtlsPkContext ==
    Session("free") \o <<Step("find", "prv", "ck", "free")>> \o xPKCS11_initMbedtlsPkContext

\* TLS_Init opens the session and seeds the generator of random numbers.
\* TLS_Connect goes through the handshake also when the key and the certificates
\* of the device cannot be loaded.
prvInitializeClientCredential ==
    LET Load(do, object) == <<Step(do, object, "credential", "handshake")>>
    IN  Load("start", None) \o Load("find", "prv") \o Load("key_type", "prv")
          \o Load("find", "cert") \o Load("value", "cert") \o Load("find", "jitp")

TLS_Connect ==
    LET Connect(do) == <<Step(do, None, "write", "established")>>
    IN  Connect("session") \o Connect("entropy") \o prvInitializeClientCredential
          \o Connect("handshake") \o <<Step("established", None, None, None)>>

\* vSubCommand_GenerateCertificate does not look at what xPkiWriteCertificate
\* returns: it prints the certificate it has signed all the same.
Ignored(steps) == [i \in DOMAIN steps |-> [steps[i] EXCEPT !.by = "ignored"]]

\* The subcommands of the pki command, and the connection.
Sign == <<Step("sign", "prv", "write", "free")>>
Free == <<Step("free", None, None, None)>>
Program ==
    [generate_key  |-> xPkcs11GenerateKeyPairEC,
     generate_csr  |-> xPkcs11InitMbedtlsPkContext \o Sign \o Free,
     generate_cert |-> xPkcs11InitMbedtlsPkContext \o Sign
                         \o Ignored(xPkcs11WriteCertificate) \o Free,
     import_cert   |-> xPkcs11WriteCertificate,
     import_key    |-> xPkcs11WritePubKey,
     export_cert   |-> xPkcs11ReadCertificate,
     export_key    |-> xPkcs11ReadPublicKey,
     connect       |-> TLS_Connect]

\* What an object of the token holds.
Held == [n : Nat, alg : Algs \cup {"cert"}]

ASSUME NoneAssumption ==
    None \notin Int \cup Objects \cup Held \cup DOMAIN Program \cup {"PKI_SUCCESS", "status"}

(***************************************************************************)
(* Running a command.                                                      *)
(***************************************************************************)
Running == call.command # None
Now == Program[call.command][call.at]
Does(do) == Running /\ Now.do = do

\* The first later step of the given name.
After(name) ==
    LET steps == Program[call.command]
    IN  CHOOSE i \in (call.at + 1)..Len(steps) :
          /\ steps[i].do = name
          /\ \A j \in (call.at + 1)..(i - 1) : steps[j].do # name

Proceed(c) == call' = [c EXCEPT !.at = @ + 1]
FailedAt(name, rv) ==
    IF Now.by = "ignored" THEN [call EXCEPT !.at = After(name)]
    ELSE [call EXCEPT !.status = Seen(Now.by, rv), !.at = After(name), !.out = None]
Fail(rv) == call' = FailedAt(Now.then, rv)
FailsAnyhow == \E rv \in TokenErrors : Fail(rv)

\* The last step: the result is handed to the caller.
Finish(c) ==
    /\ call' = Idle
    /\ reply' = [command |-> c.command, status |-> c.status, out |-> c.out,
                 raw |-> c.raw, der |-> c.der]

\* Ends a function, and the command with it if nothing follows.
GoOn(c) ==
    IF c.at = Len(Program[c.command]) THEN Finish(c) ELSE Proceed(c) /\ UNCHANGED reply

Begin(command, out) ==
    /\ ~Running
    /\ command = "connect" => tls = None
    /\ call' = [Idle EXCEPT !.command = command, !.at = 1, !.out = out]
    /\ reply' = NoReply
    /\ UNCHANGED <<token, sessions, pk, tls, made, leaked, undefined>>

\* The certificates come from the host, for a key it has seen; so does the key
\* that verifies images.
pki ==
    \/ \E command \in DOMAIN Program \ {"import_cert", "import_key"} : Begin(command, None)
    \/ \E n \in 0..made : Begin("import_cert", Cert(n))
    \/ \E alg \in Algs : Begin("import_key", Key(0, alg))

(***************************************************************************)
(* The steps.                                                              *)
(***************************************************************************)
Kept == UNCHANGED <<pk, tls, made, leaked, undefined>>
Quiet == Kept /\ UNCHANGED <<token, sessions, reply>>

\* A session is on the heap; the model calls it by the first free number.
FirstFree(s) == s \in Sessions \ sessions /\ 1..(s - 1) \subseteq sessions

\* The handle an uninitialized variable holds.
Uninitialized == -1

\* What the list of slots and the opening of a session in the first can give.
xGetSlotList == {"CKR_OK", "CKR_HOST_MEMORY"}
prvOpenSession ==
    {"CKR_HOST_MEMORY"} \cup (IF sessions = Sessions THEN {} ELSE {"CKR_OK"})

xInitializePkcs11Session ==
    /\ Does("session")
    /\ \/ /\ "CKR_OK" \in prvOpenSession
          /\ \E s \in Sessions : /\ FirstFree(s)
                                 /\ sessions' = sessions \cup {s}
                                 /\ Proceed([call EXCEPT !.session = s])
       \/ /\ UNCHANGED sessions
          /\ \E rv \in (xGetSlotList \cup prvOpenSession) \ {"CKR_OK"} :
               IF Now.then # "close_uninitialized" THEN Fail(rv)
               ELSE call' = [FailedAt("close", rv) EXCEPT !.session = Uninitialized]
    /\ Kept /\ UNCHANGED <<token, reply>>

xFindObjectWithLabelAndClass ==
    /\ Does("find")
    /\ \/ Proceed([call EXCEPT !.handle = IF token[Now.object] # None THEN Now.object ELSE None])
       \/ FailsAnyhow
    /\ Quiet

C_DestroyObject ==
    /\ Does("destroy")
    /\ \/ call.handle = None /\ Proceed(call) /\ UNCHANGED token
       \/ call.handle # None /\ Proceed(call) /\ token' = [token EXCEPT ![call.handle] = None]
       \/ call.handle # None /\ FailsAnyhow /\ UNCHANGED token
    /\ Kept /\ UNCHANGED <<sessions, reply>>

WritePoint ==
    /\ Does("point")
    /\ \/ call.out.alg = "EC" /\ Proceed(call)
       \/ call.out.alg # "EC" /\ Fail("CKR_FUNCTION_NOT_SUPPORTED")
       \/ FailsAnyhow
    /\ Quiet

C_CreateObject ==
    /\ Does("create")
    /\ \/ Proceed(call) /\ token' = [token EXCEPT ![Now.object] = call.out]
       \/ FailsAnyhow /\ UNCHANGED token
    /\ Kept /\ UNCHANGED <<sessions, reply>>

\* What C_GenerateKeyPair wants of its templates, sets of attributes with the
\* value supported.
Check(template, required, supported) ==
    CASE ~(required \subseteq template)  -> "CKR_TEMPLATE_INCOMPLETE"
      [] ~(template \subseteq supported) -> "CKR_TEMPLATE_INCONSISTENT"
      [] OTHER                           -> "CKR_OK"

prvCheckGenerateKeyPairPrivateTemplate(template) ==
    Check(template, {"CKA_LABEL", "CKA_PRIVATE", "CKA_SIGN"},
                    {"CKA_LABEL", "CKA_PRIVATE", "CKA_SIGN", "CKA_TOKEN", "CKA_KEY_TYPE"})

prvCheckGenerateKeyPairPublicTemplate(template) ==
    Check(template, {"CKA_LABEL", "CKA_EC_PARAMS", "CKA_VERIFY"},
                    {"CKA_LABEL", "CKA_EC_PARAMS", "CKA_VERIFY", "CKA_TOKEN", "CKA_KEY_TYPE"})

xPrivateKeyTemplate == {"CKA_KEY_TYPE", "CKA_TOKEN", "CKA_PRIVATE", "CKA_SIGN", "CKA_LABEL"}
xPublicKeyTemplate == {"CKA_KEY_TYPE", "CKA_VERIFY", "CKA_EC_PARAMS", "CKA_LABEL"}

\* The private key is made first; without its public key it stays.
GenerateKeyPair ==
    /\ Does("generate")
    /\ \/ /\ prvCheckGenerateKeyPairPrivateTemplate(xPrivateKeyTemplate) = "CKR_OK"
          /\ prvCheckGenerateKeyPairPublicTemplate(xPublicKeyTemplate) = "CKR_OK"
          /\ token["prv"] = None /\ made < MaxKeys
          /\ made' = made + 1
          /\ token' = [token EXCEPT !["prv"] = Key(made', "EC")]
          /\ Proceed(call)
       \/ FailsAnyhow /\ UNCHANGED <<token, made>>
    /\ UNCHANGED <<sessions, pk, tls, reply, leaked, undefined>>

GeneratePublicKey ==
    /\ Does("generate_public")
    /\ \/ /\ token["pub"] = None
          /\ token' = [token EXCEPT !["pub"] = token["prv"]]
          /\ Proceed([call EXCEPT !.handle = "pub"])
       \/ FailsAnyhow /\ UNCHANGED token
    /\ Kept /\ UNCHANGED <<sessions, reply>>

\* Without an object the size is not known, no buffer is taken, and the error
\* is that of the buffer.
xPrvExportPubKeyDer ==
    /\ Does("export")
    /\ \/ call.handle # None /\ Proceed([call EXCEPT !.out = token[call.handle]])
       \/ call.handle # None /\ FailsAnyhow
       \/ Fail("CKR_HOST_MEMORY")
    /\ Quiet

prvReadCertificateIntoContext ==
    /\ Does("value")
    /\ \/ call.handle = None /\ Fail("CKR_OBJECT_HANDLE_INVALID")
       \/ call.handle # None /\ Proceed([call EXCEPT !.out = token[call.handle]])
       \/ call.handle # None /\ (FailsAnyhow \/ Fail("MBEDTLS_ERR_X509_ALLOC_FAILED"))
    /\ Quiet

KeyType ==
    /\ Does("key_type")
    /\ \/ call.handle = None /\ Fail("CKR_KEY_HANDLE_INVALID")
       \/ call.handle # None /\ (Proceed(call) \/ FailsAnyhow)
    /\ Quiet

\* An EC context reads its point through the handle of the private key: a
\* token that does not give it makes the context fail.
p11_ecdsa_ctx_init ==
    /\ Does("context") /\ token["prv"].alg = "EC"
    /\ \/ /\ pk' = [session |-> call.session, alg |-> "EC", n |-> token["prv"].n]
          /\ Proceed([call EXCEPT !.session = None])
       \/ UNCHANGED pk /\ (FailsAnyhow \/ Fail("CKR_GENERAL_ERROR"))
    /\ UNCHANGED <<token, sessions, tls, reply, made, leaked, undefined>>

\* An RSA context records neither the session nor the key.
p11_rsa_ctx_init ==
    /\ Does("context") /\ token["prv"].alg = "RSA"
    /\ \/ /\ pk' = [session |-> None, alg |-> "RSA", n |-> token["prv"].n]
          /\ leaked' = leaked \cup {call.session}
          /\ Proceed([call EXCEPT !.session = None])
       \/ Fail("CKR_FUNCTION_FAILED") /\ UNCHANGED <<pk, leaked>>
    /\ UNCHANGED <<token, sessions, tls, reply, made, undefined>>

p11_ecdsa_sign ==
    /\ Does("sign") /\ pk.alg = "EC"
    /\ \/ \E raw \in RawSignatures :
             LET der == prvEcdsaSigToASN1InPlace(raw)
             IN  IF der = None THEN Fail("CKR_FUNCTION_FAILED")
                 ELSE Proceed([call EXCEPT !.raw = raw, !.der = der, !.out = Cert(pk.n)])
       \/ FailsAnyhow
    /\ Quiet

p11_rsa_sign == Does("sign") /\ pk.alg = "RSA" /\ Fail("CKR_FUNCTION_FAILED") /\ Quiet

prvEntropyCallback == Does("entropy") /\ (Proceed(call) \/ FailsAnyhow) /\ Quiet

\* From here on prvFreeContext closes the session.
HandshakeStarted ==
    /\ Does("start")
    /\ tls' = call.session
    /\ Proceed([call EXCEPT !.session = None])
    /\ UNCHANGED <<token, sessions, pk, reply, made, leaked, undefined>>

\* The server may ask for a signature, which an EC key gives in the form of the
\* token and an RSA key as it is; without a certificate it cannot.
prvPrivateKeySigningCallback ==
    /\ Does("handshake")
    /\ \/ /\ call.out # None /\ token["prv"].alg = "EC"
          /\ \E raw \in RawSignatures :
               Proceed([call EXCEPT !.raw = raw,
                                    !.der = PKI_pkcs11SignatureTombedTLSSignature(raw)])
       \/ call.out # None /\ token["prv"].alg = "RSA" /\ Proceed(call)
       \/ call.out = None /\ Proceed(call)
       \/ FailsAnyhow
    /\ Quiet

\* The handshake is over.  If it failed the context is freed, with its session
\* only if the handshake was started.
prvFreeContext ==
    /\ Does("established")
    /\ \/ call.status = "PKI_SUCCESS" /\ UNCHANGED <<tls, sessions, leaked>>
       \/ /\ call.status # "PKI_SUCCESS"
          /\ tls' = None
          /\ sessions' = sessions \ {tls}
          /\ leaked' = leaked \cup ({call.session} \ {None})
    /\ Finish(call)
    /\ UNCHANGED <<token, pk, made, undefined>>

TLS_Cleanup ==
    /\ ~Running /\ tls # None
    /\ tls' = None
    /\ sessions' = sessions \ {tls}
    /\ reply' = NoReply
    /\ UNCHANGED <<token, call, pk, made, leaked, undefined>>

\* Closing a handle that was never set closes any session, or none.
CloseAnything ==
    /\ undefined' = TRUE
    /\ \E s \in Sessions \cup {None} : sessions' = sessions \ {s}

Closing_OnSuccess(c) == IF c.status = "PKI_SUCCESS" THEN {c.session} ELSE {}

\* The session a function closes when it returns, if it has one.
Closing(c) == {c.session} \ {None}

C_CloseSession ==
    /\ Does("close")
    /\ IF call.session = Uninitialized THEN CloseAnything
       ELSE sessions' = sessions \ Closing(call) /\ UNCHANGED undefined
    /\ GoOn([call EXCEPT !.session = None,
                         !.status = IF Now.object = "status" /\ call.session # None
                                    THEN "PKI_SUCCESS" ELSE @])
    /\ UNCHANGED <<token, pk, tls, made, leaked>>

\* The commands call it also when there is no context, and the session a
\* failed xPkcs11InitMbedtlsPkContext opened is not known to them.
lPKCS11PkMbedtlsCloseSessionAndFree ==
    /\ Does("free")
    /\ IF pk = NoContext THEN CloseAnything
       ELSE sessions' = sessions \ {pk.session} /\ UNCHANGED undefined
    /\ leaked' = leaked \cup ({call.session} \ {None})
    /\ pk' = NoContext
    /\ Finish(call)
    /\ UNCHANGED <<token, tls, made>>

\* The token keeps its objects, memory is lost.
Reset ==
    /\ sessions' = {} /\ call' = Idle /\ pk' = NoContext /\ tls' = None
    /\ reply' = NoReply /\ leaked' = {} /\ undefined' = FALSE
    /\ UNCHANGED <<token, made>>

(***************************************************************************)
(* The specification.  The factory may have put a private key in.          *)
(***************************************************************************)
Init ==
    /\ \E prv \in {None} \cup {Key(0, alg) : alg \in Algs} :
         token = [o \in Objects |-> IF o = "prv" THEN prv ELSE None]
    /\ sessions = {} /\ call = Idle /\ pk = NoContext /\ tls = None
    /\ reply = NoReply /\ made = 0 /\ leaked = {} /\ undefined = FALSE

Next ==
    \/ pki \/ xInitializePkcs11Session \/ xFindObjectWithLabelAndClass \/ C_DestroyObject
    \/ WritePoint \/ C_CreateObject \/ GenerateKeyPair \/ GeneratePublicKey
    \/ xPrvExportPubKeyDer \/ prvReadCertificateIntoContext \/ KeyType
    \/ p11_ecdsa_ctx_init \/ p11_rsa_ctx_init \/ p11_ecdsa_sign \/ p11_rsa_sign
    \/ prvEntropyCallback \/ HandshakeStarted \/ prvPrivateKeySigningCallback
    \/ prvFreeContext \/ TLS_Cleanup \/ C_CloseSession
    \/ lPKCS11PkMbedtlsCloseSessionAndFree \/ Reset

Spec == Init /\ [][Next]_vars

(***************************************************************************)
(* Properties.                                                             *)
(***************************************************************************)
Owned == [function |-> {call.session}, context |-> {pk.session}, connection |-> {tls},
          nobody |-> leaked]

\* Every open session has exactly one owner that will close it: the function
\* running, the key context, the TLS context; or it is one of those that the
\* failing of a key context or of the seeding is known to leave open.  No owner
\* holds a session that is closed.  A handle that was never set voids this.
SessionsAccounted ==
    ~undefined => \A s \in Sessions :
        /\ s \in sessions <=> \E o \in DOMAIN Owned : s \in Owned[o]
        /\ \A o, p \in DOMAIN Owned : s \in Owned[o] /\ s \in Owned[p] => o = p

\* Where both keys of the pair are there, they belong together, whatever failed
\* or was cut short by a reset.
KeysMatch == None \notin {token["prv"], token["pub"]} => token["prv"] = token["pub"]

\* What a command reports is what the token holds.  The commands that read
\* report success also when nothing could be read.  The certificate that
\* generate cert prints is one of the private key of the token, stored or not:
\* see PrintedIsStored.
RepliesMatch ==
    reply.status = "PKI_SUCCESS" =>
        CASE reply.command = "generate_key" -> reply.out = token["pub"] /\ reply.out = token["prv"]
          [] reply.command = "import_cert"  -> reply.out = token["cert"]
          [] reply.command = "import_key"   -> reply.out = token["code"] /\ reply.out.alg = "EC"
          [] reply.command = "export_cert"  -> reply.out \in {None, token["cert"]}
          [] reply.command = "export_key"   -> reply.out \in {None, token["pub"]}
          [] reply.command \in {"generate_csr", "generate_cert"} ->
                reply.out = Cert(token["prv"].n)
          [] OTHER -> /\ reply.command = "connect" /\ tls # None
                      /\ reply.out \in {None, token["cert"]}
                      /\ reply.der # None => reply.out # None

\* The certificate that generate cert prints is the one the token stores.  It is
\* not: the status of xPkiWriteCertificate is dropped, so a write that fails, or
\* that stops after the old certificate was destroyed, looks like a success.
PrintedIsStored ==
    reply.command = "generate_cert" /\ reply.status = "PKI_SUCCESS" => reply.out = token["cert"]

\* A DER sequence of exactly two non-negative integers.
IsDer(der) ==
    LET r == der[4]  s == der[6 + r]
    IN  /\ der[1] = 48 /\ der[3] = 2 /\ der[5 + r] = 2
        /\ Len(der) = 6 + r + s /\ der[2] = Len(der) - 2
        /\ der[5] < 128 /\ der[7 + r] < 128

\* A signature handed to mbedTLS is well formed and holds the numbers the token
\* made, and the way back gives them again.
SignaturesDecode ==
    reply.der # None =>
        IsDer(reply.der) /\ PKI_mbedTLSSignatureToPkcs11Signature(reply.der) = reply.raw

\* What the commands hand out agrees with the token.
CredentialsAreSound == KeysMatch /\ RepliesMatch /\ SignaturesDecode
=============================================================================
