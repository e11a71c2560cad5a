------------------------------ MODULE PkiProof ------------------------------
(***************************************************************************)
(* Proofs about the PKI commands, over either of the stores they are built *)
(* for.                                                                    *)
(*                                                                         *)
(* Over PKCS #11 (PkiPkcs11): every session is accounted for, and what the *)
(* commands hand out agrees with the token, for any number of sessions and *)
(* key pairs, numbers of any width a DER length of one byte allows, and    *)
(* failures and resets anywhere.                                           *)
(*                                                                         *)
(* Over the PSA services (Provisioning, here the instance Device): the two *)
(* keys of the device belong together, for any number of faults: failing   *)
(* calls of the secure side, power failures between any two of them,       *)
(* damaged and lost lines, and scripts that are killed and started again.  *)
(* And every request and certificate the device prints carries the         *)
(* signature that was made: psa_ecdsa_sign, which turns it in place into   *)
(* two DER integers, loses no digit of it (SignatureIsKept).               *)
(***************************************************************************)
EXTENDS PkiPkcs11, PsaKeys, PkiDocuments, SequenceTheorems, WellFoundedInduction,
        NaturalsInduction, TLAPS

\* The constants of the device that is provisioned, and its variables other than
\* the store of its keys (PsaKeys) and what it printed (PkiDocuments).
CONSTANTS Issuers, NamesGiven, FactoryNames, DeviceSignatures, SignatureBuffer, MaxFaults
VARIABLES ps, conf, dev, rx, host, aws, pairs, faults

Device == INSTANCE Provisioning WITH RawSignatures <- DeviceSignatures, made <- pairs

(***************************************************************************)
(* The steps of the commands, and where each of them goes when it fails.   *)
(***************************************************************************)

\* n is the first later step of that name.
IsFirst(name, n) ==
    LET steps == Program[call.command]
    IN  /\ n \in (call.at + 1) .. Len(steps)
        /\ steps[n].do = name
        /\ \A j \in (call.at + 1) .. (n - 1) : steps[j].do # name

LEMMA AfterIs ==
  ASSUME NEW name, NEW n \in Int, call.at \in Int, IsFirst(name, n)
  PROVE  After(name) = n
<1> DEFINE Later == (call.at + 1) .. Len(Program[call.command])
<1>1. n \in Later
  BY DEF IsFirst
<1>2. ASSUME NEW i \in Later, IsFirst(name, i)
      PROVE  i = n
  <2>1. ~(i < n) /\ ~(n < i)
    BY <1>2 DEF IsFirst
  <2>2. QED
    BY <2>1
<1>3. After(name) = CHOOSE i \in Later : IsFirst(name, i)
  <2>1. \A i \in Later : IsFirst(name, i)
            <=> /\ Program[call.command][i].do = name
                /\ \A j \in (call.at + 1) .. (i - 1) : Program[call.command][j].do # name
    BY DEF IsFirst
  <2>2. QED
    BY <2>1 DEF After
<1> HIDE DEF Later
<1>4. QED
  BY <1>1, <1>2, <1>3

LEMMA GenerateKeySteps ==
  ASSUME call.command = "generate_key", call.at \in 1 .. 9
  PROVE  /\ Len(Program[call.command]) = 9
         /\ call.at = 1 => Now = Step("session", None, "ck", "close")
         /\ call.at = 2 => Now = Step("find", "prv", "ck", "close")
         /\ call.at = 3 => Now = Step("destroy", "prv", "ck", "close")
         /\ call.at = 4 => Now = Step("find", "pub", "ck", "close")
         /\ call.at = 5 => Now = Step("destroy", "pub", "ck", "close")
         /\ call.at = 6 => Now = Step("generate", "prv", "ck", "close")
         /\ call.at = 7 => Now = Step("generate_public", "pub", "ck", "close")
         /\ call.at = 8 => Now = Step("export", "pub", "ck", "close")
         /\ call.at = 9 => Now = Step("close", None, None, None)
         /\ call.at \in 1 .. 8 => After("close") = 9
<1> DEFINE p == Program[call.command]
<1>1. Len(p) = 9
  BY DEF Program, xPkcs11GenerateKeyPairEC, Session, xPrvDestoryObject,
         DestroyStep, C_GenerateKeyPair, Close
<1>2. /\ p[1] = Step("session", None, "ck", "close")
      /\ p[2] = Step("find", "prv", "ck", "close")
      /\ p[3] = Step("destroy", "prv", "ck", "close")
      /\ p[4] = Step("find", "pub", "ck", "close")
      /\ p[5] = Step("destroy", "pub", "ck", "close")
      /\ p[6] = Step("generate", "prv", "ck", "close")
      /\ p[7] = Step("generate_public", "pub", "ck", "close")
      /\ p[8] = Step("export", "pub", "ck", "close")
      /\ p[9] = Step("close", None, None, None)
  BY DEF Program, xPkcs11GenerateKeyPairEC, Session, xPrvDestoryObject,
         DestroyStep, C_GenerateKeyPair, Close
<1>3. ASSUME call.at \in 1 .. 8 PROVE After("close") = 9
  <2>1. IsFirst("close", 9)
    BY <1>1, <1>2, <1>3 DEF IsFirst, Step
  <2>2. QED
    BY <1>3, <2>1, AfterIs
<1>4. QED
  BY <1>1, <1>2, <1>3 DEF Now

LEMMA GenerateCsrSteps ==
  ASSUME call.command = "generate_csr", call.at \in 1 .. 6
  PROVE  /\ Len(Program[call.command]) = 6
         /\ call.at = 1 => Now = Step("session", None, "ck", "free")
         /\ call.at = 2 => Now = Step("find", "prv", "ck", "free")
         /\ call.at = 3 => Now = Step("key_type", "prv", "ck", "free")
         /\ call.at = 4 => Now = Step("context", "prv", "ck", "free")
         /\ call.at = 5 => Now = Step("sign", "prv", "write", "free")
         /\ call.at = 6 => Now = Step("free", None, None, None)
         /\ call.at \in 1 .. 5 => After("free") = 6
<1> DEFINE p == Program[call.command]
<1>1. Len(p) = 6
  BY DEF Program, xPkcs11InitMbedtlsPkContext, xPKCS11_initMbedtlsPkContext,
         Session, Sign, Free
<1>2. /\ p[1] = Step("session", None, "ck", "free")
      /\ p[2] = Step("find", "prv", "ck", "free")
      /\ p[3] = Step("key_type", "prv", "ck", "free")
      /\ p[4] = Step("context", "prv", "ck", "free")
      /\ p[5] = Step("sign", "prv", "write", "free")
      /\ p[6] = Step("free", None, None, None)
  BY DEF Program, xPkcs11InitMbedtlsPkContext, xPKCS11_initMbedtlsPkContext,
         Session, Sign, Free
<1>3. ASSUME call.at \in 1 .. 5 PROVE After("free") = 6
  <2>1. IsFirst("free", 6)
    BY <1>1, <1>2, <1>3 DEF IsFirst, Step
  <2>2. QED
    BY <1>3, <2>1, AfterIs
<1>4. QED
  BY <1>1, <1>2, <1>3 DEF Now

LEMMA StepIgnored ==
  ASSUME NEW do, NEW object, NEW by, NEW then
  PROVE  [Step(do, object, by, then) EXCEPT !.by = "ignored"]
            = Step(do, object, "ignored", then)
<1>1. PICK s : s = Step(do, object, by, then)
  OBVIOUS
<1>2. DOMAIN s = {"do", "object", "by", "then"} /\ s.do = do /\ s.object = object /\ s.then = then
  BY <1>1 DEF Step
<1>3. [s EXCEPT !.by = "ignored"] = [do |-> do, object |-> object, by |-> "ignored", then |-> then]
  BY <1>1, <1>2
<1>4. QED
  BY <1>1, <1>3 DEF Step

\* The steps of the writing whose errors are ignored.
LEMMA IgnoredWrite ==
  LET w == Ignored(xPkcs11WriteCertificate)
  IN  /\ Len(w) = 7 /\ w = [i \in 1 .. 7 |-> w[i]]
      /\ w[1] = Step("session", None, "ignored", "close")
      /\ w[2] = Step("find", "cert", "ignored", "close")
      /\ w[3] = Step("destroy", "cert", "ignored", "close")
      /\ w[4] = Step("find", "cert", "ignored", "close")
      /\ w[5] = Step("destroy", "cert", "ignored", "close")
      /\ w[6] = Step("create", "cert", "ignored", "close")
      /\ w[7] = Step("close", None, "ignored", None)
<1> DEFINE w == xPkcs11WriteCertificate
<1>1. /\ w[1] = Step("session", None, "ck", "close")
      /\ w[2] = Step("find", "cert", "ck", "close")
      /\ w[3] = Step("destroy", "cert", "ck", "close")
      /\ w[4] = Step("find", "cert", "write", "close")
      /\ w[5] = Step("destroy", "cert", "write", "close")
      /\ w[6] = Step("create", "cert", "write", "close")
      /\ w[7] = Step("close", None, None, None)
  BY DEF xPkcs11WriteCertificate, Session, xPrvDestoryObject, DestroyStep,
         lWriteCertificateToPKCS11, Close
<1>2. DOMAIN w = 1 .. 7
  BY DEF xPkcs11WriteCertificate, Session, xPrvDestoryObject, DestroyStep,
         lWriteCertificateToPKCS11, Close
<1> HIDE DEF w
<1>3. Ignored(w) = [i \in 1 .. 7 |-> [w[i] EXCEPT !.by = "ignored"]]
  BY <1>2 DEF Ignored
<1>4. Len(Ignored(w)) = 7
  BY <1>3
<1>5. QED
  BY <1>1, <1>3, <1>4, StepIgnored DEF w

\* generate_cert, whose last steps are the writing of the certificate.
LEMMA GenerateCertSteps ==
  ASSUME call.command = "generate_cert", call.at \in 1 .. 13
  PROVE  /\ Len(Program[call.command]) = 13
         /\ call.at = 1 => Now = Step("session", None, "ck", "free")
         /\ call.at = 2 => Now = Step("find", "prv", "ck", "free")
         /\ call.at = 3 => Now = Step("key_type", "prv", "ck", "free")
         /\ call.at = 4 => Now = Step("context", "prv", "ck", "free")
         /\ call.at = 5 => Now = Step("sign", "prv", "write", "free")
         /\ call.at = 6 => Now = Step("session", None, "ignored", "close")
         /\ call.at = 7 => Now = Step("find", "cert", "ignored", "close")
         /\ call.at = 8 => Now = Step("destroy", "cert", "ignored", "close")
         /\ call.at = 9 => Now = Step("find", "cert", "ignored", "close")
         /\ call.at = 10 => Now = Step("destroy", "cert", "ignored", "close")
         /\ call.at = 11 => Now = Step("create", "cert", "ignored", "close")
         /\ call.at = 12 => Now = Step("close", None, "ignored", None)
         /\ call.at = 13 => Now = Step("free", None, None, None)
         /\ call.at \in 1 .. 5 => After("free") = 13
         /\ call.at \in 6 .. 11 => After("close") = 12
<1> DEFINE p == Program[call.command]
<1> DEFINE w == Ignored(xPkcs11WriteCertificate)
<1>0. Program["generate_cert"]
        = <<Step("session", None, "ck", "free"), Step("find", "prv", "ck", "free"),
            Step("key_type", "prv", "ck", "free"), Step("context", "prv", "ck", "free"),
            Step("sign", "prv", "write", "free")>> \o w \o <<Step("free", None, None, None)>>
  BY DEF Program, xPkcs11InitMbedtlsPkContext, xPKCS11_initMbedtlsPkContext, Session, Sign, Free
<1>1. Len(p) = 13
  BY <1>0, IgnoredWrite
<1>2. /\ p[1] = Step("session", None, "ck", "free")
      /\ p[2] = Step("find", "prv", "ck", "free")
      /\ p[3] = Step("key_type", "prv", "ck", "free")
      /\ p[4] = Step("context", "prv", "ck", "free")
      /\ p[5] = Step("sign", "prv", "write", "free")
      /\ p[6] = Step("session", None, "ignored", "close")
      /\ p[7] = Step("find", "cert", "ignored", "close")
      /\ p[8] = Step("destroy", "cert", "ignored", "close")
      /\ p[9] = Step("find", "cert", "ignored", "close")
      /\ p[10] = Step("destroy", "cert", "ignored", "close")
      /\ p[11] = Step("create", "cert", "ignored", "close")
      /\ p[12] = Step("close", None, "ignored", None)
      /\ p[13] = Step("free", None, None, None)
  BY <1>0, IgnoredWrite
<1>3. ASSUME call.at \in 1 .. 5 PROVE After("free") = 13
  <2>1. IsFirst("free", 13)
    BY <1>1, <1>2, <1>3 DEF IsFirst, Step
  <2>2. QED
    BY <1>3, <2>1, AfterIs
<1>4. ASSUME call.at \in 6 .. 11 PROVE After("close") = 12
  <2>1. IsFirst("close", 12)
    BY <1>1, <1>2, <1>4 DEF IsFirst, Step
  <2>2. QED
    BY <1>4, <2>1, AfterIs
<1>5. QED
  BY <1>1, <1>2, <1>3, <1>4 DEF Now

LEMMA ImportCertSteps ==
  ASSUME call.command = "import_cert", call.at \in 1 .. 7
  PROVE  /\ Len(Program[call.command]) = 7
         /\ call.at = 1 => Now = Step("session", None, "ck", "close")
         /\ call.at = 2 => Now = Step("find", "cert", "ck", "close")
         /\ call.at = 3 => Now = Step("destroy", "cert", "ck", "close")
         /\ call.at = 4 => Now = Step("find", "cert", "write", "close")
         /\ call.at = 5 => Now = Step("destroy", "cert", "write", "close")
         /\ call.at = 6 => Now = Step("create", "cert", "write", "close")
         /\ call.at = 7 => Now = Step("close", None, None, None)
         /\ call.at \in 1 .. 6 => After("close") = 7
<1> DEFINE p == Program[call.command]
<1>1. Len(p) = 7
  BY DEF Program, xPkcs11WriteCertificate, Session, xPrvDestoryObject,
         DestroyStep, lWriteCertificateToPKCS11, Close
<1>2. /\ p[1] = Step("session", None, "ck", "close")
      /\ p[2] = Step("find", "cert", "ck", "close")
      /\ p[3] = Step("destroy", "cert", "ck", "close")
      /\ p[4] = Step("find", "cert", "write", "close")
      /\ p[5] = Step("destroy", "cert", "write", "close")
      /\ p[6] = Step("create", "cert", "write", "close")
      /\ p[7] = Step("close", None, None, None)
  BY DEF Program, xPkcs11WriteCertificate, Session, xPrvDestoryObject,
         DestroyStep, lWriteCertificateToPKCS11, Close
<1>3. ASSUME call.at \in 1 .. 6 PROVE After("close") = 7
  <2>1. IsFirst("close", 7)
    BY <1>1, <1>2, <1>3 DEF IsFirst, Step
  <2>2. QED
    BY <1>3, <2>1, AfterIs
<1>4. QED
  BY <1>1, <1>2, <1>3 DEF Now

LEMMA ImportKeySteps ==
  ASSUME call.command = "import_key", call.at \in 1 .. 8
  PROVE  /\ Len(Program[call.command]) = 8
         /\ call.at = 1 => Now = Step("session", None, "ck", "close")
         /\ call.at = 2 => Now = Step("find", "code", "ck", "close")
         /\ call.at = 3 => Now = Step("destroy", "code", "ck", "close")
         /\ call.at = 4 => Now = Step("find", "code", "write", "close")
         /\ call.at = 5 => Now = Step("destroy", "code", "write", "close")
         /\ call.at = 6 => Now = Step("point", "code", "write", "close")
         /\ call.at = 7 => Now = Step("create", "code", "write", "close")
         /\ call.at = 8 => Now = Step("close", None, None, None)
         /\ call.at \in 1 .. 7 => After("close") = 8
<1> DEFINE p == Program[call.command]
<1>1. Len(p) = 8
  BY DEF Program, xPkcs11WritePubKey, Session, xPrvDestoryObject, DestroyStep,
         lWriteEcPublicKeyToPKCS11, Close
<1>2. /\ p[1] = Step("session", None, "ck", "close")
      /\ p[2] = Step("find", "code", "ck", "close")
      /\ p[3] = Step("destroy", "code", "ck", "close")
      /\ p[4] = Step("find", "code", "write", "close")
      /\ p[5] = Step("destroy", "code", "write", "close")
      /\ p[6] = Step("point", "code", "write", "close")
      /\ p[7] = Step("create", "code", "write", "close")
      /\ p[8] = Step("close", None, None, None)
  BY DEF Program, xPkcs11WritePubKey, Session, xPrvDestoryObject, DestroyStep,
         lWriteEcPublicKeyToPKCS11, Close
<1>3. ASSUME call.at \in 1 .. 7 PROVE After("close") = 8
  <2>1. IsFirst("close", 8)
    BY <1>1, <1>2, <1>3 DEF IsFirst, Step
  <2>2. QED
    BY <1>3, <2>1, AfterIs
<1>4. QED
  BY <1>1, <1>2, <1>3 DEF Now

LEMMA ExportCertSteps ==
  ASSUME call.command = "export_cert", call.at \in 1 .. 4
  PROVE  /\ Len(Program[call.command]) = 4
         /\ call.at = 1 => Now = Step("session", None, "ck", "close_uninitialized")
         /\ call.at = 2 => Now = Step("find", "cert", "read", "close")
         /\ call.at = 3 => Now = Step("value", "cert", "read", "close")
         /\ call.at = 4 => Now = Step("close", None, None, None)
         /\ call.at \in 1 .. 3 => After("close") = 4
<1> DEFINE p == Program[call.command]
<1>1. Len(p) = 4
  BY DEF Program, xPkcs11ReadCertificate, lReadCertificateFromPKCS11, Close
<1>2. /\ p[1] = Step("session", None, "ck", "close_uninitialized")
      /\ p[2] = Step("find", "cert", "read", "close")
      /\ p[3] = Step("value", "cert", "read", "close")
      /\ p[4] = Step("close", None, None, None)
  BY DEF Program, xPkcs11ReadCertificate, lReadCertificateFromPKCS11, Close
<1>3. ASSUME call.at \in 1 .. 3 PROVE After("close") = 4
  <2>1. IsFirst("close", 4)
    BY <1>1, <1>2, <1>3 DEF IsFirst, Step
  <2>2. QED
    BY <1>3, <2>1, AfterIs
<1>4. QED
  BY <1>1, <1>2, <1>3 DEF Now

LEMMA ExportKeySteps ==
  ASSUME call.command = "export_key", call.at \in 1 .. 4
  PROVE  /\ Len(Program[call.command]) = 4
         /\ call.at = 1 => Now = Step("session", None, "ck", "close")
         /\ call.at = 2 => Now = Step("find", "pub", "ck", "close")
         /\ call.at = 3 => Now = Step("export", "pub", "ck", "close")
         /\ call.at = 4 => Now = Step("close", "status", None, None)
         /\ call.at \in 1 .. 3 => After("close") = 4
<1> DEFINE p == Program[call.command]
<1>1. Len(p) = 4
  BY DEF Program, xPkcs11ReadPublicKey, Session
<1>2. /\ p[1] = Step("session", None, "ck", "close")
      /\ p[2] = Step("find", "pub", "ck", "close")
      /\ p[3] = Step("export", "pub", "ck", "close")
      /\ p[4] = Step("close", "status", None, None)
  BY DEF Program, xPkcs11ReadPublicKey, Session
<1>3. ASSUME call.at \in 1 .. 3 PROVE After("close") = 4
  <2>1. IsFirst("close", 4)
    BY <1>1, <1>2, <1>3 DEF IsFirst, Step
  <2>2. QED
    BY <1>3, <2>1, AfterIs
<1>4. QED
  BY <1>1, <1>2, <1>3 DEF Now

LEMMA ConnectSteps ==
  ASSUME call.command = "connect", call.at \in 1 .. 10
  PROVE  /\ Len(Program[call.command]) = 10
         /\ call.at = 1 => Now = Step("session", None, "write", "established")
         /\ call.at = 2 => Now = Step("entropy", None, "write", "established")
         /\ call.at = 3 => Now = Step("start", None, "credential", "handshake")
         /\ call.at = 4 => Now = Step("find", "prv", "credential", "handshake")
         /\ call.at = 5 => Now = Step("key_type", "prv", "credential", "handshake")
         /\ call.at = 6 => Now = Step("find", "cert", "credential", "handshake")
         /\ call.at = 7 => Now = Step("value", "cert", "credential", "handshake")
         /\ call.at = 8 => Now = Step("find", "jitp", "credential", "handshake")
         /\ call.at = 9 => Now = Step("handshake", None, "write", "established")
         /\ call.at = 10 => Now = Step("established", None, None, None)
         /\ call.at \in 3 .. 8 => After("handshake") = 9
         /\ call.at \in 1 .. 2 => After("established") = 10
         /\ call.at = 9 => After("established") = 10
<1> DEFINE p == Program[call.command]
<1>1. Len(p) = 10
  BY DEF Program, TLS_Connect, prvInitializeClientCredential
<1>2. /\ p[1] = Step("session", None, "write", "established")
      /\ p[2] = Step("entropy", None, "write", "established")
      /\ p[3] = Step("start", None, "credential", "handshake")
      /\ p[4] = Step("find", "prv", "credential", "handshake")
      /\ p[5] = Step("key_type", "prv", "credential", "handshake")
      /\ p[6] = Step("find", "cert", "credential", "handshake")
      /\ p[7] = Step("value", "cert", "credential", "handshake")
      /\ p[8] = Step("find", "jitp", "credential", "handshake")
      /\ p[9] = Step("handshake", None, "write", "established")
      /\ p[10] = Step("established", None, None, None)
  BY DEF Program, TLS_Connect, prvInitializeClientCredential
<1>3. ASSUME call.at \in 3 .. 8 PROVE After("handshake") = 9
  <2>1. IsFirst("handshake", 9)
    BY <1>1, <1>2, <1>3 DEF IsFirst, Step
  <2>2. QED
    BY <1>3, <2>1, AfterIs
<1>4. ASSUME call.at \in 1 .. 2 PROVE After("established") = 10
  <2>1. IsFirst("established", 10)
    BY <1>1, <1>2, <1>4 DEF IsFirst, Step
  <2>2. QED
    BY <1>4, <2>1, AfterIs
<1>5. ASSUME call.at = 9 PROVE After("established") = 10
  <2>1. IsFirst("established", 10)
    BY <1>1, <1>2, <1>5 DEF IsFirst, Step
  <2>2. QED
    BY <1>5, <2>1, AfterIs
<1>6. QED
  BY <1>1, <1>2, <1>3, <1>4, <1>5 DEF Now

(***************************************************************************)
(* What a step does to the fields of the command.  A step goes on to the   *)
(* next one or fails; a failure drops the result and, where the function   *)
(* reports its errors, replaces the status, unless nobody looks at it.     *)
(***************************************************************************)
Fields == {"command", "at", "session", "handle", "status", "out", "raw", "der"}

SameSession == call'.session = call.session
SameHandle == call'.handle = call.handle
SameOut == call'.out = call.out
SameSignature == call'.raw = call.raw /\ call'.der = call.der
SameLocals == SameSession /\ SameHandle /\ SameOut /\ SameSignature

Stepped ==
    /\ DOMAIN call' = Fields
    /\ call'.command = call.command /\ call'.at = call.at + 1 /\ call'.status = call.status

Failed(name) ==
    /\ DOMAIN call' = Fields
    /\ call'.command = call.command /\ call'.at = After(name)
    /\ Now.by # "ignored" => call'.out = None
    /\ Now.by = "ignored" => call'.out = call.out /\ call'.status = call.status
    /\ Now.by \in {"ck", "write"} => call'.status # "PKI_SUCCESS"
    /\ SameSignature

FailedHere == Failed(Now.then) /\ SameSession

LEMMA SteppedBy ==
  ASSUME NEW c, DOMAIN c = Fields, Proceed(c)
  PROVE  /\ DOMAIN call' = Fields
         /\ call'.command = c.command /\ call'.at = c.at + 1 /\ call'.session = c.session
         /\ call'.handle = c.handle /\ call'.status = c.status /\ call'.out = c.out
         /\ call'.raw = c.raw /\ call'.der = c.der
BY DEF Proceed, Fields

LEMMA PlainStep ==
  ASSUME DOMAIN call = Fields, Proceed(call)
  PROVE  Stepped /\ SameLocals
BY SteppedBy DEF Stepped, SameLocals, SameSession, SameHandle, SameOut, SameSignature

LEMMA FailedBy ==
  ASSUME DOMAIN call = Fields, NEW rv, rv # "CKR_OK", NEW name, NEW c, c = FailedAt(name, rv)
  PROVE  /\ DOMAIN c = Fields
         /\ c.command = call.command /\ c.at = After(name) /\ c.session = call.session
         /\ c.raw = call.raw /\ c.der = call.der
         /\ Now.by # "ignored" => c.out = None
         /\ Now.by = "ignored" => c.out = call.out /\ c.status = call.status
         /\ Now.by \in {"ck", "write"} => c.status # "PKI_SUCCESS"
<1>1. /\ Now.by = "ignored" => c = [call EXCEPT !.at = After(name)]
      /\ Now.by # "ignored" =>
            c = [call EXCEPT !.status = Seen(Now.by, rv), !.at = After(name), !.out = None]
  BY DEF FailedAt
<1>2. Now.by \in {"ck", "write"} => Seen(Now.by, rv) # "PKI_SUCCESS"
  <2>1. xPrvCkRvToPkiStatus(rv) # "PKI_SUCCESS"
    BY DEF xPrvCkRvToPkiStatus
  <2>2. xPrvMbedtlsErrToPkiStatus(WriteError(rv)) # "PKI_SUCCESS"
    BY DEF xPrvMbedtlsErrToPkiStatus, WriteError, AllocFailed
  <2>3. QED
    BY <2>1, <2>2 DEF Seen
<1>3. QED
  BY <1>1, <1>2 DEF Fields

LEMMA FailureFails ==
  ASSUME DOMAIN call = Fields, NEW rv, rv # "CKR_OK", Fail(rv)
  PROVE  FailedHere
<1>1. call' = FailedAt(Now.then, rv)
  BY DEF Fail
<1>2. QED
  BY <1>1, FailedBy DEF FailedHere, Failed, SameSession, SameSignature

LEMMA AnyhowFails ==
  ASSUME DOMAIN call = Fields, FailsAnyhow
  PROVE  FailedHere
BY FailureFails DEF FailsAnyhow, TokenErrors

SessionEffect ==
    /\ token' = token /\ pk' = pk /\ tls' = tls
    /\ \/ Stepped /\ call'.session \in Sessions /\ SameOut /\ SameSignature
       \/ Now.then # "close_uninitialized" /\ FailedHere
       \/ Now.then = "close_uninitialized" /\ Failed("close") /\ call'.session = Uninitialized

FindEffect ==
    /\ token' = token /\ pk' = pk /\ tls' = tls
    /\ \/ /\ Stepped /\ SameSession /\ SameOut /\ SameSignature
          /\ call'.handle = IF token[Now.object] # None THEN Now.object ELSE None
       \/ FailedHere

DestroyEffect ==
    /\ pk' = pk /\ tls' = tls
    /\ \/ call.handle = None /\ Stepped /\ SameLocals /\ token' = token
       \/ /\ call.handle # None /\ Stepped /\ SameLocals
          /\ token' = [token EXCEPT ![call.handle] = None]
       \/ FailedHere /\ token' = token

PointEffect ==
    /\ token' = token /\ pk' = pk /\ tls' = tls
    /\ \/ Stepped /\ SameLocals /\ call.out.alg = "EC"
       \/ FailedHere

CreateEffect ==
    /\ pk' = pk /\ tls' = tls
    /\ \/ Stepped /\ SameLocals /\ token' = [token EXCEPT ![Now.object] = call.out]
       \/ FailedHere /\ token' = token

GenerateEffect ==
    /\ pk' = pk /\ tls' = tls
    /\ \/ Stepped /\ SameLocals /\ token' = [token EXCEPT !["prv"] = Key(made + 1, "EC")]
       \/ FailedHere /\ token' = token

GeneratePublicEffect ==
    /\ pk' = pk /\ tls' = tls
    /\ \/ /\ Stepped /\ SameSession /\ SameOut /\ SameSignature /\ call'.handle = "pub"
          /\ token' = [token EXCEPT !["pub"] = token["prv"]]
       \/ FailedHere /\ token' = token

\* The public key or the certificate is read.
ReadEffect ==
    /\ token' = token /\ pk' = pk /\ tls' = tls
    /\ \/ /\ call.handle # None /\ Stepped /\ SameSession /\ SameSignature
          /\ call'.out = token[call.handle]
       \/ FailedHere

KeyTypeEffect ==
    /\ token' = token /\ pk' = pk /\ tls' = tls
    /\ \/ call.handle # None /\ Stepped /\ SameLocals
       \/ FailedHere

EntropyEffect ==
    /\ token' = token /\ pk' = pk /\ tls' = tls
    /\ (Stepped /\ SameLocals) \/ FailedHere

ContextEffect ==
    /\ token' = token /\ tls' = tls
    /\ \/ /\ Stepped /\ call'.session = None /\ SameOut /\ SameSignature
          /\ pk'.n = token["prv"].n
       \/ FailedHere /\ pk' = pk

SignEffect ==
    /\ token' = token /\ pk' = pk /\ tls' = tls
    /\ \/ /\ Stepped /\ SameSession /\ call'.out = Cert(pk.n)
          /\ \E raw \in RawSignatures :
                call'.raw = raw /\ call'.der = prvEcdsaSigToASN1InPlace(raw) /\ call'.der # None
       \/ FailedHere

StartEffect ==
    /\ token' = token /\ pk' = pk /\ tls' = call.session
    /\ Stepped /\ call'.session = None /\ SameOut /\ SameSignature

HandshakeEffect ==
    /\ token' = token /\ pk' = pk /\ tls' = tls
    /\ \/ /\ Stepped /\ SameSession /\ SameOut /\ call.out # None
          /\ \E raw \in RawSignatures :
                call'.raw = raw /\ call'.der = PKI_pkcs11SignatureTombedTLSSignature(raw)
       \/ Stepped /\ SameLocals
       \/ FailedHere

\* The steps that set one local variable.
LEMMA SessionStep ==
  ASSUME DOMAIN call = Fields, NEW s, Proceed([call EXCEPT !.session = s])
  PROVE  Stepped /\ call'.session = s /\ SameOut /\ SameSignature
<1>1. PICK c : c = [call EXCEPT !.session = s]
  OBVIOUS
<1>2. /\ DOMAIN c = Fields /\ c.command = call.command /\ c.at = call.at /\ c.session = s
      /\ c.status = call.status /\ c.out = call.out /\ c.raw = call.raw /\ c.der = call.der
  BY <1>1 DEF Fields
<1>3. QED
  BY <1>1, <1>2, SteppedBy, ZenonT(40) DEF Stepped, SameOut, SameSignature

LEMMA HandleStep ==
  ASSUME DOMAIN call = Fields, NEW h, Proceed([call EXCEPT !.handle = h])
  PROVE  Stepped /\ call'.handle = h /\ SameSession /\ SameOut /\ SameSignature
<1>1. PICK c : c = [call EXCEPT !.handle = h]
  OBVIOUS
<1>2. /\ DOMAIN c = Fields /\ c.command = call.command /\ c.at = call.at /\ c.handle = h
      /\ c.session = call.session
      /\ c.status = call.status /\ c.out = call.out /\ c.raw = call.raw /\ c.der = call.der
  BY <1>1 DEF Fields
<1>3. QED
  BY <1>1, <1>2, SteppedBy, ZenonT(40) DEF Stepped, SameSession, SameOut, SameSignature

LEMMA OutStep ==
  ASSUME DOMAIN call = Fields, NEW o, Proceed([call EXCEPT !.out = o])
  PROVE  Stepped /\ call'.out = o /\ SameSession /\ SameSignature
<1>1. PICK c : c = [call EXCEPT !.out = o]
  OBVIOUS
<1>2. /\ DOMAIN c = Fields /\ c.command = call.command /\ c.at = call.at /\ c.out = o
      /\ c.session = call.session
      /\ c.status = call.status /\ c.raw = call.raw /\ c.der = call.der
  BY <1>1 DEF Fields
<1>3. QED
  BY <1>1, <1>2, SteppedBy, ZenonT(40) DEF Stepped, SameSession, SameSignature

LEMMA SessionDoes ==
  ASSUME DOMAIN call = Fields, xInitializePkcs11Session
  PROVE  Now.do = "session" /\ SessionEffect
<1>1. Now.do = "session" /\ token' = token /\ pk' = pk /\ tls' = tls
  BY DEF xInitializePkcs11Session, Does, Kept
<1>2. ASSUME NEW s \in Sessions, Proceed([call EXCEPT !.session = s])
      PROVE  Stepped /\ call'.session \in Sessions /\ SameOut /\ SameSignature
  BY <1>2, SessionStep
<1>3. ASSUME NEW rv \in (xGetSlotList \cup prvOpenSession) \ {"CKR_OK"}, Fail(rv)
      PROVE  FailedHere
  BY <1>3, FailureFails
<1>4. ASSUME NEW rv \in (xGetSlotList \cup prvOpenSession) \ {"CKR_OK"},
             call' = [FailedAt("close", rv) EXCEPT !.session = Uninitialized]
      PROVE  Failed("close") /\ call'.session = Uninitialized
  <2>1. PICK c : c = FailedAt("close", rv)
    OBVIOUS
  <2>2. /\ DOMAIN c = Fields
        /\ c.command = call.command /\ c.at = After("close")
        /\ c.raw = call.raw /\ c.der = call.der
        /\ Now.by # "ignored" => c.out = None
        /\ Now.by = "ignored" => c.out = call.out /\ c.status = call.status
        /\ Now.by \in {"ck", "write"} => c.status # "PKI_SUCCESS"
    BY <2>1, FailedBy
  <2>3. call' = [c EXCEPT !.session = Uninitialized]
    BY <1>4, <2>1
  <2>4. QED
    BY <2>2, <2>3 DEF Failed, Fields, SameSignature
<1>5. QED
  BY <1>1, <1>2, <1>3, <1>4 DEF xInitializePkcs11Session, SessionEffect

LEMMA FindDoes ==
  ASSUME DOMAIN call = Fields, xFindObjectWithLabelAndClass
  PROVE  Now.do = "find" /\ FindEffect
BY HandleStep, AnyhowFails
   DEF xFindObjectWithLabelAndClass, Does, Quiet, Kept, FindEffect

LEMMA DestroyDoes ==
  ASSUME DOMAIN call = Fields, C_DestroyObject
  PROVE  Now.do = "destroy" /\ DestroyEffect
BY PlainStep, AnyhowFails DEF C_DestroyObject, Does, Kept, DestroyEffect

LEMMA PointDoes ==
  ASSUME DOMAIN call = Fields, WritePoint
  PROVE  Now.do = "point" /\ PointEffect
BY PlainStep, AnyhowFails, FailureFails DEF WritePoint, Does, Quiet, Kept, PointEffect

LEMMA CreateDoes ==
  ASSUME DOMAIN call = Fields, C_CreateObject
  PROVE  Now.do = "create" /\ CreateEffect
BY PlainStep, AnyhowFails DEF C_CreateObject, Does, Kept, CreateEffect

LEMMA GenerateDoes ==
  ASSUME DOMAIN call = Fields, GenerateKeyPair
  PROVE  Now.do = "generate" /\ GenerateEffect
BY PlainStep, AnyhowFails DEF GenerateKeyPair, Does, GenerateEffect

LEMMA GeneratePublicDoes ==
  ASSUME DOMAIN call = Fields, GeneratePublicKey
  PROVE  Now.do = "generate_public" /\ GeneratePublicEffect
BY HandleStep, AnyhowFails DEF GeneratePublicKey, Does, Kept, GeneratePublicEffect

LEMMA ExportDoes ==
  ASSUME DOMAIN call = Fields, xPrvExportPubKeyDer
  PROVE  Now.do = "export" /\ ReadEffect
BY OutStep, AnyhowFails, FailureFails DEF xPrvExportPubKeyDer, Does, Quiet, Kept, ReadEffect

LEMMA ValueDoes ==
  ASSUME DOMAIN call = Fields, prvReadCertificateIntoContext
  PROVE  Now.do = "value" /\ ReadEffect
BY OutStep, AnyhowFails, FailureFails
   DEF prvReadCertificateIntoContext, Does, Quiet, Kept, ReadEffect

LEMMA KeyTypeDoes ==
  ASSUME DOMAIN call = Fields, KeyType
  PROVE  Now.do = "key_type" /\ KeyTypeEffect
BY PlainStep, AnyhowFails, FailureFails DEF KeyType, Does, Quiet, Kept, KeyTypeEffect

LEMMA EntropyDoes ==
  ASSUME DOMAIN call = Fields, prvEntropyCallback
  PROVE  Now.do = "entropy" /\ EntropyEffect
BY PlainStep, AnyhowFails DEF prvEntropyCallback, Does, Quiet, Kept, EntropyEffect

LEMMA ContextDoes ==
  ASSUME DOMAIN call = Fields, p11_ecdsa_ctx_init \/ p11_rsa_ctx_init
  PROVE  Now.do = "context" /\ ContextEffect
BY SessionStep, AnyhowFails, FailureFails
   DEF p11_ecdsa_ctx_init, p11_rsa_ctx_init, Does, ContextEffect

LEMMA SignDoes ==
  ASSUME DOMAIN call = Fields, p11_ecdsa_sign \/ p11_rsa_sign
  PROVE  Now.do = "sign" /\ SignEffect
<1>1. /\ Now.do = "sign" /\ token' = token /\ pk' = pk /\ tls' = tls
  BY DEF p11_ecdsa_sign, p11_rsa_sign, Does, Quiet, Kept
<1>2. ASSUME NEW raw, NEW der,
             Proceed([call EXCEPT !.raw = raw, !.der = der, !.out = Cert(pk.n)])
      PROVE  /\ Stepped /\ SameSession /\ call'.out = Cert(pk.n)
             /\ call'.raw = raw /\ call'.der = der
  <2>1. PICK c : c = [call EXCEPT !.raw = raw, !.der = der, !.out = Cert(pk.n)]
    OBVIOUS
  <2>2. /\ DOMAIN c = Fields /\ c.command = call.command /\ c.at = call.at
        /\ c.session = call.session /\ c.status = call.status
        /\ c.out = Cert(pk.n) /\ c.raw = raw /\ c.der = der
    BY <2>1 DEF Fields
  <2>3. QED
    BY <1>2, <2>1, <2>2, SteppedBy, ZenonT(40) DEF Stepped, SameSession
<1>3. QED
  BY <1>1, <1>2, AnyhowFails, FailureFails DEF p11_ecdsa_sign, p11_rsa_sign, SignEffect

LEMMA StartDoes ==
  ASSUME DOMAIN call = Fields, HandshakeStarted
  PROVE  Now.do = "start" /\ StartEffect
BY SessionStep DEF HandshakeStarted, Does, StartEffect

LEMMA HandshakeDoes ==
  ASSUME DOMAIN call = Fields, prvPrivateKeySigningCallback
  PROVE  Now.do = "handshake" /\ HandshakeEffect
<1>1. /\ Now.do = "handshake" /\ token' = token /\ pk' = pk /\ tls' = tls
  BY DEF prvPrivateKeySigningCallback, Does, Quiet, Kept
<1>2. ASSUME NEW raw, NEW der, Proceed([call EXCEPT !.raw = raw, !.der = der])
      PROVE  Stepped /\ SameSession /\ SameOut /\ call'.raw = raw /\ call'.der = der
  <2>1. PICK c : c = [call EXCEPT !.raw = raw, !.der = der]
    OBVIOUS
  <2>2. /\ DOMAIN c = Fields /\ c.command = call.command /\ c.at = call.at
        /\ c.session = call.session /\ c.status = call.status
        /\ c.out = call.out /\ c.raw = raw /\ c.der = der
    BY <2>1 DEF Fields
  <2>3. QED
    BY <1>2, <2>1, <2>2, SteppedBy, ZenonT(40) DEF Stepped, SameSession, SameOut
<1>3. QED
  BY <1>1, <1>2, PlainStep, AnyhowFails DEF prvPrivateKeySigningCallback, HandshakeEffect

\* The steps that end a function, and with it the command if nothing follows.
Ended ==
    /\ call' = Idle
    /\ reply'.command = call.command /\ reply'.out = call.out
    /\ reply'.raw = call.raw /\ reply'.der = call.der

CloseEffect ==
    /\ token' = token /\ pk' = pk /\ tls' = tls
    /\ call.at = Len(Program[call.command]) =>
          Ended /\ (Now.object # "status" => reply'.status = call.status)
    /\ call.at # Len(Program[call.command]) =>
          /\ DOMAIN call' = Fields /\ call'.command = call.command /\ SameSignature
          /\ Now.object # "status" => Stepped /\ call'.session = None /\ SameOut

FreeEffect ==
    /\ token' = token /\ tls' = tls /\ pk' = NoContext
    /\ Ended /\ reply'.status = call.status

EstablishedEffect ==
    /\ token' = token /\ pk' = pk
    /\ call.status = "PKI_SUCCESS" => tls' = tls
    /\ Ended /\ reply'.status = call.status

LEMMA FinishEnds ==
  ASSUME Finish(call)
  PROVE  Ended /\ reply'.status = call.status
BY DEF Finish, Ended

LEMMA CloseDoes ==
  ASSUME DOMAIN call = Fields, C_CloseSession
  PROVE  Now.do = "close" /\ CloseEffect
<1>1. PICK c : c = [call EXCEPT !.session = None,
                       !.status = IF Now.object = "status" /\ call.session # None
                                  THEN "PKI_SUCCESS" ELSE @]
  OBVIOUS
<1>2. /\ DOMAIN c = Fields /\ c.command = call.command /\ c.at = call.at /\ c.session = None
      /\ c.out = call.out /\ c.raw = call.raw /\ c.der = call.der
      /\ Now.object # "status" => c.status = call.status
  BY <1>1 DEF Fields
<1>3. Now.do = "close" /\ GoOn(c) /\ token' = token /\ pk' = pk /\ tls' = tls
  BY <1>1 DEF C_CloseSession, Does
<1>4. ASSUME Finish(c)
      PROVE  Ended /\ (Now.object # "status" => reply'.status = call.status)
  BY <1>2, <1>4 DEF Finish, Ended
<1>5. ASSUME Proceed(c)
      PROVE  /\ DOMAIN call' = Fields /\ call'.command = call.command /\ SameSignature
             /\ Now.object # "status" => Stepped /\ call'.session = None /\ SameOut
  BY <1>2, <1>5, SteppedBy DEF Stepped, SameOut, SameSignature
<1>6. QED
  BY <1>2, <1>3, <1>4, <1>5 DEF GoOn, CloseEffect

LEMMA FreeDoes ==
  ASSUME lPKCS11PkMbedtlsCloseSessionAndFree
  PROVE  Now.do = "free" /\ FreeEffect
BY FinishEnds DEF lPKCS11PkMbedtlsCloseSessionAndFree, Does, FreeEffect

LEMMA EstablishedDoes ==
  ASSUME prvFreeContext
  PROVE  Now.do = "established" /\ EstablishedEffect
BY FinishEnds DEF prvFreeContext, Does, EstablishedEffect

\* A running command does the step it has come to, or the device is reset.
LEMMA StepDoes ==
  ASSUME DOMAIN call = Fields, Running, Next
  PROVE  \/ Reset
         \/ Now.do = "session" /\ SessionEffect
         \/ Now.do = "find" /\ FindEffect
         \/ Now.do = "destroy" /\ DestroyEffect
         \/ Now.do = "point" /\ PointEffect
         \/ Now.do = "create" /\ CreateEffect
         \/ Now.do = "generate" /\ GenerateEffect
         \/ Now.do = "generate_public" /\ GeneratePublicEffect
         \/ Now.do = "export" /\ ReadEffect
         \/ Now.do = "value" /\ ReadEffect
         \/ Now.do = "key_type" /\ KeyTypeEffect
         \/ Now.do = "entropy" /\ EntropyEffect
         \/ Now.do = "context" /\ ContextEffect
         \/ Now.do = "sign" /\ SignEffect
         \/ Now.do = "start" /\ StartEffect
         \/ Now.do = "handshake" /\ HandshakeEffect
         \/ Now.do = "established" /\ EstablishedEffect
         \/ Now.do = "close" /\ CloseEffect
         \/ Now.do = "free" /\ FreeEffect
<1>1. ~pki /\ ~TLS_Cleanup
  BY DEF pki, Begin, TLS_Cleanup
<1>2. QED
  BY <1>1, SessionDoes, FindDoes, DestroyDoes, PointDoes, CreateDoes, GenerateDoes,
     GeneratePublicDoes, ExportDoes, ValueDoes, KeyTypeDoes, EntropyDoes, ContextDoes,
     SignDoes, StartDoes, HandshakeDoes, EstablishedDoes, CloseDoes, FreeDoes, Zenon
  DEF Next

(***************************************************************************)
(* The invariant: what holds at each step of each command.                 *)
(***************************************************************************)
Shape ==
    /\ DOMAIN call = Fields /\ DOMAIN token = Objects
    /\ \A o \in Objects : token[o] \in Held \cup {None}
    /\ made \in Nat
    /\ call.command \in DOMAIN Program \cup {None}
    /\ sessions \subseteq Sessions

Succeeds == call.status = "PKI_SUCCESS"

\* The handle is that of the object, or the object is not there.
Found(o) == call.handle = IF token[o] # None THEN o ELSE None

\* A function of n steps opens its session with the first, closes it with the
\* last.
SessionUntil(n) ==
    /\ call.at \in 1 .. n
    /\ call.at = 1 => call.session = None
    /\ call.at \in 2 .. (n - 1) => call.session \in Sessions
    /\ call.at = n => call.session \in Sessions \cup {None}

\* Nothing but pki starts from here.
Resting == call.command = None => call = Idle /\ pk = NoContext

GeneratingKey ==
    call.command = "generate_key" =>
        /\ SessionUntil(9) /\ pk = NoContext
        /\ call.at = 3 => Found("prv")
        /\ call.at \in 4 .. 6 => token["prv"] = None
        /\ call.at = 5 => Found("pub")
        /\ call.at \in 6 .. 7 => token["pub"] = None
        /\ call.at = 8 => call.handle = "pub" /\ token["pub"] = token["prv"]
        /\ call.at = 9 /\ Succeeds => call.out = token["pub"] /\ call.out = token["prv"]

\* The first five steps of generate_csr and generate_cert: the session goes to
\* the key context, which is of the private key.
ContextFrom ==
    /\ call.at = 1 => call.session = None
    /\ call.at \in 2 .. 4 => call.session \in Sessions
    /\ call.at = 5 => call.session = None
    /\ call.at \in 1 .. 4 => pk = NoContext
    /\ call.at = 3 => Found("prv")
    /\ call.at \in 4 .. 5 => token["prv"] # None
    /\ call.at = 5 => pk.n = token["prv"].n

GeneratingCsr ==
    call.command = "generate_csr" =>
        /\ call.at \in 1 .. 6
        /\ ContextFrom
        /\ call.at = 6 => call.session \in Sessions \cup {None}
        /\ call.at = 6 /\ Succeeds => call.out = Cert(token["prv"].n)

GeneratingCert ==
    call.command = "generate_cert" =>
        /\ call.at \in 1 .. 13
        /\ ContextFrom
        /\ call.at = 6 => call.session = None
        /\ call.at \in 7 .. 11 => call.session \in Sessions
        /\ call.at \in 12 .. 13 => call.session \in Sessions \cup {None}
        /\ call.at \in 6 .. 11 => call.out \in Held
        /\ call.at \in {8, 10} => Found("cert")
        /\ call.at \in 6 .. 13 /\ Succeeds => call.out = Cert(token["prv"].n)

ImportingCert ==
    call.command = "import_cert" =>
        /\ SessionUntil(7) /\ pk = NoContext
        /\ call.at < 7 => call.out \in Held
        /\ call.at = 7 /\ Succeeds => call.out = token["cert"]

ImportingKey ==
    call.command = "import_key" =>
        /\ SessionUntil(8) /\ pk = NoContext
        /\ call.at < 8 => call.out \in Held
        /\ call.at = 7 => call.out.alg = "EC"
        /\ call.at = 8 /\ Succeeds => call.out = token["code"] /\ call.out.alg = "EC"

ExportingCert ==
    call.command = "export_cert" =>
        /\ call.at \in 1 .. 4 /\ pk = NoContext
        /\ call.at = 1 => call.session = None
        /\ call.at \in 2 .. 3 => call.session \in Sessions
        /\ call.at = 3 => Found("cert")
        /\ call.at = 4 => call.out \in {None, token["cert"]}

ExportingKey ==
    call.command = "export_key" =>
        /\ SessionUntil(4) /\ pk = NoContext
        /\ call.at = 3 => Found("pub")
        /\ call.at = 4 => call.out \in {None, token["pub"]}

Connecting ==
    call.command = "connect" =>
        /\ call.at \in 1 .. 10 /\ pk = NoContext
        /\ call.at = 1 => call.session = None
        /\ call.at \in 2 .. 3 => call.session \in Sessions
        /\ call.at \in 4 .. 9 => call.session = None
        /\ call.at \in 1 .. 3 => tls = None
        /\ call.at \in 4 .. 9 => tls # None
        /\ call.at = 10 /\ Succeeds => tls # None /\ call.session = None
        /\ call.at <= 7 => call.out = None
        /\ call.at = 7 => Found("cert")
        /\ call.at >= 8 => call.out \in {None, token["cert"]}
        /\ call.at <= 9 => call.der = None
        /\ call.at = 10 /\ Succeeds /\ call.der # None => call.out # None

Decodes(c) ==
    c.der # None =>
        IsDer(c.der) /\ PKI_mbedTLSSignatureToPkcs11Signature(c.der) = c.raw

Answered ==
    /\ Running => reply = NoReply
    /\ RepliesMatch

PkiInv ==
    /\ Shape /\ Resting
    /\ GeneratingKey /\ GeneratingCsr /\ GeneratingCert /\ ImportingCert /\ ImportingKey
    /\ ExportingCert /\ ExportingKey /\ Connecting
    /\ KeysMatch /\ Answered
    /\ Decodes(call) /\ Decodes(reply)
    /\ SessionsAccounted

LEMMA NoneIsNothingElse ==
  /\ None # "PKI_SUCCESS" /\ None # "status" /\ None \notin Int /\ None \notin Sessions
  /\ None \notin Objects /\ None \notin Held
  /\ None \notin {"generate_key", "generate_csr", "generate_cert", "import_cert", "import_key",
                  "export_cert", "export_key", "connect"}
<1>1. DOMAIN Program = {"generate_key", "generate_csr", "generate_cert", "import_cert",
                        "import_key", "export_cert", "export_key", "connect"}
  BY DEF Program
<1>2. QED
  BY <1>1, NoneAssumption DEF Sessions

\* generate_key
LEMMA GeneratingKeyKept ==
  ASSUME Shape, GeneratingKey, call.command = "generate_key", Next, ~Reset
  PROVE  GeneratingKey' /\ (call'.command = None => RepliesMatch')
<1> USE NoneIsNothingElse
<1>1. Running /\ DOMAIN call = Fields /\ call.at \in 1 .. 9 /\ pk = NoContext
  BY DEF Running, Shape, GeneratingKey, SessionUntil
<1>2. /\ call.at = 1 => SessionEffect
      /\ call.at = 2 => FindEffect
      /\ call.at = 3 => DestroyEffect
      /\ call.at = 4 => FindEffect
      /\ call.at = 5 => DestroyEffect
      /\ call.at = 6 => GenerateEffect
      /\ call.at = 7 => GeneratePublicEffect
      /\ call.at = 8 => ReadEffect
      /\ call.at = 9 => CloseEffect
  BY <1>1, StepDoes, GenerateKeySteps DEF Step
<1>3. CASE call.at < 9 /\ FailedHere
  <2>1. /\ call'.command = "generate_key" /\ call'.at = 9 /\ call'.session = call.session
        /\ call'.status # "PKI_SUCCESS" /\ pk' = pk
    <3>1. Now.then = "close" /\ Now.by = "ck" /\ After("close") = 9
      BY <1>1, <1>3, GenerateKeySteps DEF Step
    <3>2. pk' = pk
      BY <1>1, <1>2, <1>3 DEF SessionEffect, FindEffect, DestroyEffect, GenerateEffect,
                              GeneratePublicEffect, ReadEffect
    <3>3. QED
      BY <1>3, <3>1, <3>2 DEF FailedHere, Failed, SameSession
  <2>2. call.session \in Sessions \cup {None}
    BY <1>1 DEF GeneratingKey, SessionUntil
  <2>3. QED
    BY <1>1, <2>1, <2>2 DEF GeneratingKey, SessionUntil, Succeeds
<1>4. CASE call.at < 9 /\ ~FailedHere
  <2>1. /\ Stepped /\ pk' = pk /\ call'.command = "generate_key" /\ call'.at = call.at + 1
        /\ call.at # 1 => call'.session = call.session
        /\ call.at = 1 => call'.session \in Sessions
    BY <1>1, <1>2, <1>4, GenerateKeySteps
    DEF SessionEffect, FindEffect, DestroyEffect, GenerateEffect, GeneratePublicEffect,
        ReadEffect, Stepped, SameSession, SameLocals, Step
  <2>2. SessionUntil(9)' /\ pk' = NoContext
    BY <1>1, <1>4, <2>1 DEF GeneratingKey, SessionUntil
  <2>3. CASE call.at = 1
    BY <2>1, <2>2, <2>3 DEF GeneratingKey
  <2>4. CASE call.at = 2
    <3>1. call'.handle = (IF token["prv"] # None THEN "prv" ELSE None) /\ token' = token
      BY <1>1, <1>2, <1>4, <2>4, GenerateKeySteps DEF FindEffect, Step
    <3>2. QED
      BY <2>1, <2>2, <2>4, <3>1 DEF GeneratingKey, Found, Objects
  <2>5. CASE call.at = 3
    <3>1. Found("prv")
      BY <1>1, <2>5 DEF GeneratingKey
    <3>2. token'["prv"] = None
      BY <1>2, <1>4, <2>5, <3>1 DEF DestroyEffect, Found, Shape, Objects
    <3>3. QED
      BY <2>1, <2>2, <2>5, <3>2 DEF GeneratingKey
  <2>6. CASE call.at = 4
    <3>1. call'.handle = (IF token["pub"] # None THEN "pub" ELSE None) /\ token' = token
      BY <1>1, <1>2, <1>4, <2>6, GenerateKeySteps DEF FindEffect, Step
    <3>2. QED
      BY <2>1, <2>2, <2>6, <3>1 DEF GeneratingKey, Found, Objects
  <2>7. CASE call.at = 5
    <3>1. Found("pub") /\ token["prv"] = None
      BY <1>1, <2>7 DEF GeneratingKey
    <3>2. token'["prv"] = None /\ token'["pub"] = None
      BY <1>2, <1>4, <2>7, <3>1 DEF DestroyEffect, Found, Shape, Objects
    <3>3. QED
      BY <2>1, <2>2, <2>7, <3>2 DEF GeneratingKey
  <2>8. CASE call.at = 6
    <3>1. token'["pub"] = None
      BY <1>1, <1>2, <1>4, <2>8 DEF GenerateEffect, Shape, Objects, GeneratingKey
    <3>2. QED
      BY <2>1, <2>2, <2>8, <3>1 DEF GeneratingKey
  <2>9. CASE call.at = 7
    <3>1. token'["pub"] = token'["prv"] /\ call'.handle = "pub"
      BY <1>1, <1>2, <1>4, <2>9 DEF GeneratePublicEffect, Shape, Objects, GeneratingKey
    <3>2. QED
      BY <2>1, <2>2, <2>9, <3>1 DEF GeneratingKey
  <2>10. CASE call.at = 8
    <3>1. token' = token /\ call'.out = token["pub"] /\ token["pub"] = token["prv"]
      BY <1>1, <1>2, <1>4, <2>10 DEF ReadEffect, GeneratingKey
    <3>2. QED
      BY <2>1, <2>2, <2>10, <3>1 DEF GeneratingKey
  <2>11. QED
    BY <1>1, <1>4, <2>1, <2>3, <2>4, <2>5, <2>6, <2>7, <2>8, <2>9, <2>10
<1>5. CASE call.at = 9
  <2>1. Ended /\ reply'.status = call.status /\ token' = token
    BY <1>1, <1>2, <1>5, GenerateKeySteps DEF CloseEffect, Step
  <2>2. GeneratingKey'
    BY <2>1 DEF Ended, Idle, GeneratingKey
  <2>3. RepliesMatch'
    BY <1>1, <1>5, <2>1 DEF Ended, RepliesMatch, GeneratingKey, Succeeds
  <2>4. QED
    BY <2>2, <2>3
<1>6. QED
  BY <1>1, <1>3, <1>4, <1>5
\* import_cert
LEMMA ImportingCertKept ==
  ASSUME Shape, ImportingCert, call.command = "import_cert", Next, ~Reset
  PROVE  ImportingCert' /\ (call'.command = None => RepliesMatch')
<1> USE NoneIsNothingElse
<1>1. Running /\ DOMAIN call = Fields /\ call.at \in 1 .. 7 /\ pk = NoContext
  BY DEF Running, Shape, ImportingCert, SessionUntil
<1>2. /\ call.at = 1 => SessionEffect
      /\ call.at \in {2, 4} => FindEffect
      /\ call.at \in {3, 5} => DestroyEffect
      /\ call.at = 6 => CreateEffect
      /\ call.at = 7 => CloseEffect
  BY <1>1, StepDoes, ImportCertSteps DEF Step
<1>3. CASE call.at < 7 /\ FailedHere
  <2>1. Now.then = "close" /\ Now.by \in {"ck", "write"} /\ After("close") = 7
    BY <1>1, <1>3, ImportCertSteps DEF Step
  <2>2. pk' = pk
    BY <1>1, <1>2, <1>3 DEF SessionEffect, FindEffect, DestroyEffect, CreateEffect
  <2>3. call.session \in Sessions \cup {None}
    BY <1>1 DEF ImportingCert, SessionUntil
  <2>4. QED
    BY <1>1, <1>3, <2>1, <2>2, <2>3
    DEF FailedHere, Failed, SameSession, ImportingCert, SessionUntil, Succeeds
<1>4. CASE call.at < 7 /\ ~FailedHere
  <2>1. /\ Stepped /\ SameOut /\ pk' = pk
        /\ call.at # 1 => SameSession
        /\ call.at = 1 => call'.session \in Sessions
    BY <1>1, <1>2, <1>4, ImportCertSteps
    DEF SessionEffect, FindEffect, DestroyEffect, CreateEffect, SameLocals, Step
  <2>2. SessionUntil(7)' /\ pk' = NoContext /\ call'.out \in Held /\ call'.out = call.out
    BY <1>1, <1>4, <2>1 DEF ImportingCert, SessionUntil, Stepped, SameSession, SameOut
  <2>3. call.at = 6 => token'["cert"] = call.out
    BY <1>2, <1>4, ImportCertSteps DEF CreateEffect, Step, Shape, Objects
  <2>4. QED
    BY <1>1, <2>1, <2>2, <2>3 DEF ImportingCert, Stepped
<1>5. CASE call.at = 7
  <2>1. Ended /\ reply'.status = call.status /\ token' = token
    BY <1>1, <1>2, <1>5, ImportCertSteps DEF CloseEffect, Step
  <2>2. ImportingCert'
    BY <2>1 DEF Ended, Idle, ImportingCert
  <2>3. RepliesMatch'
    BY <1>1, <1>5, <2>1 DEF Ended, RepliesMatch, ImportingCert, Succeeds
  <2>4. QED
    BY <2>2, <2>3
<1>6. QED
  BY <1>1, <1>3, <1>4, <1>5

\* import_key
LEMMA ImportingKeyKept ==
  ASSUME Shape, ImportingKey, call.command = "import_key", Next, ~Reset
  PROVE  ImportingKey' /\ (call'.command = None => RepliesMatch')
<1> USE NoneIsNothingElse
<1>1. Running /\ DOMAIN call = Fields /\ call.at \in 1 .. 8 /\ pk = NoContext
  BY DEF Running, Shape, ImportingKey, SessionUntil
<1>2. /\ call.at = 1 => SessionEffect
      /\ call.at \in {2, 4} => FindEffect
      /\ call.at \in {3, 5} => DestroyEffect
      /\ call.at = 6 => PointEffect
      /\ call.at = 7 => CreateEffect
      /\ call.at = 8 => CloseEffect
  BY <1>1, StepDoes, ImportKeySteps DEF Step
<1>3. CASE call.at < 8 /\ FailedHere
  <2>1. Now.then = "close" /\ Now.by \in {"ck", "write"} /\ After("close") = 8
    BY <1>1, <1>3, ImportKeySteps DEF Step
  <2>2. pk' = pk
    BY <1>1, <1>2, <1>3 DEF SessionEffect, FindEffect, DestroyEffect, PointEffect, CreateEffect
  <2>3. call.session \in Sessions \cup {None}
    BY <1>1 DEF ImportingKey, SessionUntil
  <2>4. QED
    BY <1>1, <1>3, <2>1, <2>2, <2>3
    DEF FailedHere, Failed, SameSession, ImportingKey, SessionUntil, Succeeds
<1>4. CASE call.at < 8 /\ ~FailedHere
  <2>1. /\ Stepped /\ SameOut /\ pk' = pk
        /\ call.at # 1 => SameSession
        /\ call.at = 1 => call'.session \in Sessions
    BY <1>1, <1>2, <1>4, ImportKeySteps
    DEF SessionEffect, FindEffect, DestroyEffect, PointEffect, CreateEffect, SameLocals, Step
  <2>2. SessionUntil(8)' /\ pk' = NoContext /\ call'.out \in Held /\ call'.out = call.out
    BY <1>1, <1>4, <2>1 DEF ImportingKey, SessionUntil, Stepped, SameSession, SameOut
  <2>3. call.at = 6 => call.out.alg = "EC"
    BY <1>2, <1>4 DEF PointEffect
  <2>4. call.at = 7 => token'["code"] = call.out /\ call.out.alg = "EC"
    <3>1. call.at = 7 => token'["code"] = call.out
      BY <1>2, <1>4, ImportKeySteps DEF CreateEffect, Step, Shape, Objects
    <3>2. QED
      BY <1>1, <3>1 DEF ImportingKey
  <2>5. QED
    BY <1>1, <2>1, <2>2, <2>3, <2>4 DEF ImportingKey, Stepped
<1>5. CASE call.at = 8
  <2>1. Ended /\ reply'.status = call.status /\ token' = token
    BY <1>1, <1>2, <1>5, ImportKeySteps DEF CloseEffect, Step
  <2>2. ImportingKey'
    BY <2>1 DEF Ended, Idle, ImportingKey
  <2>3. RepliesMatch'
    BY <1>1, <1>5, <2>1 DEF Ended, RepliesMatch, ImportingKey, Succeeds
  <2>4. QED
    BY <2>2, <2>3
<1>6. QED
  BY <1>1, <1>3, <1>4, <1>5

\* export_key
LEMMA ExportingKeyKept ==
  ASSUME Shape, ExportingKey, call.command = "export_key", Next, ~Reset
  PROVE  ExportingKey' /\ (call'.command = None => RepliesMatch')
<1> USE NoneIsNothingElse
<1>1. Running /\ DOMAIN call = Fields /\ call.at \in 1 .. 4 /\ pk = NoContext
  BY DEF Running, Shape, ExportingKey, SessionUntil
<1>2. /\ call.at = 1 => SessionEffect
      /\ call.at = 2 => FindEffect
      /\ call.at = 3 => ReadEffect
      /\ call.at = 4 => CloseEffect
  BY <1>1, StepDoes, ExportKeySteps DEF Step
<1>3. CASE call.at < 4 /\ FailedHere
  <2>1. Now.then = "close" /\ Now.by \in {"ck", "write"} /\ After("close") = 4
    BY <1>1, <1>3, ExportKeySteps DEF Step
  <2>2. pk' = pk
    BY <1>1, <1>2, <1>3 DEF SessionEffect, FindEffect, ReadEffect
  <2>3. call.session \in Sessions \cup {None}
    BY <1>1 DEF ExportingKey, SessionUntil
  <2>4. QED
    BY <1>1, <1>3, <2>1, <2>2, <2>3
    DEF FailedHere, Failed, SameSession, ExportingKey, SessionUntil
<1>4. CASE call.at < 4 /\ ~FailedHere
  <2>1. /\ Stepped /\ pk' = pk /\ token' = token
        /\ call.at # 1 => SameSession
        /\ call.at = 1 => call'.session \in Sessions
    BY <1>1, <1>2, <1>4, ExportKeySteps
    DEF SessionEffect, FindEffect, ReadEffect, Step
  <2>2. SessionUntil(4)' /\ pk' = NoContext
    BY <1>1, <1>4, <2>1 DEF ExportingKey, SessionUntil, Stepped, SameSession
  <2>3. call.at = 2 => Found("pub")'
    <3>1. call.at = 2 => call'.handle = (IF token["pub"] # None THEN "pub" ELSE None)
      BY <1>1, <1>2, <1>4, ExportKeySteps DEF FindEffect, Step
    <3>2. QED
      BY <2>1, <3>1 DEF Found, Objects
  <2>4. call.at = 3 => call'.out = token["pub"]
    BY <1>1, <1>2, <1>4 DEF ReadEffect, ExportingKey, Found
  <2>5. QED
    BY <1>1, <2>1, <2>2, <2>3, <2>4 DEF ExportingKey, Stepped
<1>5. CASE call.at = 4
  <2>1. Ended /\ token' = token
    BY <1>1, <1>2, <1>5, ExportKeySteps DEF CloseEffect
  <2>2. ExportingKey'
    BY <2>1 DEF Ended, Idle, ExportingKey
  <2>3. RepliesMatch'
    BY <1>1, <1>5, <2>1 DEF Ended, RepliesMatch, ExportingKey
  <2>4. QED
    BY <2>2, <2>3
<1>6. QED
  BY <1>1, <1>3, <1>4, <1>5

\* export_cert: without a session the handle is not initialized.
LEMMA ExportingCertKept ==
  ASSUME Shape, ExportingCert, call.command = "export_cert", Next, ~Reset
  PROVE  ExportingCert' /\ (call'.command = None => RepliesMatch')
<1> USE NoneIsNothingElse
<1>1. Running /\ DOMAIN call = Fields /\ call.at \in 1 .. 4 /\ pk = NoContext
  BY DEF Running, Shape, ExportingCert
<1>2. /\ call.at = 1 => SessionEffect
      /\ call.at = 2 => FindEffect
      /\ call.at = 3 => ReadEffect
      /\ call.at = 4 => CloseEffect
  BY <1>1, StepDoes, ExportCertSteps DEF Step
<1>3. CASE call.at < 4 /\ Failed("close")
  <2>1. After("close") = 4 /\ pk' = pk /\ Now.by # "ignored"
    BY <1>1, <1>2, <1>3, ExportCertSteps DEF SessionEffect, FindEffect, ReadEffect, Step
  <2>2. QED
    BY <1>1, <1>3, <2>1 DEF Failed, ExportingCert
<1>4. CASE call.at < 4 /\ ~Failed("close")
  <2>1. ~FailedHere \/ call.at = 1
    BY <1>1, <1>4, ExportCertSteps DEF Step, FailedHere
  <2>2. /\ Stepped /\ pk' = pk /\ token' = token
        /\ call.at # 1 => SameSession
        /\ call.at = 1 => call'.session \in Sessions
    BY <1>1, <1>2, <1>4, <2>1, ExportCertSteps
    DEF SessionEffect, FindEffect, ReadEffect, Step
  <2>3. call.at = 2 => Found("cert")'
    <3>1. call.at = 2 => call'.handle = (IF token["cert"] # None THEN "cert" ELSE None)
      BY <1>1, <1>2, <1>4, <2>1, ExportCertSteps DEF FindEffect, Step
    <3>2. QED
      BY <2>2, <3>1 DEF Found, Objects
  <2>4. call.at = 3 => call'.out = token["cert"]
    BY <1>1, <1>2, <1>4, <2>1 DEF ReadEffect, ExportingCert, Found
  <2>5. QED
    BY <1>1, <1>4, <2>2, <2>3, <2>4 DEF ExportingCert, Stepped, SameSession
<1>5. CASE call.at = 4
  <2>1. Ended /\ token' = token
    BY <1>1, <1>2, <1>5, ExportCertSteps DEF CloseEffect
  <2>2. ExportingCert'
    BY <2>1 DEF Ended, Idle, ExportingCert
  <2>3. RepliesMatch'
    BY <1>1, <1>5, <2>1 DEF Ended, RepliesMatch, ExportingCert
  <2>4. QED
    BY <2>2, <2>3
<1>6. QED
  BY <1>1, <1>3, <1>4, <1>5

\* The first five steps of generate_csr and generate_cert.
LEMMA ContextKept ==
  ASSUME Shape, ContextFrom, call.at \in 1 .. 5, Stepped, Now.object = "prv" \/ call.at # 2,
         Now.then = "free",
         call.at = 1 => SessionEffect, call.at = 2 => FindEffect, call.at = 3 => KeyTypeEffect,
         call.at = 4 => ContextEffect, call.at = 5 => SignEffect, ~FailedHere
  PROVE  /\ ContextFrom' /\ token' = token
         /\ call.at = 5 => /\ call'.session = None /\ call'.out \in Held
                           /\ call'.out = Cert(token["prv"].n)
<1> USE NoneIsNothingElse
<1>1. token' = token /\ (call.at \in {1, 2, 3, 5} => pk' = pk) /\ call'.at = call.at + 1
  BY DEF SessionEffect, FindEffect, KeyTypeEffect, ContextEffect, SignEffect, Stepped
<1>2. /\ call.at = 1 => call'.session \in Sessions
      /\ call.at \in {2, 3, 5} => call'.session = call.session
      /\ call.at = 4 => call'.session = None /\ pk'.n = token["prv"].n
  BY DEF SessionEffect, FindEffect, KeyTypeEffect, ContextEffect, SignEffect, SameSession,
         SameLocals
<1>3. call.at = 2 => Found("prv")'
  <2>1. call.at = 2 => call'.handle = (IF token["prv"] # None THEN "prv" ELSE None)
    BY DEF FindEffect
  <2>2. QED
    BY <1>1, <2>1 DEF Found, Objects
<1>4. call.at = 3 => token["prv"] # None
  BY DEF KeyTypeEffect, ContextFrom, Found
<1>5. ContextFrom'
  BY <1>1, <1>2, <1>3, <1>4 DEF ContextFrom
<1>6. ASSUME call.at = 5 PROVE call'.out = Cert(token["prv"].n) /\ call'.out \in Held
  <2>1. call'.out = Cert(token["prv"].n) /\ token["prv"] \in Held
    BY <1>6 DEF SignEffect, ContextFrom, Shape, Objects
  <2>2. QED
    BY <2>1 DEF Cert, Key, Held
<1>7. QED
  BY <1>1, <1>2, <1>5, <1>6 DEF ContextFrom

\* generate_csr
LEMMA GeneratingCsrKept ==
  ASSUME Shape, GeneratingCsr, call.command = "generate_csr", Next, ~Reset
  PROVE  GeneratingCsr' /\ (call'.command = None => RepliesMatch')
<1> USE NoneIsNothingElse
<1>1. Running /\ DOMAIN call = Fields /\ call.at \in 1 .. 6 /\ ContextFrom
  BY DEF Running, Shape, GeneratingCsr
<1>2. /\ call.at = 1 => SessionEffect
      /\ call.at = 2 => FindEffect
      /\ call.at = 3 => KeyTypeEffect
      /\ call.at = 4 => ContextEffect
      /\ call.at = 5 => SignEffect
      /\ call.at = 6 => FreeEffect
  BY <1>1, StepDoes, GenerateCsrSteps DEF Step
<1>3. CASE call.at < 6 /\ FailedHere
  <2>1. Now.then = "free" /\ Now.by \in {"ck", "write"} /\ After("free") = 6
    BY <1>1, <1>3, GenerateCsrSteps DEF Step
  <2>2. call.session \in Sessions \cup {None}
    BY <1>1, <1>3 DEF ContextFrom
  <2>3. QED
    BY <1>1, <1>3, <2>1, <2>2
    DEF FailedHere, Failed, SameSession, GeneratingCsr, ContextFrom, Succeeds
<1>4. CASE call.at < 6 /\ ~FailedHere
  <2>1. Now.then = "free" /\ (call.at = 2 => Now.object = "prv")
    BY <1>1, <1>4, GenerateCsrSteps DEF Step
  <2>2. Stepped
    BY <1>1, <1>2, <1>4, <2>1
    DEF SessionEffect, FindEffect, KeyTypeEffect, ContextEffect, SignEffect
  <2>3. /\ ContextFrom' /\ token' = token
        /\ call.at = 5 => call'.session = None /\ call'.out = Cert(token["prv"].n)
    BY <1>1, <1>2, <1>4, <2>1, <2>2, ContextKept
  <2>4. QED
    BY <1>1, <1>4, <2>2, <2>3 DEF GeneratingCsr, Stepped
<1>5. CASE call.at = 6
  <2>1. Ended /\ reply'.status = call.status /\ token' = token
    BY <1>2, <1>5 DEF FreeEffect
  <2>2. GeneratingCsr'
    BY <2>1 DEF Ended, Idle, GeneratingCsr
  <2>3. RepliesMatch'
    BY <1>1, <1>5, <2>1 DEF Ended, RepliesMatch, GeneratingCsr, Succeeds
  <2>4. QED
    BY <2>2, <2>3
<1>6. QED
  BY <1>1, <1>3, <1>4, <1>5

\* generate_cert: the certificate is signed as the request is, and written in a
\* session of its own.
LEMMA GeneratingCertKept ==
  ASSUME Shape, GeneratingCert, call.command = "generate_cert", Next, ~Reset
  PROVE  GeneratingCert' /\ (call'.command = None => RepliesMatch')
<1> USE NoneIsNothingElse
<1>1. Running /\ DOMAIN call = Fields /\ call.at \in 1 .. 13 /\ ContextFrom
  BY DEF Running, Shape, GeneratingCert
<1>2. /\ call.at \in {1, 6} => SessionEffect
      /\ call.at \in {2, 7, 9} => FindEffect
      /\ call.at = 3 => KeyTypeEffect
      /\ call.at = 4 => ContextEffect
      /\ call.at = 5 => SignEffect
      /\ call.at \in {8, 10} => DestroyEffect
      /\ call.at = 11 => CreateEffect
      /\ call.at = 12 => CloseEffect
      /\ call.at = 13 => FreeEffect
  BY <1>1, StepDoes, GenerateCertSteps DEF Step
<1>3. ASSUME call.at \in 6 .. 11 PROVE token'["prv"] = token["prv"]
  <2>1. CASE call.at \in {6, 7, 9}
    BY <1>2, <2>1 DEF SessionEffect, FindEffect
  <2>2. CASE call.at \in {8, 10}
    <3>1. call.handle \in {"cert", None}
      BY <1>1, <2>2 DEF GeneratingCert, Found
    <3>2. QED
      BY <1>2, <2>2, <3>1 DEF DestroyEffect, Shape, Objects
  <2>3. CASE call.at = 11
    BY <1>1, <1>2, <2>3, GenerateCertSteps DEF CreateEffect, Step, Shape, Objects
  <2>4. QED
    BY <1>3, <2>1, <2>2, <2>3
<1>4. CASE call.at \in 1 .. 5 /\ FailedHere
  <2>1. Now.by \in {"ck", "write"} /\ Now.then = "free" /\ After("free") = 13
    BY <1>1, <1>4, GenerateCertSteps DEF Step
  <2>2. call.session \in Sessions \cup {None}
    BY <1>1, <1>4 DEF ContextFrom
  <2>3. QED
    BY <1>1, <1>4, <2>1, <2>2
    DEF FailedHere, Failed, SameSession, GeneratingCert, ContextFrom, Succeeds
<1>5. CASE call.at \in 6 .. 11 /\ FailedHere
  <2>1. Now.by = "ignored" /\ Now.then = "close" /\ After("close") = 12
    BY <1>1, <1>5, GenerateCertSteps DEF Step
  <2>2. call.session \in Sessions \cup {None}
    BY <1>1, <1>5 DEF GeneratingCert
  <2>3. QED
    BY <1>1, <1>5, <1>3, <2>1, <2>2
    DEF FailedHere, Failed, SameSession, GeneratingCert, ContextFrom, Succeeds
<1>6. CASE call.at \in 1 .. 5 /\ ~FailedHere
  <2>1. Now.then = "free" /\ (call.at = 2 => Now.object = "prv")
    BY <1>1, <1>6, GenerateCertSteps DEF Step
  <2>2. Stepped
    BY <1>1, <1>2, <1>6, <2>1
    DEF SessionEffect, FindEffect, KeyTypeEffect, ContextEffect, SignEffect
  <2>3. /\ ContextFrom' /\ token' = token
        /\ call.at = 5 => /\ call'.session = None /\ call'.out \in Held
                          /\ call'.out = Cert(token["prv"].n)
    BY <1>1, <1>2, <1>6, <2>1, <2>2, ContextKept
  <2>4. QED
    BY <1>1, <1>6, <2>2, <2>3 DEF GeneratingCert, Stepped
<1>7. CASE call.at \in 6 .. 11 /\ ~FailedHere
  <2>1. Now.then # "close_uninitialized"
    BY <1>1, <1>7, GenerateCertSteps DEF Step
  <2>2. Stepped /\ call'.out = call.out
    BY <1>1, <1>2, <1>7, <2>1
    DEF SessionEffect, FindEffect, DestroyEffect, CreateEffect, SameOut, SameLocals
  <2>3. /\ call.at = 6 => call'.session \in Sessions
        /\ call.at \in 7 .. 11 => call'.session = call.session
    BY <1>1, <1>2, <1>7, <2>1
    DEF SessionEffect, FindEffect, DestroyEffect, CreateEffect, SameSession, SameLocals
  <2>4. call'.at \in 7 .. 12 /\ call'.session \in Sessions /\ call'.out \in Held
    BY <1>1, <1>7, <2>2, <2>3 DEF GeneratingCert, Stepped
  <2>5. call'.at \in {8, 10} => Found("cert")'
    <3>1. ASSUME call.at \in {7, 9}
          PROVE  token' = token /\ call'.handle = (IF token["cert"] # None THEN "cert" ELSE None)
      BY <1>1, <1>2, <1>7, <3>1, GenerateCertSteps DEF FindEffect, Step
    <3>2. QED
      BY <1>1, <1>7, <2>2, <3>1 DEF Found, Stepped
  <2>6. call'.at = call.at + 1 /\ call'.status = call.status /\ call'.command = call.command
    BY <2>2 DEF Stepped
  <2>7. Succeeds' => call'.out = Cert(token'["prv"].n)
    BY <1>1, <1>7, <1>3, <2>2, <2>6 DEF GeneratingCert, Succeeds
  <2>8. QED
    BY <1>1, <1>7, <2>4, <2>5, <2>6, <2>7 DEF GeneratingCert, ContextFrom
<1>8. CASE call.at = 12
  <2>1. Stepped /\ call'.session = None /\ call'.out = call.out /\ token' = token
    BY <1>1, <1>2, <1>8, GenerateCertSteps DEF CloseEffect, Step, SameOut
  <2>2. QED
    BY <1>1, <1>8, <2>1 DEF GeneratingCert, ContextFrom, Stepped, Succeeds
<1>9. CASE call.at = 13
  <2>1. Ended /\ reply'.status = call.status /\ token' = token
    BY <1>2, <1>9 DEF FreeEffect
  <2>2. GeneratingCert'
    BY <2>1 DEF Ended, Idle, GeneratingCert
  <2>3. RepliesMatch'
    BY <1>1, <1>9, <2>1 DEF Ended, RepliesMatch, GeneratingCert, Succeeds
  <2>4. QED
    BY <2>2, <2>3
<1>10. QED
  BY <1>1, <1>4, <1>5, <1>6, <1>7, <1>8, <1>9

\* connect
LEMMA ConnectingKept ==
  ASSUME Shape, Connecting, call.command = "connect", Next, ~Reset
  PROVE  Connecting' /\ (call'.command = None => RepliesMatch')
<1> USE NoneIsNothingElse
<1>1. Running /\ DOMAIN call = Fields /\ call.at \in 1 .. 10 /\ pk = NoContext
  BY DEF Running, Shape, Connecting
<1>2. /\ call.at = 1 => SessionEffect
      /\ call.at = 2 => EntropyEffect
      /\ call.at = 3 => StartEffect
      /\ call.at \in {4, 6, 8} => FindEffect
      /\ call.at = 5 => KeyTypeEffect
      /\ call.at = 7 => ReadEffect
      /\ call.at = 9 => HandshakeEffect
      /\ call.at = 10 => EstablishedEffect
  BY <1>1, StepDoes, ConnectSteps DEF Step
<1>3. CASE call.at < 10 /\ FailedHere
  <2>1. /\ call.at \in {1, 2, 9} => /\ Now.then = "established" /\ After("established") = 10
                                    /\ Now.by = "write"
        /\ call.at \in 3 .. 8 => Now.then = "handshake" /\ After("handshake") = 9
        /\ Now.by # "ignored"
    BY <1>1, <1>3, ConnectSteps DEF Step
  <2>2. call.at # 3 => pk' = pk /\ tls' = tls
    BY <1>1, <1>2, <1>3 DEF SessionEffect, EntropyEffect, KeyTypeEffect, FindEffect, ReadEffect,
                            HandshakeEffect
  <2>3. call.at # 3
    BY <1>1, <1>2, <1>3, <2>1 DEF StartEffect, Stepped, FailedHere, Failed
  <2>4. /\ call'.command = "connect" /\ call'.out = None /\ call'.der = call.der
        /\ call'.session = call.session
        /\ call.at \in {1, 2, 9} => call'.at = 10 /\ call'.status # "PKI_SUCCESS"
        /\ call.at \in 4 .. 8 => call'.at = 9
    BY <1>1, <1>3, <2>1 DEF FailedHere, Failed, SameSession, SameSignature
  <2>5. QED
    BY <1>1, <1>3, <2>2, <2>3, <2>4 DEF Connecting, Succeeds
<1>4. CASE call.at < 10 /\ ~FailedHere
  <2>1. /\ Stepped /\ pk' = pk /\ token' = token
        /\ call.at # 3 => tls' = tls
        /\ call.at = 3 => tls' = call.session
    BY <1>1, <1>2, <1>4, ConnectSteps
    DEF SessionEffect, EntropyEffect, KeyTypeEffect, StartEffect, FindEffect, ReadEffect,
        HandshakeEffect, Step
  <2>2. /\ call.at = 1 => call'.session \in Sessions
        /\ call.at \in {2, 4, 5, 6, 7, 8, 9} => call'.session = call.session
        /\ call.at = 3 => call'.session = None
    BY <1>1, <1>2, <1>4, ConnectSteps
    DEF SessionEffect, EntropyEffect, KeyTypeEffect, StartEffect, FindEffect, ReadEffect,
        HandshakeEffect, Step, SameSession, SameLocals
  <2>3. /\ call.at # 7 => call'.out = call.out
        /\ call.at < 9 => call'.der = call.der
    BY <1>1, <1>2, <1>4, ConnectSteps
    DEF SessionEffect, EntropyEffect, KeyTypeEffect, StartEffect, FindEffect, ReadEffect,
        HandshakeEffect, Step, SameOut, SameSignature, SameLocals
  <2>4. call.at = 6 => Found("cert")'
    <3>1. call.at = 6 => call'.handle = (IF token["cert"] # None THEN "cert" ELSE None)
      BY <1>1, <1>2, <1>4, ConnectSteps DEF FindEffect, Step
    <3>2. QED
      BY <2>1, <3>1 DEF Found, Objects
  <2>5. call.at = 7 => call'.out = token["cert"]
    BY <1>1, <1>2, <1>4 DEF ReadEffect, Connecting, Found
  <2>6. call.at = 9 => (call'.der # None => call'.out # None)
    BY <1>1, <1>2, <1>4
    DEF HandshakeEffect, Connecting, SameOut, SameLocals, SameSignature
  <2>7. QED
    BY <1>1, <1>4, <2>1, <2>2, <2>3, <2>4, <2>5, <2>6 DEF Connecting, Stepped
<1>5. CASE call.at = 10
  <2>1. Ended /\ reply'.status = call.status /\ token' = token /\ (Succeeds => tls' = tls)
    BY <1>2, <1>5 DEF EstablishedEffect, Succeeds
  <2>2. Connecting'
    BY <2>1 DEF Ended, Idle, Connecting
  <2>3. RepliesMatch'
    BY <1>1, <1>5, <2>1 DEF Ended, RepliesMatch, Connecting, Succeeds
  <2>4. QED
    BY <2>2, <2>3
<1>6. QED
  BY <1>1, <1>3, <1>4, <1>5

(***************************************************************************)
(* What the rest of the invariant needs of the place a command has come    *)
(* to.                                                                     *)
(***************************************************************************)
AtPlace ==
    /\ GeneratingKey /\ GeneratingCsr /\ GeneratingCert /\ ImportingCert /\ ImportingKey
    /\ ExportingCert /\ ExportingKey /\ Connecting

Placed ==
    /\ Now.do = "session" => call.session = None
    /\ Now.do = "context" => pk = NoContext /\ call.session \in Sessions
    /\ Now.do = "start" => tls = None
    /\ Now.do = "established" /\ Succeeds => call.session = None
    /\ Now.do = "generate" => token["pub"] = None
    /\ Now.do = "create" => Now.object \in {"cert", "code"} /\ call.out \in Held

LEMMA Placing ==
  ASSUME Shape, AtPlace, Running
  PROVE  Placed
<1> USE DEF Placed, Step
<1>1. CASE call.command = "generate_key"
  BY <1>1, GenerateKeySteps DEF AtPlace, GeneratingKey, SessionUntil
<1>2. CASE call.command = "generate_csr"
  BY <1>2, GenerateCsrSteps DEF AtPlace, GeneratingCsr, ContextFrom
<1>3. CASE call.command = "generate_cert"
  <2>1. call.at \in 1 .. 13
    BY <1>3 DEF AtPlace, GeneratingCert
  <2>2. CASE call.at \in 1 .. 5
    BY <1>3, <2>1, <2>2, GenerateCertSteps DEF AtPlace, GeneratingCert, ContextFrom
  <2>3. CASE call.at \in 6 .. 13
    BY <1>3, <2>1, <2>3, GenerateCertSteps DEF AtPlace, GeneratingCert
  <2>4. QED
    BY <2>1, <2>2, <2>3
<1>4. CASE call.command = "import_cert"
  BY <1>4, ImportCertSteps DEF AtPlace, ImportingCert, SessionUntil
<1>5. CASE call.command = "import_key"
  BY <1>5, ImportKeySteps DEF AtPlace, ImportingKey, SessionUntil
<1>6. CASE call.command = "export_cert"
  BY <1>6, ExportCertSteps DEF AtPlace, ExportingCert
<1>7. CASE call.command = "export_key"
  BY <1>7, ExportKeySteps DEF AtPlace, ExportingKey, SessionUntil
<1>8. CASE call.command = "connect"
  BY <1>8, ConnectSteps DEF AtPlace, Connecting
<1>9. QED
  BY <1>1, <1>2, <1>3, <1>4, <1>5, <1>6, <1>7, <1>8 DEF Shape, Running, Program

\* A command goes on or ends, whatever its step.
LEMMA CommandStays ==
  ASSUME DOMAIN call = Fields, Running, Next
  PROVE  DOMAIN call' = Fields /\ call'.command \in {call.command, None}
<1>1. ASSUME Ended \/ Reset PROVE DOMAIN call' = Fields /\ call'.command = None
  BY <1>1 DEF Ended, Reset, Idle, Fields
<1>2. ASSUME FailedHere \/ Failed("close") \/ Stepped
      PROVE  DOMAIN call' = Fields /\ call'.command = call.command
  BY <1>2 DEF FailedHere, Failed, Stepped
<1>3. ASSUME CloseEffect PROVE DOMAIN call' = Fields /\ call'.command \in {call.command, None}
  BY <1>1, <1>3 DEF CloseEffect
<1>4. QED
  BY <1>1, <1>2, <1>3, StepDoes
  DEF SessionEffect, FindEffect, DestroyEffect, PointEffect, CreateEffect, GenerateEffect,
      GeneratePublicEffect, ReadEffect, KeyTypeEffect, EntropyEffect, ContextEffect,
      SignEffect, StartEffect, HandshakeEffect, EstablishedEffect, FreeEffect

\* Every command keeps what holds at its steps, and what it answers is right.
LEMMA PlaceKept ==
  ASSUME Shape, AtPlace, Running, Next, ~Reset
  PROVE  AtPlace' /\ (call'.command = None => RepliesMatch')
<1>1. call'.command \in {call.command, None}
  BY CommandStays DEF Shape
<1>2. None \notin {"generate_key", "generate_csr", "generate_cert", "import_cert",
                   "import_key", "export_cert", "export_key", "connect"}
  BY NoneIsNothingElse
<1>3. ASSUME NEW command, call'.command \in {command, None}
      PROVE  /\ command # "generate_key" => GeneratingKey'
             /\ command # "generate_csr" => GeneratingCsr'
             /\ command # "generate_cert" => GeneratingCert'
             /\ command # "import_cert" => ImportingCert'
             /\ command # "import_key" => ImportingKey'
             /\ command # "export_cert" => ExportingCert'
             /\ command # "export_key" => ExportingKey'
             /\ command # "connect" => Connecting'
  BY <1>2, <1>3 DEF GeneratingKey, GeneratingCsr, GeneratingCert, ImportingCert, ImportingKey,
                    ExportingCert, ExportingKey, Connecting
<1>4. call.command \in {"generate_key", "generate_csr", "generate_cert", "import_cert",
                        "import_key", "export_cert", "export_key", "connect"}
  BY DEF Shape, Running, Program
<1>5. QED
  BY <1>1, <1>3, <1>4, GeneratingKeyKept, GeneratingCsrKept, GeneratingCertKept,
     ImportingCertKept, ImportingKeyKept, ExportingCertKept, ExportingKeyKept, ConnectingKept
  DEF AtPlace

(***************************************************************************)
(* Types.                                                                  *)
(***************************************************************************)
LEMMA TokenSet ==
  ASSUME Shape, NEW o, NEW v \in Held \cup {None}, token' = [token EXCEPT ![o] = v]
  PROVE  DOMAIN token' = Objects /\ \A x \in Objects : token'[x] \in Held \cup {None}
BY DEF Shape

LEMMA TokenShape ==
  ASSUME Shape, AtPlace, Running, Next
  PROVE  DOMAIN token' = Objects /\ \A x \in Objects : token'[x] \in Held \cup {None}
<1>1. DOMAIN call = Fields /\ Placed
  BY Placing DEF Shape
<1>2. ASSUME token' = token
      PROVE  DOMAIN token' = Objects /\ \A x \in Objects : token'[x] \in Held \cup {None}
  BY <1>2 DEF Shape
<1>3. CASE DestroyEffect
  BY <1>2, <1>3, TokenSet DEF DestroyEffect
<1>4. CASE Now.do = "create" /\ CreateEffect
  BY <1>1, <1>2, <1>4, TokenSet DEF CreateEffect, Placed
<1>5. CASE GenerateEffect
  <2>1. Key(made + 1, "EC") \in Held
    BY DEF Shape, Key, Held, Algs
  <2>2. QED
    BY <1>2, <1>5, <2>1, TokenSet DEF GenerateEffect
<1>6. CASE GeneratePublicEffect
  <2>1. token["prv"] \in Held \cup {None}
    BY DEF Shape, Objects
  <2>2. QED
    BY <1>2, <1>6, <2>1, TokenSet DEF GeneratePublicEffect
<1>7. QED
  BY <1>1, <1>2, <1>3, <1>4, <1>5, <1>6, StepDoes
  DEF Reset, SessionEffect, FindEffect, PointEffect, ReadEffect, KeyTypeEffect, EntropyEffect,
      ContextEffect, SignEffect, StartEffect, HandshakeEffect, EstablishedEffect, CloseEffect,
      FreeEffect

\* Which actions open and close sessions or generate keys.
LEMMA RestShape ==
  ASSUME Shape, Next
  PROVE  made' \in Nat /\ sessions' \subseteq Sessions
<1>1. made \in Nat /\ sessions \subseteq Sessions
  BY DEF Shape
<1>2. CASE xInitializePkcs11Session
  BY <1>1, <1>2 DEF xInitializePkcs11Session, Kept
<1>3. CASE GenerateKeyPair
  BY <1>1, <1>3 DEF GenerateKeyPair
<1>4. CASE C_CloseSession \/ lPKCS11PkMbedtlsCloseSessionAndFree
  BY <1>1, <1>4 DEF C_CloseSession, lPKCS11PkMbedtlsCloseSessionAndFree, CloseAnything
<1>5. CASE prvFreeContext \/ TLS_Cleanup \/ Reset
  BY <1>1, <1>5 DEF prvFreeContext, TLS_Cleanup, Reset
<1>6. CASE pki \/ p11_ecdsa_ctx_init \/ p11_rsa_ctx_init \/ HandshakeStarted
  BY <1>1, <1>6 DEF pki, Begin, p11_ecdsa_ctx_init, p11_rsa_ctx_init, HandshakeStarted
<1>7. CASE \/ xFindObjectWithLabelAndClass \/ C_DestroyObject \/ WritePoint \/ C_CreateObject
           \/ GeneratePublicKey \/ xPrvExportPubKeyDer \/ prvReadCertificateIntoContext
           \/ KeyType \/ p11_ecdsa_sign \/ p11_rsa_sign \/ prvEntropyCallback
           \/ prvPrivateKeySigningCallback
  BY <1>1, <1>7
  DEF xFindObjectWithLabelAndClass, C_DestroyObject, WritePoint, C_CreateObject,
      GeneratePublicKey, xPrvExportPubKeyDer, prvReadCertificateIntoContext, KeyType,
      p11_ecdsa_sign, p11_rsa_sign, prvEntropyCallback, prvPrivateKeySigningCallback,
      Quiet, Kept
<1>8. QED
  BY <1>2, <1>3, <1>4, <1>5, <1>6, <1>7, Zenon DEF Next

\* A command starts with nothing but its argument.
LEMMA BeginStarts ==
  ASSUME NEW command, NEW out, Begin(command, out)
  PROVE  /\ DOMAIN call' = Fields /\ call'.command = command /\ call'.at = 1
         /\ call'.session = None /\ call'.handle = None /\ call'.status = "PKI_SUCCESS"
         /\ call'.out = out /\ call'.raw = None /\ call'.der = None
         /\ command = "connect" => tls = None
         /\ ~Running /\ reply' = NoReply
         /\ UNCHANGED <<token, sessions, pk, tls, made, leaked, undefined>>
BY DEF Begin, Idle, Fields

LEMMA BeginKept ==
  ASSUME Shape, Resting, pki
  PROVE  Shape' /\ AtPlace' /\ call'.command # None
<1> USE NoneIsNothingElse
<1>1. PICK command, out :
        /\ command \in DOMAIN Program /\ Begin(command, out)
        /\ command \in {"import_cert", "import_key"} => out \in Held
        /\ command \notin {"import_cert", "import_key"} => out = None
  <2>1. ASSUME NEW n \in 0 .. made PROVE Cert(n) \in Held
    BY DEF Cert, Key, Held, Shape
  <2>2. ASSUME NEW alg \in Algs PROVE Key(0, alg) \in Held
    BY DEF Key, Held
  <2>3. "import_cert" \in DOMAIN Program /\ "import_key" \in DOMAIN Program
    BY DEF Program
  <2>4. QED
    BY <2>1, <2>2, <2>3 DEF pki
<1>2. /\ DOMAIN call' = Fields /\ call'.command = command /\ call'.at = 1
      /\ call'.session = None /\ call'.status = "PKI_SUCCESS"
      /\ call'.out = out /\ call'.der = None
      /\ command = "connect" => tls = None
      /\ call.command = None
      /\ UNCHANGED <<token, sessions, pk, tls, made>>
  BY <1>1, BeginStarts DEF Running
<1>3. pk = NoContext
  BY <1>2 DEF Resting
<1>4. Shape'
  BY <1>1, <1>2 DEF Shape
<1>5. command # None
  BY <1>1 DEF Program
<1>6. GeneratingKey' /\ GeneratingCsr' /\ GeneratingCert'
  BY <1>1, <1>2, <1>3 DEF GeneratingKey, GeneratingCsr, GeneratingCert, ContextFrom, SessionUntil
<1>7. ImportingCert' /\ ImportingKey'
  BY <1>1, <1>2, <1>3 DEF ImportingCert, ImportingKey, SessionUntil
<1>8. ExportingCert' /\ ExportingKey' /\ Connecting'
  BY <1>1, <1>2, <1>3 DEF ExportingCert, ExportingKey, Connecting, SessionUntil
<1>9. QED
  BY <1>2, <1>4, <1>5, <1>6, <1>7, <1>8 DEF AtPlace

(***************************************************************************)
(* The keys.                                                               *)
(***************************************************************************)
LEMMA KeysMatchKept ==
  ASSUME Shape, AtPlace, KeysMatch, Running, Next
  PROVE  KeysMatch'
<1>1. DOMAIN call = Fields /\ Placed /\ DOMAIN token = Objects
  BY Placing DEF Shape
<1>2. ASSUME token' = token PROVE KeysMatch'
  BY <1>2 DEF KeysMatch
<1>3. CASE DestroyEffect
  <2>1. CASE token' = [token EXCEPT ![call.handle] = None]
    BY <1>1, <2>1 DEF KeysMatch, Objects
  <2>2. QED
    BY <1>2, <1>3, <2>1 DEF DestroyEffect
<1>4. CASE Now.do = "create" /\ CreateEffect
  <2>1. CASE token' = [token EXCEPT ![Now.object] = call.out]
    <3>1. token'["prv"] = token["prv"] /\ token'["pub"] = token["pub"]
      BY <1>1, <1>4, <2>1 DEF Placed, Objects
    <3>2. QED
      BY <3>1 DEF KeysMatch
  <2>2. QED
    BY <1>2, <1>4, <2>1 DEF CreateEffect
<1>5. CASE Now.do = "generate" /\ GenerateEffect
  <2>1. CASE token' = [token EXCEPT !["prv"] = Key(made + 1, "EC")]
    <3>1. token'["pub"] = None
      BY <1>1, <1>5, <2>1 DEF Placed, Objects
    <3>2. QED
      BY <3>1 DEF KeysMatch
  <2>2. QED
    BY <1>2, <1>5, <2>1 DEF GenerateEffect
<1>6. CASE GeneratePublicEffect
  BY <1>1, <1>2, <1>6 DEF GeneratePublicEffect, KeysMatch, Objects
<1>7. QED
  BY <1>1, <1>2, <1>3, <1>4, <1>5, <1>6, StepDoes
  DEF Reset, SessionEffect, FindEffect, PointEffect, ReadEffect, KeyTypeEffect, EntropyEffect,
      ContextEffect, SignEffect, StartEffect, HandshakeEffect, EstablishedEffect, CloseEffect,
      FreeEffect

(***************************************************************************)
(* The sessions.                                                           *)
(***************************************************************************)
Accounts ==
    \A s \in Sessions :
        /\ s \in sessions <=> (s = call.session \/ s = pk.session \/ s = tls \/ s \in leaked)
        /\ s = call.session => s # pk.session /\ s # tls /\ s \notin leaked
        /\ s = pk.session => s # tls /\ s \notin leaked
        /\ s = tls => s \notin leaked

LEMMA AccountsAccounted == SessionsAccounted <=> (~undefined => Accounts)
<1>1. /\ DOMAIN Owned = {"function", "context", "connection", "nobody"}
      /\ Owned["function"] = {call.session} /\ Owned["context"] = {pk.session}
      /\ Owned["connection"] = {tls} /\ Owned["nobody"] = leaked
  BY DEF Owned
<1>2. ASSUME NEW s \in Sessions
      PROVE  (\E o \in DOMAIN Owned : s \in Owned[o])
                <=> (s = call.session \/ s = pk.session \/ s = tls \/ s \in leaked)
  BY <1>1
<1>3. ASSUME NEW s \in Sessions
      PROVE  (\A o, p \in DOMAIN Owned : s \in Owned[o] /\ s \in Owned[p] => o = p)
                <=> /\ s = call.session => s # pk.session /\ s # tls /\ s \notin leaked
                    /\ s = pk.session => s # tls /\ s \notin leaked
                    /\ s = tls => s \notin leaked
  BY <1>1
<1>4. QED
  BY <1>2, <1>3 DEF SessionsAccounted, Accounts

\* Steps that touch neither the sessions nor who holds them.
SameOwners ==
    /\ sessions' = sessions /\ call'.session = call.session /\ pk' = pk /\ tls' = tls
    /\ leaked' = leaked /\ undefined' = undefined

LEMMA QuietOwners ==
  ASSUME DOMAIN call = Fields,
         \/ xFindObjectWithLabelAndClass \/ C_DestroyObject \/ WritePoint \/ C_CreateObject
         \/ GenerateKeyPair \/ GeneratePublicKey \/ xPrvExportPubKeyDer
         \/ prvReadCertificateIntoContext \/ KeyType \/ p11_ecdsa_sign \/ p11_rsa_sign
         \/ prvEntropyCallback \/ prvPrivateKeySigningCallback
  PROVE  SameOwners
<1>1. sessions' = sessions /\ pk' = pk /\ tls' = tls /\ leaked' = leaked /\ undefined' = undefined
  BY DEF xFindObjectWithLabelAndClass, C_DestroyObject, WritePoint, C_CreateObject,
      GenerateKeyPair, GeneratePublicKey, xPrvExportPubKeyDer, prvReadCertificateIntoContext,
      KeyType, p11_ecdsa_sign, p11_rsa_sign, prvEntropyCallback, prvPrivateKeySigningCallback,
      Quiet, Kept
<1>2. SameSession
  BY FindDoes, DestroyDoes, PointDoes, CreateDoes, GenerateDoes, GeneratePublicDoes, ExportDoes,
     ValueDoes, KeyTypeDoes, SignDoes, EntropyDoes, HandshakeDoes
  DEF FindEffect, DestroyEffect, PointEffect, CreateEffect, GenerateEffect,
      GeneratePublicEffect, ReadEffect, KeyTypeEffect, SignEffect, EntropyEffect,
      HandshakeEffect, FailedHere, SameLocals
<1>3. QED
  BY <1>1, <1>2 DEF SameOwners, SameSession

LEMMA AccountsKept ==
  ASSUME Shape, AtPlace, Resting, ~undefined => Accounts, Next
  PROVE  ~undefined' => Accounts'
<1> USE NoneIsNothingElse
<1>1. DOMAIN call = Fields /\ sessions \subseteq Sessions /\ (Running => Placed)
  BY Placing DEF Shape
<1>2. ASSUME SameOwners PROVE ~undefined' => Accounts'
  BY <1>2 DEF SameOwners, Accounts
<1>3. CASE \/ xFindObjectWithLabelAndClass \/ C_DestroyObject \/ WritePoint \/ C_CreateObject
           \/ GenerateKeyPair \/ GeneratePublicKey \/ xPrvExportPubKeyDer
           \/ prvReadCertificateIntoContext \/ KeyType \/ p11_ecdsa_sign \/ p11_rsa_sign
           \/ prvEntropyCallback \/ prvPrivateKeySigningCallback
  <2>1. SameOwners
    BY <1>1, <1>3, QuietOwners, Zenon
  <2>2. QED
    BY <1>2, <2>1
<1>4. CASE pki
  <2>1. call = Idle
    BY <1>4 DEF pki, Begin, Running, Resting
  <2>2. call'.session = None
    BY <1>4, BeginStarts DEF pki
  <2>3. UNCHANGED <<sessions, pk, tls, leaked, undefined>>
    BY <1>4 DEF pki, Begin
  <2>4. QED
    BY <2>1, <2>2, <2>3 DEF Accounts, Idle
<1>5. CASE xInitializePkcs11Session
  <2>1. call.session = None
    BY <1>1, <1>5 DEF xInitializePkcs11Session, Does, Placed
  <2>2. pk' = pk /\ tls' = tls /\ leaked' = leaked /\ undefined' = undefined
    BY <1>5 DEF xInitializePkcs11Session, Kept
  <2>3. CASE \E s \in Sessions : /\ FirstFree(s)
                                 /\ sessions' = sessions \cup {s}
                                 /\ Proceed([call EXCEPT !.session = s])
    <3>1. PICK s \in Sessions : /\ s \notin sessions /\ sessions' = sessions \cup {s}
                                /\ call'.session = s
      BY <1>1, <2>3, SteppedBy, SessionStep DEF FirstFree
    <3>2. QED
      BY <2>1, <2>2, <3>1 DEF Accounts
  <2>4. CASE /\ sessions' = sessions
             /\ \E rv \in (xGetSlotList \cup prvOpenSession) \ {"CKR_OK"} :
                  IF Now.then # "close_uninitialized" THEN Fail(rv)
                  ELSE call' = [FailedAt("close", rv) EXCEPT !.session = Uninitialized]
    <3>1. call'.session \in {None, Uninitialized}
      <4>1. ASSUME NEW rv \in (xGetSlotList \cup prvOpenSession) \ {"CKR_OK"}, Fail(rv)
            PROVE  call'.session = None
        BY <1>1, <2>1, <4>1, FailureFails DEF FailedHere, SameSession
      <4>2. ASSUME NEW rv \in (xGetSlotList \cup prvOpenSession) \ {"CKR_OK"},
                   call' = [FailedAt("close", rv) EXCEPT !.session = Uninitialized]
            PROVE  call'.session = Uninitialized
        <5>1. PICK c : c = FailedAt("close", rv)
          OBVIOUS
        <5>2. DOMAIN c = Fields
          BY <1>1, <5>1, FailedBy
        <5>3. QED
          BY <4>2, <5>1, <5>2 DEF Fields
      <4>3. QED
        BY <2>4, <4>1, <4>2
    <3>2. None \notin Sessions /\ Uninitialized \notin Sessions
      BY DEF Sessions, Uninitialized
    <3>3. QED
      BY <2>1, <2>2, <2>4, <3>1, <3>2 DEF Accounts
  <2>5. QED
    BY <1>5, <2>3, <2>4 DEF xInitializePkcs11Session
<1>6. CASE p11_ecdsa_ctx_init \/ p11_rsa_ctx_init
  <2>1. pk = NoContext /\ call.session \in Sessions
    BY <1>1, <1>6 DEF p11_ecdsa_ctx_init, p11_rsa_ctx_init, Does, Placed
  <2>2. sessions' = sessions /\ tls' = tls /\ undefined' = undefined
    BY <1>6 DEF p11_ecdsa_ctx_init, p11_rsa_ctx_init
  <2>3. \/ pk'.session = call.session /\ call'.session = None /\ leaked' = leaked
        \/ pk'.session = None /\ call'.session = None /\ leaked' = leaked \cup {call.session}
        \/ pk' = pk /\ call'.session = call.session /\ leaked' = leaked
    BY <1>1, <1>6, SessionStep, AnyhowFails, FailureFails
    DEF p11_ecdsa_ctx_init, p11_rsa_ctx_init, FailedHere, SameSession
  <2>4. pk.session = None
    BY <2>1 DEF NoContext
  <2>5. QED
    BY <2>1, <2>2, <2>3, <2>4 DEF Accounts
<1>7. CASE HandshakeStarted
  <2>1. tls = None
    BY <1>1, <1>7 DEF HandshakeStarted, Does, Placed
  <2>2. /\ sessions' = sessions /\ tls' = call.session /\ pk' = pk /\ leaked' = leaked
        /\ undefined' = undefined /\ call'.session = None
    BY <1>1, <1>7, SessionStep DEF HandshakeStarted
  <2>3. QED
    BY <2>1, <2>2 DEF Accounts
<1>8. CASE prvFreeContext
  <2>1. Succeeds => call.session = None
    BY <1>1, <1>8 DEF prvFreeContext, Does, Placed
  <2>2. call'.session = None /\ pk' = pk /\ undefined' = undefined
    BY <1>8 DEF prvFreeContext, Finish, Idle
  <2>3. \/ /\ call.session = None /\ tls' = tls /\ sessions' = sessions /\ leaked' = leaked
        \/ /\ tls' = None /\ sessions' = sessions \ {tls}
           /\ leaked' = leaked \cup ({call.session} \ {None})
    BY <1>8, <2>1 DEF prvFreeContext, Succeeds
  <2>4. QED
    BY <2>2, <2>3 DEF Accounts
<1>9. CASE TLS_Cleanup
  BY <1>9 DEF TLS_Cleanup, Accounts
<1>10. CASE C_CloseSession
  <2>1. pk' = pk /\ tls' = tls /\ leaked' = leaked
    BY <1>10 DEF C_CloseSession
  <2>2. call'.session = None
    <3>1. PICK c : c = [call EXCEPT !.session = None,
                           !.status = IF Now.object = "status" /\ call.session # None
                                      THEN "PKI_SUCCESS" ELSE @]
      OBVIOUS
    <3>2. DOMAIN c = Fields /\ c.session = None /\ GoOn(c)
      BY <1>1, <1>10, <3>1 DEF Fields, C_CloseSession
    <3>3. QED
      BY <3>2, SteppedBy DEF GoOn, Finish, Idle
  <2>3. CASE call.session = Uninitialized
    BY <1>10, <2>3 DEF C_CloseSession, CloseAnything
  <2>4. CASE call.session # Uninitialized
    <3>1. sessions' = sessions \ ({call.session} \ {None}) /\ undefined' = undefined
      BY <1>10, <2>4 DEF C_CloseSession, Closing
    <3>2. QED
      BY <2>1, <2>2, <3>1 DEF Accounts
  <2>5. QED
    BY <2>3, <2>4
<1>11. CASE lPKCS11PkMbedtlsCloseSessionAndFree
  <2>1. /\ tls' = tls /\ leaked' = leaked \cup ({call.session} \ {None})
        /\ pk'.session = None /\ call'.session = None
    BY <1>11 DEF lPKCS11PkMbedtlsCloseSessionAndFree, NoContext, Finish, Idle
  <2>2. CASE pk = NoContext
    BY <1>11, <2>2 DEF lPKCS11PkMbedtlsCloseSessionAndFree, CloseAnything
  <2>3. CASE pk # NoContext
    <3>1. sessions' = sessions \ {pk.session} /\ undefined' = undefined
      BY <1>11, <2>3 DEF lPKCS11PkMbedtlsCloseSessionAndFree
    <3>2. QED
      BY <2>1, <3>1 DEF Accounts
  <2>4. QED
    BY <2>2, <2>3
<1>12. CASE Reset
  BY <1>12 DEF Reset, Idle, NoContext, Accounts
<1>13. QED
  BY <1>3, <1>4, <1>5, <1>6, <1>7, <1>8, <1>9, <1>10, <1>11, <1>12, Zenon DEF Next

(***************************************************************************)
(* The signatures.  Both ways of writing one give the same octets, which   *)
(* the way back finds again.                                               *)
(***************************************************************************)
Pad(octets) == IF Negative(octets) THEN 1 ELSE 0

IsInteger(number, octets) ==
    LET p == Pad(octets)
    IN  /\ number \in Seq(Nat) /\ Len(number) = 2 + Width + p
        /\ number[1] = 2 /\ number[2] = Width + p
        /\ p = 1 => number[3] = 0
        /\ \A j \in (3 + p) .. (2 + p + Width) : number[j] = octets[j - (2 + p)]

IsSignature(der, raw) ==
    LET p == Pad(raw[1])  q == Pad(raw[2])
    IN  /\ der \in Seq(Nat) /\ Len(der) = 6 + 2 * Width + p + q
        /\ der[1] = 48 /\ der[2] = 4 + 2 * Width + p + q
        /\ der[3] = 2 /\ der[4] = Width + p
        /\ p = 1 => der[5] = 0
        /\ \A j \in (5 + p) .. (4 + p + Width) : der[j] = raw[1][j - (4 + p)]
        /\ der[5 + Width + p] = 2 /\ der[6 + Width + p] = Width + q
        /\ q = 1 => der[7 + Width + p] = 0
        /\ \A j \in (7 + Width + p + q) .. (6 + 2 * Width + p + q) :
              der[j] = raw[2][j - (6 + Width + p + q)]

LEMMA OctetsProperties ==
  ASSUME NEW octets \in Octets
  PROVE  /\ octets \in Seq(Nat) /\ Len(octets) = Width /\ Width \in Int /\ Width >= 1
         /\ Pad(octets) \in Int /\ Pad(octets) \in {0, 1}
         /\ Pad(octets) = 0 => octets[1] < 128
<1>1. Width \in 1 .. 123
  BY PkiPkcs11Assumption
<1>2. octets \in [1 .. Width -> 0 .. 255]
  BY DEF Octets
<1>3. octets \in [1 .. Width -> Nat]
  <2>1. \A i \in 1 .. Width : octets[i] \in 0 .. 255
    BY <1>2
  <2>2. \A i \in 1 .. Width : octets[i] \in Nat
    BY <2>1
  <2>3. QED
    BY <1>2, <2>2
<1>4. octets[1] \in 0 .. 255
  BY <1>1, <1>2
<1>5. octets \in Seq(Nat)
  BY <1>1, <1>3, SeqDef
<1>6. Len(octets) = Width
  BY <1>1, <1>3
<1>7. QED
  BY <1>1, <1>4, <1>5, <1>6 DEF Pad, Negative

LEMMA Prefixed ==
  ASSUME NEW x \in Nat, NEW y \in Nat, NEW s \in Seq(Nat), NEW t, t = <<x, y>> \o s
  PROVE  /\ t \in Seq(Nat) /\ Len(t) = 2 + Len(s) /\ t[1] = x /\ t[2] = y
         /\ \A j \in 3 .. (2 + Len(s)) : t[j] = s[j - 2]
<1>1. <<x, y>> \in Seq(Nat) /\ Len(<<x, y>>) = 2
  OBVIOUS
<1>2. QED
  BY <1>1, ConcatProperties

LEMMA Joined ==
  ASSUME NEW m \in Seq(Nat), NEW n \in Seq(Nat), NEW t, t = m \o n
  PROVE  /\ t \in Seq(Nat) /\ Len(t) = Len(m) + Len(n)
         /\ \A j \in 1 .. Len(m) : t[j] = m[j]
         /\ \A j \in (Len(m) + 1) .. (Len(m) + Len(n)) : t[j] = n[j - Len(m)]
<1>1. /\ t \in Seq(Nat) /\ Len(t) = Len(m) + Len(n)
      /\ \A i \in 1 .. Len(m) + Len(n) : t[i] = IF i <= Len(m) THEN m[i] ELSE n[i - Len(m)]
  BY ConcatProperties
<1>2. Len(m) \in Nat /\ Len(n) \in Nat
  BY LenProperties
<1>3. QED
  BY <1>1, <1>2

LEMMA IntegerIsInteger ==
  ASSUME NEW octets \in Octets
  PROVE  IsInteger(Integer(octets), octets)
<1>1. PICK p : p = Pad(octets)
  OBVIOUS
<1>2. /\ octets \in Seq(Nat) /\ Len(octets) = Width /\ Width \in Int /\ Width >= 1
      /\ p \in Int /\ p \in {0, 1}
  BY <1>1, OctetsProperties
<1>3. PICK padded : padded = IF Negative(octets) THEN <<0>> \o octets ELSE octets
  OBVIOUS
<1>4. /\ padded \in Seq(Nat) /\ Len(padded) = Width + p
      /\ p = 1 => padded[1] = 0
      /\ \A j \in (1 + p) .. (Width + p) : padded[j] = octets[j - p]
  BY <1>1, <1>2, <1>3 DEF Pad
<1>5. PICK number : number = Integer(octets)
  OBVIOUS
<1>6. number = <<2, Len(padded)>> \o padded
  BY <1>3, <1>5 DEF Integer
<1>7. /\ number \in Seq(Nat) /\ Len(number) = 2 + Len(padded)
      /\ number[1] = 2 /\ number[2] = Len(padded)
      /\ \A j \in 3 .. (2 + Len(padded)) : number[j] = padded[j - 2]
  BY <1>2, <1>4, <1>6, Prefixed
<1>8. p = 1 => number[3] = 0
  BY <1>2, <1>4, <1>7
<1>9. \A j \in (3 + p) .. (2 + p + Width) : number[j] = octets[j - (2 + p)]
  BY <1>2, <1>4, <1>7, SMTT(20)
<1>10. QED
  BY <1>1, <1>2, <1>4, <1>5, <1>7, <1>8, <1>9 DEF IsInteger

LEMMA JoinedIsSignature ==
  ASSUME NEW raw \in Octets \X Octets, NEW m, NEW n, NEW der, NEW length,
         IsInteger(m, raw[1]), IsInteger(n, raw[2]),
         length = 4 + 2 * Width + Pad(raw[1]) + Pad(raw[2]),
         der = <<48, length>> \o (m \o n)
  PROVE  IsSignature(der, raw)
<1>1. PICK p, q : p = Pad(raw[1]) /\ q = Pad(raw[2])
  OBVIOUS
<1>2. p \in Int /\ q \in Int /\ p \in {0, 1} /\ q \in {0, 1} /\ Width \in Int /\ Width >= 1
  BY <1>1, OctetsProperties
<1>3. /\ m \in Seq(Nat) /\ Len(m) = 2 + Width + p /\ m[1] = 2 /\ m[2] = Width + p
      /\ p = 1 => m[3] = 0
      /\ \A j \in (3 + p) .. (2 + p + Width) : m[j] = raw[1][j - (2 + p)]
  BY <1>1 DEF IsInteger
<1>4. /\ n \in Seq(Nat) /\ Len(n) = 2 + Width + q /\ n[1] = 2 /\ n[2] = Width + q
      /\ q = 1 => n[3] = 0
      /\ \A j \in (3 + q) .. (2 + q + Width) : n[j] = raw[2][j - (2 + q)]
  BY <1>1 DEF IsInteger
<1>5. length = 4 + 2 * Width + p + q /\ length \in Nat
  BY <1>1, <1>2, SMTT(20)
<1>6. PICK mn : mn = m \o n
  OBVIOUS
<1>7. /\ mn \in Seq(Nat) /\ Len(mn) = 4 + 2 * Width + p + q
      /\ \A j \in 1 .. (2 + Width + p) : mn[j] = m[j]
      /\ \A j \in (3 + Width + p) .. (4 + 2 * Width + p + q) : mn[j] = n[j - (2 + Width + p)]
  <2>1. /\ mn \in Seq(Nat) /\ Len(mn) = Len(m) + Len(n)
        /\ \A j \in 1 .. Len(m) : mn[j] = m[j]
        /\ \A j \in (Len(m) + 1) .. (Len(m) + Len(n)) : mn[j] = n[j - Len(m)]
    <3>1. m \in Seq(Nat) /\ n \in Seq(Nat)
      BY <1>3, <1>4
    <3>2. QED
      BY ONLY <1>6, <3>1, Joined
  <2>2. /\ Len(m) + Len(n) = 4 + 2 * Width + p + q /\ Len(m) + 1 = 3 + Width + p
        /\ Len(m) = 2 + Width + p
    BY <1>2, <1>3, <1>4
  <2>3. QED
    BY <2>1, <2>2
<1>8. /\ der \in Seq(Nat) /\ Len(der) = 6 + 2 * Width + p + q
      /\ der[1] = 48 /\ der[2] = length
      /\ \A j \in 3 .. (6 + 2 * Width + p + q) : der[j] = mn[j - 2]
  <2>1. /\ der \in Seq(Nat) /\ Len(der) = 2 + Len(mn)
        /\ der[1] = 48 /\ der[2] = length
        /\ \A j \in 3 .. (2 + Len(mn)) : der[j] = mn[j - 2]
    <3>1. mn \in Seq(Nat) /\ length \in Nat /\ 48 \in Nat /\ der = <<48, length>> \o mn
      BY <1>5, <1>6, <1>7
    <3>2. QED
      BY ONLY <3>1, Prefixed
  <2>2. 2 + Len(mn) = 6 + 2 * Width + p + q
    BY <1>2, <1>7
  <2>3. QED
    BY <2>1, <2>2
<1>9. ASSUME NEW j \in 3 .. (4 + Width + p), NEW k, k = j - 2
      PROVE  der[j] = m[k]
  <2>1. j \in 3 .. (6 + 2 * Width + p + q) /\ j - 2 \in 1 .. (2 + Width + p)
    BY <1>2
  <2>2. QED
    BY <1>7, <1>8, <1>9, <2>1
<1>10. ASSUME NEW j \in (5 + Width + p) .. (6 + 2 * Width + p + q),
              NEW k, k = j - (4 + Width + p)
       PROVE  der[j] = n[k]
  <2>1. /\ j \in 3 .. (6 + 2 * Width + p + q)
        /\ j - 2 \in (3 + Width + p) .. (4 + 2 * Width + p + q)
        /\ j - 2 - (2 + Width + p) = j - (4 + Width + p)
    BY <1>2
  <2>2. QED
    BY <1>7, <1>8, <1>10, <2>1
<1>11. der[3] = 2 /\ der[4] = Width + p /\ (p = 1 => der[5] = 0)
  <2>1. /\ 3 \in 3 .. (4 + Width + p) /\ 1 = 3 - 2
        /\ 4 \in 3 .. (4 + Width + p) /\ 2 = 4 - 2
        /\ p = 1 => 5 \in 3 .. (4 + Width + p)
        /\ 3 = 5 - 2
    BY <1>2
  <2>2. der[3] = m[1]
    BY <1>9, <2>1
  <2>3. der[4] = m[2]
    BY <1>9, <2>1
  <2>4. p = 1 => der[5] = m[3]
    BY <1>9, <2>1
  <2>5. QED
    BY <1>3, <2>2, <2>3, <2>4
<1>12. /\ der[5 + Width + p] = 2 /\ der[6 + Width + p] = Width + q
       /\ q = 1 => der[7 + Width + p] = 0
  <2>1. PICK a, b, c : a = 5 + Width + p /\ b = 6 + Width + p /\ c = 7 + Width + p
    OBVIOUS
  <2>2. /\ a \in (5 + Width + p) .. (6 + 2 * Width + p + q) /\ 1 = a - (4 + Width + p)
        /\ b \in (5 + Width + p) .. (6 + 2 * Width + p + q) /\ 2 = b - (4 + Width + p)
        /\ q = 1 => c \in (5 + Width + p) .. (6 + 2 * Width + p + q)
        /\ 3 = c - (4 + Width + p)
    BY ONLY <1>2, <2>1
  <2>3. der[a] = n[1]
    BY <1>10, <2>2
  <2>4. der[b] = n[2]
    BY <1>10, <2>2
  <2>5. q = 1 => der[c] = n[3]
    BY <1>10, <2>2
  <2>6. QED
    BY <1>4, <2>1, <2>3, <2>4, <2>5
<1>13. ASSUME NEW j \in (5 + p) .. (4 + p + Width)
       PROVE  der[j] = raw[1][j - (4 + p)]
  <2>1. /\ j \in 3 .. (4 + Width + p) /\ j - 2 \in (3 + p) .. (2 + p + Width)
        /\ j - 2 - (2 + p) = j - (4 + p)
    BY <1>2
  <2>2. PICK k : k = j - 2
    OBVIOUS
  <2>3. der[j] = m[k] /\ k \in (3 + p) .. (2 + p + Width) /\ k - (2 + p) = j - (4 + p)
    BY <1>9, <2>1, <2>2
  <2>4. QED
    BY ONLY <1>3, <2>3
<1>14. ASSUME NEW j \in (7 + Width + p + q) .. (6 + 2 * Width + p + q)
       PROVE  der[j] = raw[2][j - (6 + Width + p + q)]
  <2>1. /\ j \in (5 + Width + p) .. (6 + 2 * Width + p + q)
        /\ j - (4 + Width + p) \in (3 + q) .. (2 + q + Width)
        /\ j - (4 + Width + p) - (2 + q) = j - (6 + Width + p + q)
    BY <1>2
  <2>2. PICK k : k = j - (4 + Width + p)
    OBVIOUS
  <2>3. /\ der[j] = n[k] /\ k \in (3 + q) .. (2 + q + Width)
        /\ k - (2 + q) = j - (6 + Width + p + q)
    BY <1>10, <2>1, <2>2
  <2>4. QED
    BY ONLY <1>4, <2>3
<1>15. QED
  BY <1>1, <1>5, <1>8, <1>11, <1>12, <1>13, <1>14 DEF IsSignature

\* The number read at place i is the one that was written there.
LEMMA NumberAtFinds ==
  ASSUME NEW der \in Seq(Nat), NEW i \in Int, NEW octets \in Octets,
         NEW p, p = Pad(octets), i >= 1,
         i + Width + p <= Len(der), der[i] = Width + p,
         \A j \in (i + p + 1) .. (i + p + Width) : der[j] = octets[j - (i + p)]
  PROVE  NumberAt(der, i) = octets
<1>1. /\ octets \in Seq(Nat) /\ Len(octets) = Width /\ Width \in Int /\ Width >= 1
      /\ p \in Int /\ p \in {0, 1}
  BY OctetsProperties
<1>2. PICK first, last : first = i + p + 1 /\ last = i + p + Width
  OBVIOUS
<1>3. first \in Int /\ last \in Int /\ last - first + 1 = Width /\ first <= last /\ first >= 1
  <2>1. i \in Int /\ i >= 1 /\ p \in Int /\ p \in {0, 1} /\ Width \in Int /\ Width >= 1
    BY <1>1
  <2>2. QED
    BY ONLY <1>2, <2>1
<1>4. PICK read : read = SubSeq(der, first, last)
  OBVIOUS
<1>5. read \in Seq(Nat) /\ Len(read) = Width /\ \A j \in 1 .. Width : read[j] = der[first + j - 1]
  <2>1. \A k \in first .. last : der[k] \in Nat
    <3>1. \A k \in 1 .. Len(der) : der[k] \in Nat
      BY ElementOfSeq
    <3>2. last <= Len(der) /\ Len(der) \in Nat
      BY <1>1, <1>2, LenProperties
    <3>3. QED
      BY <1>3, <3>1, <3>2
  <2>2. /\ read \in Seq(Nat)
        /\ Len(read) = IF first <= last THEN last - first + 1 ELSE 0
        /\ \A j \in 1 .. last - first + 1 : read[j] = der[first + j - 1]
    BY <1>3, <1>4, <2>1, SubSeqProperties
  <2>3. QED
    BY <1>3, <2>2
<1>6. ASSUME NEW j \in 1 .. Width
      PROVE  read[j] = octets[j]
  <2>1. PICK k : k = first + j - 1
    OBVIOUS
  <2>2. k \in (i + p + 1) .. (i + p + Width) /\ k - (i + p) = j
    <3>1. i \in Int /\ p \in Int /\ Width \in Int /\ j \in Int /\ j >= 1 /\ j <= Width
      BY <1>1
    <3>2. QED
      BY ONLY <1>2, <2>1, <3>1
  <2>3. read[j] = der[k]
    BY <1>5, <2>1
  <2>4. der[k] = octets[k - (i + p)]
    BY <2>2
  <2>5. QED
    BY ONLY <2>2, <2>3, <2>4
<1>7. read = octets
  BY <1>1, <1>5, <1>6, SeqEqual
<1>8. CASE p = 1
  <2>1. first = i + 2 /\ last = i + 1 + Width /\ der[i] = Width + 1
    BY <1>1, <1>2, <1>8
  <2>2. QED
    BY <1>4, <1>7, <2>1 DEF NumberAt
<1>9. CASE p = 0
  <2>1. /\ first = i + 1 /\ last = i + Width /\ der[i] = Width /\ Width # Width + 1
        /\ Width - der[i] = 0
    BY <1>1, <1>2, <1>9
  <2>2. NumberAt(der, i) = Zeros(0) \o read
    BY <1>4, <2>1 DEF NumberAt
  <2>3. Zeros(0) \o octets = octets
    BY <1>1, ConcatEmptySeq DEF Zeros
  <2>4. QED
    BY <1>7, <2>2, <2>3
<1>10. QED
  BY <1>1, <1>8, <1>9

LEMMA SignatureDecodes ==
  ASSUME NEW raw \in Octets \X Octets, NEW der, IsSignature(der, raw)
  PROVE  IsDer(der) /\ PKI_mbedTLSSignatureToPkcs11Signature(der) = raw
<1>1. PICK p, q : p = Pad(raw[1]) /\ q = Pad(raw[2])
  OBVIOUS
<1>2. p \in Int /\ q \in Int /\ p \in {0, 1} /\ q \in {0, 1} /\ Width \in Int /\ Width >= 1
  BY <1>1, OctetsProperties
<1>3. /\ raw[1] \in Octets /\ raw[2] \in Octets /\ raw = <<raw[1], raw[2]>>
      /\ p = 0 => raw[1][1] < 128
      /\ q = 0 => raw[2][1] < 128
  BY <1>1, OctetsProperties
<1>4. /\ der \in Seq(Nat) /\ Len(der) = 6 + 2 * Width + p + q
      /\ der[1] = 48 /\ der[2] = 4 + 2 * Width + p + q
      /\ der[3] = 2 /\ der[4] = Width + p
      /\ p = 1 => der[5] = 0
      /\ der[5 + Width + p] = 2 /\ der[6 + Width + p] = Width + q
      /\ q = 1 => der[7 + Width + p] = 0
  BY <1>1 DEF IsSignature
<1>5. /\ \A j \in (5 + p) .. (4 + p + Width) : der[j] = raw[1][j - (4 + p)]
      /\ \A j \in (7 + Width + p + q) .. (6 + 2 * Width + p + q) :
            der[j] = raw[2][j - (6 + Width + p + q)]
  BY <1>1 DEF IsSignature
<1>6. PICK next : next = 6 + Width + p
  OBVIOUS
<1>7. NumberAt(der, 4) = raw[1]
  <2>1. 4 + Width + p <= Len(der) /\ 4 + p + 1 = 5 + p /\ 4 \in Int /\ 4 >= 1
    BY <1>2, <1>4
  <2>2. \A j \in (4 + p + 1) .. (4 + p + Width) : der[j] = raw[1][j - (4 + p)]
    BY <1>5, <2>1
  <2>3. der \in Seq(Nat) /\ raw[1] \in Octets /\ p = Pad(raw[1]) /\ der[4] = Width + p
    BY <1>1, <1>3, <1>4
  <2>4. QED
    BY ONLY <2>1, <2>2, <2>3, NumberAtFinds
<1>8. NumberAt(der, next) = raw[2]
  <2>1. /\ next \in Int /\ next >= 1 /\ next + Width + q <= Len(der) /\ der[next] = Width + q
        /\ next + q + 1 = 7 + Width + p + q /\ next + q + Width = 6 + 2 * Width + p + q
        /\ next + q = 6 + Width + p + q
    BY <1>2, <1>4, <1>6
  <2>2. \A j \in (next + q + 1) .. (next + q + Width) : der[j] = raw[2][j - (next + q)]
    BY <1>5, <2>1
  <2>3. der \in Seq(Nat) /\ raw[2] \in Octets /\ q = Pad(raw[2])
    BY <1>1, <1>3, <1>4
  <2>4. QED
    BY ONLY <2>1, <2>2, <2>3, NumberAtFinds
<1>9. IsDer(der)
  <2>1. der[5] < 128
    <3>1. p = 0 => der[5] = raw[1][1]
      BY <1>2, <1>5
    <3>2. QED
      BY <1>2, <1>3, <1>4, <3>1, SMTT(30)
  <2>2. der[7 + Width + p] < 128
    BY <1>2, <1>3, <1>4, <1>5, SMTT(30)
  <2>3. PICK r : r = der[4]
    OBVIOUS
  <2>4. r = Width + p /\ 5 + r = 5 + Width + p /\ 6 + r = 6 + Width + p /\ 7 + r = 7 + Width + p
    BY <1>2, <1>4, <2>3
  <2>5. /\ der[5 + r] = 2 /\ der[7 + r] < 128 /\ der[6 + r] = Width + q
    BY <1>4, <2>2, <2>4
  <2>6. Len(der) = 6 + r + der[6 + r] /\ der[2] = Len(der) - 2
    BY <1>2, <1>4, <2>4, <2>5
  <2>7. QED
    BY <1>4, <2>1, <2>3, <2>5, <2>6 DEF IsDer
<1>10. PKI_mbedTLSSignatureToPkcs11Signature(der) = <<raw[1], raw[2]>>
  <2>1. (IF der[4] = Width + 1 THEN 7 + Width ELSE 6 + der[4]) = next
    BY <1>2, <1>4, <1>6
  <2>2. ~(der[4] > Width + 1) /\ ~(der[next] > Width + 1)
    BY <1>2, <1>4, <1>6
  <2>3. QED
    BY <1>7, <1>8, <2>1, <2>2 DEF PKI_mbedTLSSignatureToPkcs11Signature
<1>11. QED
  BY <1>3, <1>9, <1>10

\* Both forms give such octets.
LEMMA EcdsaSigned ==
  ASSUME NEW raw \in Octets \X Octets, NEW der, der = prvEcdsaSigToASN1InPlace(raw), der # None
  PROVE  IsSignature(der, raw)
<1>1. PICK m, n, numbers : m = Integer(raw[1]) /\ n = Integer(raw[2]) /\ numbers = m \o n
  OBVIOUS
<1>2. raw[1] \in Octets /\ raw[2] \in Octets
  OBVIOUS
<1>3. IsInteger(m, raw[1]) /\ IsInteger(n, raw[2])
  BY <1>1, <1>2, IntegerIsInteger
<1>4. /\ m \in Seq(Nat) /\ Len(m) = 2 + Width + Pad(raw[1])
      /\ n \in Seq(Nat) /\ Len(n) = 2 + Width + Pad(raw[2])
  BY <1>3 DEF IsInteger
<1>5. Len(numbers) = Len(m) + Len(n)
  BY <1>1, <1>4, Joined
<1>6. Len(numbers) = 4 + 2 * Width + Pad(raw[1]) + Pad(raw[2])
  <2>1. Width \in Int /\ Pad(raw[1]) \in Int /\ Pad(raw[2]) \in Int
    BY <1>2, OctetsProperties
  <2>2. QED
    BY ONLY <1>4, <1>5, <2>1
<1>7. der = <<48, Len(numbers)>> \o (m \o n)
  BY <1>1 DEF prvEcdsaSigToASN1InPlace
<1>8. QED
  BY <1>3, <1>6, <1>7, JoinedIsSignature

LEMMA PaddedIsInteger ==
  ASSUME NEW octets \in Octets, NEW p, p = Pad(octets), NEW number,
         number = <<2, Width + p>> \o Zeros(p) \o octets
  PROVE  IsInteger(number, octets)
<1>1. /\ octets \in Seq(Nat) /\ Len(octets) = Width /\ Width \in Int /\ Width >= 1
      /\ p \in Int /\ p \in {0, 1}
  BY OctetsProperties
<1>2. PICK zeros, padded : zeros = Zeros(p) /\ padded = zeros \o octets
  OBVIOUS
<1>3. zeros \in Seq(Nat) /\ Len(zeros) = p /\ (p = 1 => zeros[1] = 0)
  <2>1. p \in Nat /\ zeros \in [1 .. p -> Nat]
    BY <1>1, <1>2 DEF Zeros
  <2>2. zeros \in Seq(Nat)
    BY <2>1, SeqDef
  <2>3. QED
    BY <1>2, <2>1, <2>2 DEF Zeros
<1>4. number = <<2, Width + p>> \o padded
  <2>1. <<2, Width + p>> \in Seq(Nat)
    BY <1>1
  <2>2. QED
    BY <1>1, <1>2, <1>3, <2>1, ConcatAssociative, SMTT(30)
<1>5. /\ padded \in Seq(Nat) /\ Len(padded) = Width + p
      /\ p = 1 => padded[1] = 0
      /\ \A j \in (1 + p) .. (Width + p) : padded[j] = octets[j - p]
  <2>1. /\ padded \in Seq(Nat) /\ Len(padded) = Len(zeros) + Len(octets)
        /\ \A j \in 1 .. Len(zeros) : padded[j] = zeros[j]
        /\ \A j \in (Len(zeros) + 1) .. (Len(zeros) + Len(octets)) :
              padded[j] = octets[j - Len(zeros)]
    <3>1. zeros \in Seq(Nat) /\ octets \in Seq(Nat) /\ padded = zeros \o octets
      BY <1>1, <1>2, <1>3
    <3>2. QED
      BY ONLY <3>1, Joined
  <2>2. Len(zeros) = p /\ Len(octets) = Width /\ p + Width = Width + p /\ p + 1 = 1 + p
    BY <1>1, <1>3
  <2>3. \A j \in (1 + p) .. (Width + p) : padded[j] = octets[j - p]
    BY ONLY <2>1, <2>2
  <2>4. p = 1 => padded[1] = 0
    BY <1>3, <2>1, <2>2
  <2>5. QED
    BY <2>1, <2>2, <2>3, <2>4
<1>6. /\ number \in Seq(Nat) /\ Len(number) = 2 + Len(padded)
      /\ number[1] = 2 /\ number[2] = Width + p
      /\ \A j \in 3 .. (2 + Len(padded)) : number[j] = padded[j - 2]
  <2>1. 2 \in Nat /\ Width + p \in Nat /\ padded \in Seq(Nat)
    BY <1>1, <1>5
  <2>2. QED
    BY ONLY <1>4, <2>1, Prefixed
<1>7. p = 1 => number[3] = 0
  BY <1>1, <1>5, <1>6
<1>8. ASSUME NEW j \in (3 + p) .. (2 + p + Width)
      PROVE  number[j] = octets[j - (2 + p)]
  <2>1. PICK k : k = j - 2
    OBVIOUS
  <2>2. k \in (1 + p) .. (Width + p) /\ j \in 3 .. (2 + (Width + p)) /\ k - p = j - (2 + p)
    BY <1>1, <2>1, SMTT(20)
  <2>3. number[j] = padded[k]
    BY ONLY <1>5, <1>6, <2>1, <2>2, SMTT(30)
  <2>4. padded[k] = octets[k - p]
    BY <1>5, <2>2
  <2>5. QED
    BY ONLY <2>2, <2>3, <2>4
<1>9. Len(number) = 2 + Width + p
  BY ONLY <1>1, <1>5, <1>6
<1>10. QED
  BY <1>6, <1>7, <1>8, <1>9 DEF IsInteger

LEMMA TlsSigned ==
  ASSUME NEW raw \in Octets \X Octets, NEW der, der = PKI_pkcs11SignatureTombedTLSSignature(raw)
  PROVE  IsSignature(der, raw)
<1>1. PICK p, q : p = Pad(raw[1]) /\ q = Pad(raw[2])
  OBVIOUS
<1>2. PICK m, n : /\ m = <<2, Width + p>> \o Zeros(p) \o raw[1]
                  /\ n = <<2, Width + q>> \o Zeros(q) \o raw[2]
  OBVIOUS
<1>3. PICK length : length = 2 * Width + 4 + p + q
  OBVIOUS
<1>4. der = <<48, length>> \o m \o n
  BY <1>1, <1>2, <1>3 DEF PKI_pkcs11SignatureTombedTLSSignature, Pad
<1>5. raw[1] \in Octets /\ raw[2] \in Octets
  OBVIOUS
<1>6. IsInteger(m, raw[1]) /\ IsInteger(n, raw[2])
  BY <1>1, <1>2, <1>5, PaddedIsInteger
<1>7. m \in Seq(Nat) /\ n \in Seq(Nat)
  BY <1>6 DEF IsInteger
<1>8. length = 4 + 2 * Width + Pad(raw[1]) + Pad(raw[2]) /\ length \in Nat
  <2>1. Width \in Int /\ Width >= 1 /\ p \in {0, 1} /\ q \in {0, 1}
    BY <1>1, <1>5, OctetsProperties
  <2>2. length = 4 + 2 * Width + p + q /\ length \in Nat
    BY ONLY <1>3, <2>1
  <2>3. QED
    BY <1>1, <2>2
<1>9. der = <<48, length>> \o (m \o n)
  <2>1. <<48, length>> \in Seq(Nat)
    BY <1>8
  <2>2. QED
    BY <1>4, <1>7, <2>1, ConcatAssociative, SMTT(20)
<1>10. QED
  BY <1>6, <1>8, <1>9, JoinedIsSignature

(***************************************************************************)
(* What is handed to mbedTLS decodes, and is what the reply holds.         *)
(***************************************************************************)
LEMMA SignedDecodes ==
  ASSUME NEW raw \in RawSignatures, NEW c, c.raw = raw,
         \/ c.der = prvEcdsaSigToASN1InPlace(raw)
         \/ c.der = PKI_pkcs11SignatureTombedTLSSignature(raw)
  PROVE  Decodes(c)
<1>1. raw \in Octets \X Octets
  BY PkiPkcs11Assumption
<1>2. QED
  BY <1>1, EcdsaSigned, TlsSigned, SignatureDecodes DEF Decodes

\* A command that is not over has not replied.
LEMMA ReplyWaits ==
  ASSUME DOMAIN call = Fields, Running, Next, ~Reset
  PROVE  reply' = reply \/ Ended
<1>1. ~pki /\ ~TLS_Cleanup
  BY DEF pki, Begin, TLS_Cleanup
<1>2. CASE C_CloseSession
  <2>1. PICK c : c = [call EXCEPT !.session = None,
                         !.status = IF Now.object = "status" /\ call.session # None
                                    THEN "PKI_SUCCESS" ELSE @]
    OBVIOUS
  <2>2. c.command = call.command /\ c.out = call.out /\ c.raw = call.raw /\ c.der = call.der
    BY <2>1 DEF Fields
  <2>3. GoOn(c)
    BY <1>2, <2>1 DEF C_CloseSession
  <2>4. QED
    BY <2>2, <2>3 DEF GoOn, Finish, Ended
<1>3. CASE lPKCS11PkMbedtlsCloseSessionAndFree \/ prvFreeContext
  BY <1>3, FreeDoes, EstablishedDoes DEF FreeEffect, EstablishedEffect
<1>4. CASE xInitializePkcs11Session \/ p11_ecdsa_ctx_init \/ p11_rsa_ctx_init \/ HandshakeStarted
           \/ GenerateKeyPair
  BY <1>4 DEF xInitializePkcs11Session, p11_ecdsa_ctx_init, p11_rsa_ctx_init, HandshakeStarted,
              GenerateKeyPair
<1>5. CASE \/ xFindObjectWithLabelAndClass \/ C_DestroyObject \/ WritePoint \/ C_CreateObject
           \/ GeneratePublicKey \/ xPrvExportPubKeyDer \/ prvReadCertificateIntoContext
           \/ KeyType \/ p11_ecdsa_sign \/ p11_rsa_sign \/ prvEntropyCallback
           \/ prvPrivateKeySigningCallback
  BY <1>5
  DEF xFindObjectWithLabelAndClass, C_DestroyObject, WritePoint, C_CreateObject,
      GeneratePublicKey, xPrvExportPubKeyDer, prvReadCertificateIntoContext, KeyType,
      p11_ecdsa_sign, p11_rsa_sign, prvEntropyCallback, prvPrivateKeySigningCallback,
      Quiet, Kept
<1>6. QED
  BY <1>1, <1>2, <1>3, <1>4, <1>5, Zenon DEF Next

LEMMA DecodesKept ==
  ASSUME DOMAIN call = Fields, Running, Next, Decodes(call), Decodes(reply)
  PROVE  Decodes(call') /\ Decodes(reply')
<1> USE NoneIsNothingElse
<1>1. ASSUME SameSignature PROVE Decodes(call')
  BY <1>1 DEF SameSignature, Decodes
<1>2. ASSUME Ended PROVE Decodes(call') /\ Decodes(reply')
  BY <1>2 DEF Ended, Idle, Decodes
<1>3. ASSUME Reset PROVE Decodes(call') /\ Decodes(reply')
  BY <1>3 DEF Reset, Idle, NoReply, Decodes
<1>4. ASSUME SignEffect PROVE Decodes(call')
  <2>1. ASSUME NEW raw \in RawSignatures, call'.raw = raw,
               call'.der = prvEcdsaSigToASN1InPlace(raw)
        PROVE  Decodes(call')
    BY <2>1, SignedDecodes
  <2>2. QED
    BY <1>1, <1>4, <2>1 DEF SignEffect, FailedHere, Failed
<1>5. ASSUME HandshakeEffect PROVE Decodes(call')
  <2>1. ASSUME NEW raw \in RawSignatures, call'.raw = raw,
               call'.der = PKI_pkcs11SignatureTombedTLSSignature(raw)
        PROVE  Decodes(call')
    BY <2>1, SignedDecodes
  <2>2. QED
    BY <1>1, <1>5, <2>1 DEF HandshakeEffect, FailedHere, Failed, SameLocals
<1>6. ASSUME CloseEffect \/ FreeEffect \/ EstablishedEffect PROVE Decodes(call')
  BY <1>1, <1>2, <1>6 DEF CloseEffect, FreeEffect, EstablishedEffect
<1>7. Decodes(call')
  BY <1>1, <1>3, <1>4, <1>5, <1>6, StepDoes
  DEF SessionEffect, FindEffect, DestroyEffect, PointEffect, CreateEffect, GenerateEffect,
      GeneratePublicEffect, ReadEffect, KeyTypeEffect, EntropyEffect, ContextEffect,
      StartEffect, SameLocals, FailedHere, Failed
<1>8. Decodes(reply')
  BY <1>2, <1>3, ReplyWaits
<1>9. QED
  BY <1>7, <1>8

(***************************************************************************)
(* The whole invariant.                                                    *)
(***************************************************************************)

\* When a command is over, its key context is freed.
LEMMA RestingKept ==
  ASSUME Shape, AtPlace, Running, Next
  PROVE  Resting'
<1>1. DOMAIN call = Fields /\ call.command # None
  BY DEF Shape, Running
<1>2. CASE Reset \/ FreeEffect
  BY <1>2 DEF Reset, FreeEffect, Ended, Resting
<1>3. CASE (Now.do = "established" /\ EstablishedEffect) \/ (Now.do = "close" /\ CloseEffect)
  <2>1. (call'.command = None => call' = Idle) /\ pk' = pk
    BY <1>1, <1>3 DEF EstablishedEffect, CloseEffect, Ended
  <2>2. CASE call.command \notin {"generate_csr", "generate_cert"}
    <3>1. pk = NoContext
      BY <2>2 DEF Shape, Running, Program, AtPlace, GeneratingKey, ImportingCert, ImportingKey,
                  ExportingCert, ExportingKey, Connecting
    <3>2. QED
      BY <2>1, <3>1 DEF Resting
  <2>3. CASE call.command = "generate_csr"
    <3>1. Now.do \notin {"established", "close"}
      BY <2>3, GenerateCsrSteps DEF AtPlace, GeneratingCsr, Step
    <3>2. QED
      BY <1>3, <3>1
  <2>4. CASE call.command = "generate_cert"
    <3>1. call.at \in 1 .. 13
      BY <2>4 DEF AtPlace, GeneratingCert
    <3>2. Len(Program[call.command]) = 13 /\ Now.do # "established"
      BY <2>4, <3>1, GenerateCertSteps DEF Step
    <3>3. call.at # 13
      BY <1>3, <2>4, <3>1, GenerateCertSteps DEF Step
    <3>4. call'.command # None
      BY <1>1, <1>3, <3>2, <3>3 DEF CloseEffect
    <3>5. QED
      BY <3>4 DEF Resting
  <2>5. QED
    BY <2>2, <2>3, <2>4
<1>4. CASE Stepped \/ FailedHere \/ Failed("close")
  BY <1>1, <1>4 DEF Stepped, FailedHere, Failed, Resting
<1>5. QED
  BY <1>1, <1>2, <1>3, <1>4, StepDoes
  DEF SessionEffect, FindEffect, DestroyEffect, PointEffect, CreateEffect, GenerateEffect,
      GeneratePublicEffect, ReadEffect, KeyTypeEffect, EntropyEffect, ContextEffect,
      SignEffect, StartEffect, HandshakeEffect

LEMMA AtPlaceAtRest ==
  ASSUME call.command = None
  PROVE  AtPlace
BY NoneIsNothingElse
DEF AtPlace, GeneratingKey, GeneratingCsr, GeneratingCert, ImportingCert, ImportingKey,
    ExportingCert, ExportingKey, Connecting

LEMMA InitPkiInv == Init => PkiInv
<1> USE NoneIsNothingElse
<1> SUFFICES ASSUME Init PROVE PkiInv
  OBVIOUS
<1>1. PICK prv \in {None} \cup {Key(0, alg) : alg \in Algs} :
         token = [o \in Objects |-> IF o = "prv" THEN prv ELSE None]
  BY DEF Init
<1>2. /\ sessions = {} /\ call = Idle /\ pk = NoContext /\ tls = None
      /\ reply = NoReply /\ made = 0 /\ leaked = {} /\ undefined = FALSE
  BY DEF Init
<1>3. call.command = None /\ call.session = None /\ call.der = None /\ pk.session = None
  BY <1>2 DEF Idle, NoContext
<1>4. Shape
  <2>1. prv \in Held \cup {None}
    BY <1>1 DEF Key, Held
  <2>2. DOMAIN call = Fields
    BY <1>2 DEF Idle, Fields
  <2>3. QED
    BY <1>1, <1>2, <1>3, <2>1, <2>2 DEF Shape
<1>5. AtPlace /\ Resting
  BY <1>2, <1>3, AtPlaceAtRest DEF Resting
<1>6. KeysMatch
  BY <1>1 DEF KeysMatch, Objects
<1>7. Answered /\ Decodes(reply) /\ Decodes(call)
  BY <1>2, <1>3 DEF NoReply, Answered, RepliesMatch, Decodes
<1>8. SessionsAccounted
  BY <1>2, <1>3, AccountsAccounted DEF Accounts
<1>9. QED
  BY <1>4, <1>5, <1>6, <1>7, <1>8 DEF PkiInv, AtPlace

\* The sessions, for every step.
LEMMA SessionsAccountedKept ==
  ASSUME PkiInv, Next
  PROVE  SessionsAccounted'
<1>1. ~undefined => Accounts
  BY AccountsAccounted DEF PkiInv
<1>2. ~undefined' => Accounts'
  BY <1>1, AccountsKept DEF PkiInv, AtPlace
<1>3. (SessionsAccounted <=> (~undefined => Accounts))'
  BY AccountsAccounted, PTL
<1>4. QED
  BY <1>2, <1>3

LEMMA RunningKeepsPkiInv ==
  ASSUME PkiInv, Next, Running, ~Reset
  PROVE  PkiInv'
<1>1. Shape /\ AtPlace /\ Resting /\ KeysMatch /\ Answered /\ Decodes(call) /\ Decodes(reply)
  BY DEF PkiInv, AtPlace
<1>2. DOMAIN call = Fields
  BY <1>1 DEF Shape
<1>3. Shape'
  BY <1>1, <1>2, CommandStays, TokenShape, RestShape DEF Shape
<1>4. AtPlace' /\ (call'.command = None => RepliesMatch')
  BY <1>1, PlaceKept
<1>5. Resting' /\ KeysMatch' /\ Decodes(call') /\ Decodes(reply')
  BY <1>1, <1>2, RestingKept, KeysMatchKept, DecodesKept
<1>6. Answered'
  <2>1. CASE Ended
    BY <1>4, <2>1 DEF Ended, Idle, Answered, Running
  <2>2. CASE reply' = reply
    BY <1>1, <2>2, NoneIsNothingElse DEF Answered, NoReply, RepliesMatch
  <2>3. QED
    BY <1>2, <2>1, <2>2, ReplyWaits
<1>7. SessionsAccounted'
  BY SessionsAccountedKept
<1>8. QED
  BY <1>3, <1>4, <1>5, <1>6, <1>7 DEF PkiInv, AtPlace

\* At rest a command may begin or the connection be closed; the device may be
\* reset at any time.
LEMMA RestKeepsPkiInv ==
  ASSUME PkiInv, Next, ~Running \/ Reset
  PROVE  PkiInv'
<1>1. Shape /\ Resting /\ KeysMatch
  BY DEF PkiInv
<1>2. SessionsAccounted'
  BY SessionsAccountedKept
<1>3. CASE pki
  <2>1. Shape' /\ AtPlace' /\ call'.command # None
    BY <1>1, <1>3, BeginKept
  <2>2. call'.der = None /\ reply' = NoReply /\ token' = token
    BY <1>3, BeginStarts DEF pki
  <2>3. Answered' /\ Decodes(reply')
    BY <2>2, NoneIsNothingElse DEF NoReply, Answered, RepliesMatch, Decodes
  <2>4. Resting' /\ KeysMatch' /\ Decodes(call')
    BY <1>1, <2>1, <2>2 DEF Resting, KeysMatch, Decodes
  <2>5. QED
    BY <1>2, <2>1, <2>3, <2>4 DEF PkiInv, AtPlace
<1>4. CASE TLS_Cleanup \/ Reset
  <2>1. call' = Idle /\ pk' = NoContext
    BY <1>1, <1>4 DEF TLS_Cleanup, Reset, Resting, Running
  <2>2. token' = token /\ made' = made /\ reply' = NoReply /\ sessions' \subseteq Sessions
    BY <1>1, <1>4 DEF TLS_Cleanup, Reset, Shape
  <2>3. /\ call'.command = None /\ call'.der = None /\ DOMAIN call' = Fields
    BY <2>1 DEF Idle, Fields
  <2>4. Answered' /\ Decodes(reply')
    BY <2>2, NoneIsNothingElse DEF NoReply, Answered, RepliesMatch, Decodes
  <2>5. Shape' /\ Resting' /\ KeysMatch' /\ Decodes(call')
    BY <1>1, <2>1, <2>2, <2>3 DEF Shape, Resting, KeysMatch, Decodes
  <2>6. AtPlace'
    BY <2>3, NoneIsNothingElse
    DEF AtPlace, GeneratingKey, GeneratingCsr, GeneratingCert, ImportingCert, ImportingKey,
        ExportingCert, ExportingKey, Connecting
  <2>7. QED
    BY <1>2, <2>4, <2>5, <2>6 DEF PkiInv, AtPlace
<1>5. Running \/ pki \/ TLS_Cleanup \/ Reset
  BY DEF Next, Does, xInitializePkcs11Session, xFindObjectWithLabelAndClass, C_DestroyObject,
         WritePoint, C_CreateObject, GenerateKeyPair, GeneratePublicKey, xPrvExportPubKeyDer,
         prvReadCertificateIntoContext, KeyType, p11_ecdsa_ctx_init, p11_rsa_ctx_init,
         p11_ecdsa_sign, p11_rsa_sign, prvEntropyCallback, HandshakeStarted,
         prvPrivateKeySigningCallback, prvFreeContext, C_CloseSession,
         lPKCS11PkMbedtlsCloseSessionAndFree
<1>6. QED
  BY <1>3, <1>4, <1>5

LEMMA StepKeepsPkiInv == PkiInv /\ [Next]_vars => PkiInv'
<1> SUFFICES ASSUME PkiInv, [Next]_vars PROVE PkiInv'
  OBVIOUS
<1>1. CASE Next
  BY <1>1, RunningKeepsPkiInv, RestKeepsPkiInv
<1>2. CASE UNCHANGED vars
  BY <1>2
  DEF vars, PkiInv, Shape, Resting, GeneratingKey, GeneratingCsr, GeneratingCert, ContextFrom,
      ImportingCert, ImportingKey, ExportingCert, ExportingKey, Connecting, SessionUntil, Found,
      Succeeds, KeysMatch, Answered, Running, RepliesMatch, Decodes, SessionsAccounted, Owned
<1>3. QED
  BY <1>1, <1>2

LEMMA PkiInvHolds == Spec => []PkiInv
BY InitPkiInv, StepKeepsPkiInv, PTL DEF Spec

(***************************************************************************)
(* The theorems.                                                           *)
(***************************************************************************)

\* No session of the token is lost or closed twice: in every state an open one
\* has exactly one owner that closes it (the function running, the key context,
\* the TLS context) or is among those known to be left open, and no owner holds
\* a closed one.  It holds for any number of sessions, any failing of the
\* token's functions, and resets between any two of them.
THEOREM PkiSessionsAccounted == Spec => []SessionsAccounted
<1>1. PkiInv => SessionsAccounted
  BY DEF PkiInv
<1>2. QED
  BY <1>1, PkiInvHolds, PTL

\* What the commands hand out agrees with the token: the keys of the pair
\* belong together, a success reports what is stored, and each signature is a
\* well-formed DER sequence that decodes to the numbers the token made, for
\* numbers of any width the encoding allows.
THEOREM PkiCredentialsSound == Spec => []CredentialsAreSound
<1>1. PkiInv => CredentialsAreSound
  BY DEF PkiInv, Answered, Decodes, CredentialsAreSound, SignaturesDecode
<1>2. QED
  BY <1>1, PkiInvHolds, PTL

(***************************************************************************)
(* The keys of a device that keeps them in PSA crypto.  PairMatches alone  *)
(* is not inductive: a new private key is generated beside whatever is     *)
(* stored as the public key.  What saves it is the order of the calls of   *)
(* xPkiGenerateECKeypair: where it generates, the old public key is gone,  *)
(* and no other command runs in between that could bring it back.          *)
(***************************************************************************)
Shapes == DOMAIN keys = Device!KeyIds /\ "at" \in DOMAIN dev

OldPublicGone == dev.at = "generate" => keys[Device!PSA_TLS_PUB_KEY_ID] = Device!NoKey

PairInv == Shapes /\ OldPublicGone /\ Device!PairMatches

\* The key store and the progress of xPkiGenerateECKeypair, all that the
\* invariant reads.
Untouched == keys' = keys /\ dev'.at # "generate" /\ "at" \in DOMAIN dev'

LEMMA UntouchedKeeps ==
  ASSUME PairInv, Untouched
  PROVE  PairInv'
BY DEF PairInv, Shapes, OldPublicGone, Device!PairMatches, Untouched

\* The task is back in io_readline.
LEMMA IdleIsUntouched ==
  ASSUME keys' = keys, dev' = Device!IdleDevice
  PROVE  Untouched
BY DEF Untouched, Device!IdleDevice

LEMMA InitPair == Device!Init => PairInv
BY DEF Device!Init, Device!PkiInit, Device!IdleDevice, PairInv, Shapes, OldPublicGone,
       Device!PairMatches, Device!KeyIds, Device!PSA_TLS_PRV_KEY_ID,
       Device!PSA_TLS_PUB_KEY_ID, Device!OTA_SIGNING_KEY_ID

(***************************************************************************)
(* The calls of xPkiGenerateECKeypair.                                     *)
(***************************************************************************)
LEMMA DestroyPrvKeyKeeps ==
  ASSUME PairInv, Device!DestroyPrvKey
  PROVE  PairInv'
<1>1. /\ dev' = [dev EXCEPT !.at = "destroy_pub"]
      /\ keys' = [keys EXCEPT ![Device!PSA_TLS_PRV_KEY_ID] = Device!NoKey]
  BY DEF Device!DestroyPrvKey, Device!KeyStep, Device!DestroyPrivate, Device!psa_destroy_key
<1>2. DOMAIN keys = Device!KeyIds /\ "at" \in DOMAIN dev
  BY DEF PairInv, Shapes
<1>3. Shapes' /\ OldPublicGone'
  BY <1>1, <1>2 DEF Shapes, OldPublicGone
<1>4. keys'[Device!PSA_TLS_PRV_KEY_ID] = Device!NoKey
  BY <1>1, <1>2 DEF Device!KeyIds
<1>5. QED
  BY <1>3, <1>4 DEF PairInv, Device!PairMatches

LEMMA DestroyPubKeyKeeps ==
  ASSUME PairInv, Device!DestroyPubKey
  PROVE  PairInv'
<1>1. /\ dev' = [dev EXCEPT !.at = "generate"]
      /\ keys' = [keys EXCEPT ![Device!PSA_TLS_PUB_KEY_ID] = Device!NoKey]
  BY DEF Device!DestroyPubKey, Device!KeyStep, Device!DestroyPublic, Device!psa_destroy_key
<1>2. DOMAIN keys = Device!KeyIds /\ "at" \in DOMAIN dev
  BY DEF PairInv, Shapes
<1>3. keys'[Device!PSA_TLS_PUB_KEY_ID] = Device!NoKey
  BY <1>1, <1>2 DEF Device!KeyIds
<1>4. Shapes'
  BY <1>1, <1>2 DEF Shapes
<1>5. QED
  BY <1>3, <1>4 DEF PairInv, OldPublicGone, Device!PairMatches

LEMMA GenerateKeyKeeps ==
  ASSUME PairInv, Device!GenerateKey
  PROVE  PairInv'
<1>1. /\ dev.at = "generate"
      /\ dev' = [dev EXCEPT !.at = "import_pub"]
      /\ keys' = [keys EXCEPT ![Device!PSA_TLS_PRV_KEY_ID] =
                    Device!Key(pairs + 1, "secp256r1", TRUE)]
  BY DEF Device!GenerateKey, Device!KeyStep, Device!psa_generate_key
<1>2. DOMAIN keys = Device!KeyIds /\ "at" \in DOMAIN dev
  BY DEF PairInv, Shapes
<1>3. keys[Device!PSA_TLS_PUB_KEY_ID] = Device!NoKey
  BY <1>1 DEF PairInv, OldPublicGone
<1>4. keys'[Device!PSA_TLS_PUB_KEY_ID] = keys[Device!PSA_TLS_PUB_KEY_ID]
  BY <1>1, <1>2 DEF Device!KeyIds, Device!PSA_TLS_PRV_KEY_ID, Device!PSA_TLS_PUB_KEY_ID
<1>5. Shapes' /\ OldPublicGone'
  BY <1>1, <1>2 DEF Shapes, OldPublicGone
<1>6. QED
  BY <1>3, <1>4, <1>5 DEF PairInv, Device!PairMatches

LEMMA ImportPubKeyKeeps ==
  ASSUME PairInv, Device!ImportPubKey
  PROVE  PairInv'
<1>1. /\ dev' = Device!IdleDevice
      /\ keys' = [keys EXCEPT ![Device!PSA_TLS_PUB_KEY_ID] =
                    Device!Key(keys[Device!PSA_TLS_PRV_KEY_ID].n, "secp256r1", FALSE)]
  BY DEF Device!ImportPubKey, Device!ImportPublic
<1>2. DOMAIN keys = Device!KeyIds
  BY DEF PairInv, Shapes
<1>3. Shapes' /\ OldPublicGone'
  BY <1>1, <1>2 DEF Shapes, OldPublicGone, Device!IdleDevice
<1>4. /\ keys'[Device!PSA_TLS_PRV_KEY_ID] = keys[Device!PSA_TLS_PRV_KEY_ID]
      /\ keys'[Device!PSA_TLS_PUB_KEY_ID] =
            Device!Key(keys[Device!PSA_TLS_PRV_KEY_ID].n, "secp256r1", FALSE)
  BY <1>1, <1>2 DEF Device!KeyIds, Device!PSA_TLS_PRV_KEY_ID, Device!PSA_TLS_PUB_KEY_ID
<1>5. Device!PairMatches'
  BY <1>4 DEF Device!PairMatches, Device!Key
<1>6. QED
  BY <1>3, <1>5 DEF PairInv

LEMMA GenerateKeyFailsKeeps ==
  ASSUME PairInv, Device!GenerateKeyFails
  PROVE  PairInv'
<1>1. keys' = keys /\ dev' = Device!IdleDevice
  BY DEF Device!GenerateKeyFails, Device!pkiVars
<1>2. QED
  BY <1>1, IdleIsUntouched, UntouchedKeeps

(***************************************************************************)
(* The commands.  Those that change neither the keys nor the progress of   *)
(* xPkiGenerateECKeypair, and the one that imports the key of the signer   *)
(* under an identifier of its own.                                         *)
(***************************************************************************)
LEMMA QueriesAreUntouched ==
  ASSUME NEW line,
         \/ Device!NotRecognized(line) \/ Device!vSubCommand_GetConfig(line)
         \/ Device!vSubCommand_SetConfig(line) \/ Device!vSubCommand_CommitConfig(line)
         \/ Device!vSubCommand_GenerateCsr(line) \/ Device!vSubCommand_ExportKey(line)
         \/ Device!vSubCommand_ExportCertificate(line)
  PROVE  Untouched
<1>1. keys' = keys
  BY DEF Device!NotRecognized, Device!vSubCommand_GetConfig, Device!vSubCommand_SetConfig,
         Device!vSubCommand_CommitConfig, Device!vSubCommand_GenerateCsr,
         Device!vSubCommand_ExportKey, Device!vSubCommand_ExportCertificate, Device!pkiVars
<1>2. dev' = Device!IdleDevice
  BY DEF Device!NotRecognized, Device!vSubCommand_GetConfig, Device!vSubCommand_SetConfig,
         Device!vSubCommand_CommitConfig, Device!vSubCommand_GenerateCsr,
         Device!vSubCommand_ExportKey, Device!vSubCommand_ExportCertificate, Device!Answers
<1>3. QED
  BY <1>1, <1>2, IdleIsUntouched

LEMMA CertificatesAreUntouched ==
  ASSUME NEW line,
         \/ Device!vSubCommand_GenerateCertificate(line)
         \/ Device!vSubCommand_ImportCertificate(line)
  PROVE  Untouched
<1>1. keys' = keys
  BY DEF Device!vSubCommand_GenerateCertificate, Device!vSubCommand_ImportCertificate,
         Device!pkiVars, Device!xPkiWriteCertificate, Device!lWriteCertificateToPsaPS,
         Device!lWriteObjectToPsaPs
<1>2. dev' = Device!IdleDevice
  BY DEF Device!vSubCommand_GenerateCertificate, Device!vSubCommand_ImportCertificate,
         Device!Answers
<1>3. QED
  BY <1>1, <1>2, IdleIsUntouched

LEMMA StartedIsUntouched ==
  ASSUME NEW line, Device!vSubCommand_GenerateKey(line) \/ Device!vSubCommand_Import(line)
  PROVE  Untouched
<1>1. keys' = keys
  BY DEF Device!vSubCommand_GenerateKey, Device!vSubCommand_Import, Device!pkiVars
<1>2. PICK at \in {"destroy_prv", "pem"} : \E label :
        dev' = [Device!IdleDevice EXCEPT !.at = at, !.label = label]
  BY DEF Device!vSubCommand_GenerateKey, Device!vSubCommand_Import, Device!Goes
<1>3. dev'.at = at /\ "at" \in DOMAIN dev'
  BY <1>2 DEF Device!IdleDevice
<1>4. QED
  BY <1>1, <1>3 DEF Untouched

LEMMA PemIsUntouched ==
  ASSUME PairInv, NEW line, Device!xReadPemFromCliAsDer(line) \/ Device!EmptyPem(line)
  PROVE  Untouched
<1>1. keys' = keys
  BY DEF Device!xReadPemFromCliAsDer, Device!EmptyPem, Device!pkiVars
<1>2. "at" \in DOMAIN dev
  BY DEF PairInv, Shapes
<1>3. CASE Device!xReadPemFromCliAsDer(line)
  <2>1. CASE dev' = Device!IdleDevice
    BY <1>1, <2>1, IdleIsUntouched
  <2>2. CASE \E got : /\ dev.at = "pem"
                      /\ dev' = [dev EXCEPT !.begun = TRUE, !.got = got, !.partial = FALSE]
    BY <1>1, <1>2, <2>2 DEF Untouched
  <2>3. QED
    BY <1>3, <2>1, <2>2
    DEF Device!xReadPemFromCliAsDer, Device!PemGoesOn, Device!PemAborted, Device!Answers
<1>4. CASE Device!EmptyPem(line)
  BY <1>1, <1>2, <1>4 DEF Device!EmptyPem, Untouched
<1>5. QED
  BY <1>3, <1>4

LEMMA ImportSignerKeeps ==
  ASSUME PairInv, NEW line, Device!vSubCommand_ImportPubKey(line)
  PROVE  PairInv'
<1>1. dev' = Device!IdleDevice
  BY DEF Device!vSubCommand_ImportPubKey, Device!Answers
<1>2. CASE keys' = keys
  BY <1>1, <1>2, IdleIsUntouched, UntouchedKeeps
<1>3. CASE Device!xPkiWritePubKey(dev.label, Device!SignerInStore)
  <2>1. dev.label = Device!OTA_SIGNING_KEY_LABEL
    BY DEF Device!vSubCommand_ImportPubKey, Device!IsKeyLabel
  <2>2. Device!xPkiObjectFromLabel(Device!OTA_SIGNING_KEY_LABEL).id = Device!OTA_SIGNING_KEY_ID
    BY DEF Device!xPkiObjectFromLabel, Device!Object, Device!TLS_KEY_PRV_LABEL,
           Device!TLS_KEY_PUB_LABEL, Device!TLS_CERT_LABEL, Device!TLS_ROOT_CA_CERT_LABEL,
           Device!OTA_SIGNING_KEY_LABEL
  <2>3. PICK key : keys' = [keys EXCEPT ![Device!OTA_SIGNING_KEY_ID] = key]
    BY <1>3, <2>1, <2>2 DEF Device!xPkiWritePubKey, Device!lWritePublicKeyToPSACrypto
  <2>4. DOMAIN keys = Device!KeyIds
    BY DEF PairInv, Shapes
  <2>5. /\ keys'[Device!PSA_TLS_PRV_KEY_ID] = keys[Device!PSA_TLS_PRV_KEY_ID]
        /\ keys'[Device!PSA_TLS_PUB_KEY_ID] = keys[Device!PSA_TLS_PUB_KEY_ID]
    BY <2>3, <2>4
    DEF Device!KeyIds, Device!PSA_TLS_PRV_KEY_ID, Device!PSA_TLS_PUB_KEY_ID,
        Device!OTA_SIGNING_KEY_ID
  <2>6. Shapes' /\ OldPublicGone'
    BY <1>1, <2>3, <2>4 DEF Shapes, OldPublicGone, Device!IdleDevice
  <2>7. QED
    BY <2>5, <2>6 DEF PairInv, Device!PairMatches
<1>4. QED
  BY <1>2, <1>3 DEF Device!vSubCommand_ImportPubKey, Device!pkiVars

(***************************************************************************)
(* The task that reads, the host, and the rest of the world.               *)
(***************************************************************************)
LEMMA CliKeeps ==
  ASSUME PairInv, Device!Task_CLI
  PROVE  PairInv'
<1>1. CASE Device!ReadControlC
  BY <1>1
  DEF Device!ReadControlC, Device!pkiVars, PairInv, Shapes, OldPublicGone,
      Device!PairMatches
<1>2. CASE Device!ReadPartial
  <2>1. keys' = keys /\ dev' = [dev EXCEPT !.partial = TRUE]
    BY <1>2 DEF Device!ReadPartial, Device!pkiVars
  <2>2. "at" \in DOMAIN dev
    BY DEF PairInv, Shapes
  <2>3. dev'.at = dev.at /\ "at" \in DOMAIN dev'
    BY <2>1, <2>2
  <2>4. QED
    BY <2>1, <2>3 DEF PairInv, Shapes, OldPublicGone, Device!PairMatches
<1>3. CASE Device!vResetCommand
  <2>1. keys' = keys /\ dev' = Device!IdleDevice
    BY <1>3 DEF Device!vResetCommand, Device!Restart, Device!pkiVars
  <2>2. QED
    BY <2>1, IdleIsUntouched, UntouchedKeeps
<1>4. ASSUME NEW line,
             \/ Device!NotRecognized(line) \/ Device!vSubCommand_GetConfig(line)
             \/ Device!vSubCommand_SetConfig(line) \/ Device!vSubCommand_CommitConfig(line)
             \/ Device!vSubCommand_GenerateKey(line) \/ Device!vSubCommand_GenerateCsr(line)
             \/ Device!vSubCommand_GenerateCertificate(line) \/ Device!vSubCommand_Import(line)
             \/ Device!xReadPemFromCliAsDer(line) \/ Device!vSubCommand_ImportCertificate(line)
             \/ Device!EmptyPem(line) \/ Device!vSubCommand_ImportPubKey(line)
             \/ Device!vSubCommand_ExportKey(line) \/ Device!vSubCommand_ExportCertificate(line)
      PROVE  PairInv'
  <2>1. Untouched \/ Device!vSubCommand_ImportPubKey(line)
    BY <1>4, QueriesAreUntouched, CertificatesAreUntouched, StartedIsUntouched,
       PemIsUntouched, Zenon
  <2>2. QED
    BY <2>1, UntouchedKeeps, ImportSignerKeeps
<1>5. QED
  BY <1>1, <1>2, <1>3, <1>4, DestroyPrvKeyKeeps, DestroyPubKeyKeeps, GenerateKeyKeeps,
     ImportPubKeyKeeps, GenerateKeyFailsKeeps
  DEF Device!Task_CLI

\* The host reaches the keys of the device only through its commands.
LEMMA HostKeeps ==
  ASSUME PairInv,
         \/ Device!HostScript \/ Device!AwsCallFails \/ Device!Killed
         \/ Device!LineDamaged \/ Device!Terminal
  PROVE  PairInv'
<1>1. keys' = keys
  BY DEF Device!HostScript, Device!Open, Device!_send_cmd, Device!Readback,
         Device!_write_pem, Device!ReadPemLine, Device!ReadResponseLine, Device!AnswerEnds,
         Device!CreateCertificate, Device!AttachThingPrincipal, Device!AttachPolicy,
         Device!Complete, Device!Timeout, Device!AwsCall, Device!AwsCallFails,
         Device!Killed, Device!LineDamaged, Device!Terminal, Device!ReadOn,
         Device!ReadAndGiveUp, Device!GiveUp, Device!StartAgain, Device!pkiVars
<1>2. dev' = dev
  BY DEF Device!HostScript, Device!Open, Device!_send_cmd, Device!Readback,
         Device!_write_pem, Device!ReadPemLine, Device!ReadResponseLine, Device!AnswerEnds,
         Device!CreateCertificate, Device!AttachThingPrincipal, Device!AttachPolicy,
         Device!Complete, Device!Timeout, Device!AwsCall, Device!AwsCallFails,
         Device!Killed, Device!LineDamaged, Device!Terminal, Device!ReadOn,
         Device!ReadAndGiveUp, Device!GiveUp, Device!StartAgain
<1>3. "at" \in DOMAIN dev
  BY DEF PairInv, Shapes
<1>4. dev'.at = dev.at /\ "at" \in DOMAIN dev'
  BY <1>2, <1>3
<1>5. QED
  BY <1>1, <1>4 DEF PairInv, Shapes, OldPublicGone, Device!PairMatches

LEMMA StepKeepsPair == PairInv /\ [Device!Next]_(Device!vars) => PairInv'
<1> SUFFICES ASSUME PairInv, [Device!Next]_(Device!vars) PROVE PairInv'
  OBVIOUS
<1>1. CASE Device!Task_CLI
  BY <1>1, CliKeeps
<1>2. CASE \/ Device!HostScript \/ Device!AwsCallFails \/ Device!Killed
           \/ Device!LineDamaged \/ Device!Terminal
  BY <1>2, HostKeeps
<1>3. CASE Device!PowerFails \/ Device!ResetButton
  <2>1. keys' = keys /\ dev' = Device!IdleDevice
    BY <1>3 DEF Device!PowerFails, Device!ResetButton, Device!Restart, Device!pkiVars
  <2>2. QED
    BY <2>1, IdleIsUntouched, UntouchedKeeps
<1>4. CASE UNCHANGED Device!vars
  BY <1>4
  DEF Device!vars, Device!pkiVars, PairInv, Shapes, OldPublicGone, Device!PairMatches
<1>5. QED
  BY <1>1, <1>2, <1>3, <1>4 DEF Device!Next

\* The instance substitutes the store of PsaKeys for that of Provisioning.
LEMMA SamePair == Device!PairMatches <=> PairMatches
BY DEF Device!PairMatches, PairMatches, Device!NoKey, NoKey, Device!PSA_TLS_PRV_KEY_ID,
       PSA_TLS_PRV_KEY_ID, Device!PSA_TLS_PUB_KEY_ID, PSA_TLS_PUB_KEY_ID

\* Whichever call of xPkiGenerateECKeypair fails and wherever the power fails,
\* a device that has both keys of its pair has two that belong together.
THEOREM DevicePairMatches == Device!Spec => []PairMatches
<1>1. Device!Spec => []PairInv
  BY InitPair, StepKeepsPair, PTL DEF Device!Spec
<1>2. PairInv => PairMatches
  BY SamePair DEF PairInv
<1>3. QED
  BY <1>1, <1>2, PTL

(***************************************************************************)
(* The signatures of the device.  They are converted in the buffer they    *)
(* were made in, from its end towards its start: the second number first,  *)
(* which must leave the first one alone until it is moved in turn.         *)
(***************************************************************************)
LEMMA LeastOf ==
  ASSUME NEW S \in SUBSET Nat, S # {}
  PROVE  \E m \in S : \A n \in S : m <= n
<1> DEFINE Less == OpToRel(<, Nat)
<1>1. IsWellFoundedOn(Less, Nat)
  BY NatLessThanWellFounded
<1>2. Less = {ss \in Nat \X Nat : ss[1] < ss[2]}
  BY DEF OpToRel
<1> HIDE DEF Less
<1>3. PICK m \in S : \A n \in S : ~(<<n, m>> \in Less)
  BY <1>1, WFMin
<1>4. ASSUME NEW n \in S
      PROVE  m <= n
  <2>1. m \in Nat /\ n \in Nat /\ ~(n < m)
    BY <1>2, <1>3
  <2>2. QED
    BY <2>1
<1>5. QED
  BY <1>4

\* z is the number of zeros at the start of s, which has something behind them.
ZerosOf(s, z) ==
    /\ z \in 0 .. (Len(s) - 1)
    /\ s[z + 1] # 0
    /\ \A j \in 1 .. z : s[j] = 0

LEMMA LeadingZerosIs ==
  ASSUME NEW s \in Seq(Nat), NEW k \in 1 .. Len(s), s[k] # 0
  PROVE  ZerosOf(s, Device!LeadingZeros(s))
<1>1. DOMAIN s = 1 .. Len(s) /\ Len(s) \in Nat
  OBVIOUS
<1> DEFINE S == {i \in 1 .. Len(s) : s[i] # 0}
<1>2. S \in SUBSET Nat /\ k \in S
  BY <1>1
<1>3. PICK m \in S : \A i \in S : m <= i
  <2>1. S # {}
    BY <1>2
  <2> HIDE DEF S
  <2>2. QED
    BY <1>2, <2>1, LeastOf
<1>4. ASSUME NEW j \in 1 .. (m - 1)
      PROVE  s[j] = 0
  <2>1. j \in 1 .. Len(s) /\ ~(m <= j)
    BY <1>1, <1>3
  <2>2. j \notin S
    BY <1>3, <2>1
  <2>3. QED
    BY <2>1, <2>2
<1>5. \E i \in DOMAIN s : s[i] # 0 /\ \A j \in 1 .. (i - 1) : s[j] = 0
  BY <1>1, <1>3, <1>4
<1>6. PICK c : c = CHOOSE i \in DOMAIN s : s[i] # 0 /\ \A j \in 1 .. (i - 1) : s[j] = 0
  OBVIOUS
<1>7. c \in DOMAIN s /\ s[c] # 0 /\ \A j \in 1 .. (c - 1) : s[j] = 0
  BY <1>5, <1>6
<1>8. ~(\A i \in DOMAIN s : s[i] = 0)
  BY <1>1
<1>9. Device!LeadingZeros(s) = c - 1
  BY <1>6, <1>8 DEF Device!LeadingZeros
<1>10. QED
  BY <1>1, <1>7, <1>9 DEF ZerosOf

\* t is buf with the octets s from index i on.
IsPut(t, buf, i, s) ==
    /\ t \in Seq(Nat) /\ Len(t) = Len(buf)
    /\ \A j \in i .. (i + Len(s) - 1) : t[j] = s[j - i + 1]
    /\ \A j \in 1 .. Len(buf) : j < i \/ j > i + Len(s) - 1 => t[j] = buf[j]

LEMMA PutIs ==
  ASSUME NEW buf \in Seq(Nat), NEW s \in Seq(Nat), NEW i \in Int, i >= 1,
         i + Len(s) - 1 <= Len(buf)
  PROVE  IsPut(Device!Put(buf, i, s), buf, i, s)
<1>0. PICK t : t = Device!Put(buf, i, s)
  OBVIOUS
<1>1. /\ DOMAIN buf = 1 .. Len(buf) /\ Len(buf) \in Nat /\ Len(s) \in Nat
      /\ \A j \in 1 .. Len(buf) : buf[j] \in Nat
      /\ \A j \in 1 .. Len(s) : s[j] \in Nat
  BY SMTT(30)
<1>2. t = [j \in 1 .. Len(buf) |->
             IF j \in i .. (i + Len(s) - 1) THEN s[j - i + 1] ELSE buf[j]]
  BY <1>0, <1>1 DEF Device!Put
<1>3. ASSUME NEW j \in 1 .. Len(buf)
      PROVE  (IF j \in i .. (i + Len(s) - 1) THEN s[j - i + 1] ELSE buf[j]) \in Nat
  <2>1. j \in i .. (i + Len(s) - 1) => j - i + 1 \in 1 .. Len(s)
    BY <1>1
  <2>2. QED
    BY <1>1, <2>1
<1>4. t \in [1 .. Len(buf) -> Nat]
  BY <1>2, <1>3
<1>5. t \in Seq(Nat) /\ Len(t) = Len(buf)
  <2>1. PICK n \in Nat : n = Len(buf)
    BY <1>1
  <2>2. t \in [1 .. n -> Nat]
    BY <1>4, <2>1
  <2>3. t \in Seq(Nat)
    BY <2>2, SeqDef
  <2>4. Len(t) = n
    BY <2>2, <2>3
  <2>5. QED
    BY <2>1, <2>3, <2>4
<1>6. \A j \in i .. (i + Len(s) - 1) : t[j] = s[j - i + 1]
  BY <1>1, <1>2
<1>7. \A j \in 1 .. Len(buf) : j < i \/ j > i + Len(s) - 1 => t[j] = buf[j]
  BY <1>1, <1>2
<1>8. QED
  BY <1>0, <1>5, <1>6, <1>7 DEF IsPut

\* The len octets of buf from index p on are those of s.
HoldsAt(buf, p, s) == \A j \in 1 .. Len(s) : buf[p + j - 1] = s[j]

\* t is buf except between the indices first and last.
Changed(t, buf, first, last) ==
    /\ t \in Seq(Nat) /\ Len(t) = Len(buf)
    /\ \A j \in 1 .. Len(buf) : j < first \/ j > last => t[j] = buf[j]

\* What was written from index p on has a tag and its length in front of it.
HeaderWritten(w, buf, p, len, tag) ==
    \E t : /\ w = Device!Written(t, p - 2, len + 2)
           /\ Changed(t, buf, p - 2, p - 1)
           /\ t[p - 2] = tag /\ t[p - 1] = len

LEMMA WriteHeaderIs ==
  ASSUME NEW buf \in Seq(Nat), NEW p \in Int, NEW len \in Nat, NEW start \in Int,
         NEW tag \in Nat, start >= 1, p - start >= 2, p <= Len(buf) + 1
  PROVE  HeaderWritten(Device!WriteHeader(Device!Written(buf, p, len), start, tag),
                       buf, p, len, tag)
<1>0. PICK w : w = Device!WriteHeader(Device!Written(buf, p, len), start, tag)
  OBVIOUS
<1>1. PICK t : t = Device!Put(buf, p - 2, <<tag, len>>)
  OBVIOUS
<1>2. <<tag, len>> \in Seq(Nat) /\ Len(<<tag, len>>) = 2
  OBVIOUS
<1>3. PICK s : s = <<tag, len>>
  OBVIOUS
<1>4. s \in Seq(Nat) /\ Len(s) = 2 /\ s[1] = tag /\ s[2] = len
  BY <1>2, <1>3
<1>5. PICK i : i = p - 2
  OBVIOUS
<1>6. /\ t \in Seq(Nat) /\ Len(t) = Len(buf)
      /\ \A j \in i .. (i + 2 - 1) : t[j] = s[j - i + 1]
      /\ \A j \in 1 .. Len(buf) : j < i \/ j > i + 2 - 1 => t[j] = buf[j]
  <2>1. i \in Int /\ i >= 1 /\ i + Len(s) - 1 <= Len(buf) /\ t = Device!Put(buf, i, s)
    BY <1>1, <1>3, <1>4, <1>5
  <2>2. IsPut(t, buf, i, s)
    BY <1>4, <2>1, PutIs
  <2>3. QED
    BY <1>4, <2>2 DEF IsPut
<1>7. t[p - 2] = tag /\ t[p - 1] = len
  <2>1. i \in i .. (i + 2 - 1) /\ i + 1 \in i .. (i + 2 - 1) /\ i - i + 1 = 1
        /\ (i + 1) - i + 1 = 2 /\ p - 1 = i + 1
    BY <1>5
  <2>2. t[i] = s[1]
    BY <1>6, <2>1
  <2>3. t[i + 1] = s[2]
    BY <1>6, <2>1
  <2>4. QED
    BY <1>4, <1>5, <2>1, <2>2, <2>3
<1>8. w = Device!Written(t, p - 2, len + 2)
  BY <1>0, <1>1 DEF Device!WriteHeader, Device!Written
<1>10. i + 2 - 1 = p - 1
  BY <1>5
<1>11. Changed(t, buf, p - 2, p - 1)
  BY <1>5, <1>6, <1>10 DEF Changed
<1>12. QED
  BY <1>0, <1>7, <1>8, <1>11 DEF HeaderWritten

\* bytes are those of buf from index start to m.
IsPart(bytes, buf, start, m) ==
    /\ bytes \in Seq(Nat) /\ Len(bytes) = m - start + 1
    /\ \A j \in 1 .. (m - start + 1) : bytes[j] = buf[start + j - 1]

LEMMA PartIs ==
  ASSUME NEW buf \in Seq(Nat), NEW start \in Int, NEW m \in Int, start >= 1,
         m >= start - 1, m <= Len(buf), NEW bytes, bytes = SubSeq(buf, start, m)
  PROVE  IsPart(bytes, buf, start, m)
<1>1. PICK n \in Nat : n = m - start + 1
  OBVIOUS
<1>2. start \in Nat /\ Len(buf) \in Nat /\ m <= Len(buf)
  OBVIOUS
<1>3. \A j \in start .. m : buf[j] \in Nat
  BY <1>2
<1>4. bytes = [j \in 1 .. n |-> buf[start + j - 1]]
  BY <1>1, <1>2
<1>5. ASSUME NEW j \in 1 .. n
      PROVE  buf[start + j - 1] \in Nat
  <2>1. start + j - 1 \in start .. m
    BY ONLY <1>1, start \in Int, m \in Int, j \in 1 .. n
  <2>2. QED
    BY <1>3, <2>1
<1>6. bytes \in [1 .. n -> Nat]
  BY <1>4, <1>5
<1>7. bytes \in Seq(Nat)
  BY <1>6, SeqDef
<1>8. Len(bytes) = n
  BY <1>6, <1>7
<1>9. \A j \in 1 .. n : bytes[j] = buf[start + j - 1]
  BY <1>4
<1>10. QED
  BY ONLY <1>1, <1>7, <1>8, <1>9 DEF IsPart

\* A number that has its highest bit set is written behind a zero.
SignPad(bytes, z) == IF bytes[z + 1] < 128 THEN 0 ELSE 1

\* The DER integer of bytes whose first z octets are zeros, p octets longer than
\* the others.
IsDerNumber(d, bytes, z, p) ==
    LET m == Len(bytes) - z
    IN  /\ d \in Seq(Nat) /\ Len(d) = 2 + p + m
        /\ d[1] = 2 /\ d[2] = p + m
        /\ p = 1 => d[3] = 0
        /\ \A j \in 1 .. m : d[2 + p + j] = bytes[z + j]

LEMMA DerIntegerIs ==
  ASSUME NEW bytes \in Seq(Nat), NEW z, z = Device!LeadingZeros(bytes), ZerosOf(bytes, z)
  PROVE  IsDerNumber(Device!DerInteger(bytes), bytes, z, SignPad(bytes, z))
<1>1. PICK m : m = Len(bytes) - z
  OBVIOUS
<1>2. /\ z \in Int /\ z >= 0 /\ m \in Nat /\ m >= 1 /\ Len(bytes) = z + m
      /\ (z + 1) + m - 1 = Len(bytes)
  <2>1. Len(bytes) \in Nat
    OBVIOUS
  <2>2. z \in 0 .. (Len(bytes) - 1)
    BY DEF ZerosOf
  <2>3. QED
    BY ONLY <1>1, <2>1, <2>2
<1>3. PICK minimal : minimal = SubSeq(bytes, z + 1, Len(bytes))
  OBVIOUS
<1>4. /\ minimal \in Seq(Nat) /\ Len(minimal) = m
      /\ \A j \in 1 .. m : minimal[j] = bytes[(z + 1) + j - 1]
  <2>1. PICK a, b : a = z + 1 /\ b = Len(bytes)
    OBVIOUS
  <2>2. /\ a \in Int /\ b \in Int /\ a >= 1 /\ b >= a - 1 /\ b <= Len(bytes)
        /\ b - a + 1 = m
    BY ONLY <1>2, <2>1
  <2>3. minimal = SubSeq(bytes, a, b)
    BY ONLY <1>3, <2>1
  <2>4. /\ minimal \in Seq(Nat) /\ Len(minimal) = b - a + 1
        /\ \A j \in 1 .. (b - a + 1) : minimal[j] = bytes[a + j - 1]
    BY ONLY bytes \in Seq(Nat), <2>2, <2>3, PartIs DEF IsPart
  <2>5. QED
    BY ONLY <2>1, <2>2, <2>4
<1>5. \A j \in 1 .. m : minimal[j] = bytes[z + j]
  <2>1. ASSUME NEW j \in 1 .. m PROVE minimal[j] = bytes[z + j]
    <3>1. (z + 1) + j - 1 = z + j
      BY <1>2
    <3>2. QED
      BY <1>4, <3>1
  <2>2. QED
    BY <2>1
<1>6. minimal[1] = bytes[z + 1] /\ bytes[z + 1] \in Nat
  <2>1. 1 \in 1 .. m
    BY <1>2
  <2>2. minimal[1] = bytes[z + 1]
    BY <1>5, <2>1
  <2>3. minimal[1] \in Nat
    BY <1>4, <2>1
  <2>4. QED
    BY <2>2, <2>3
<1>7. PICK p : p = SignPad(bytes, z)
  OBVIOUS
<1>8. PICK padded : padded = IF minimal[1] >= 128 THEN <<0>> \o minimal ELSE minimal
  OBVIOUS
<1>9. /\ p \in {0, 1} /\ padded \in Seq(Nat) /\ Len(padded) = p + m
      /\ p = 1 => padded[1] = 0
      /\ \A j \in 1 .. m : padded[p + j] = minimal[j]
  <2>1. CASE minimal[1] >= 128
    <3>1. p = 1 /\ padded = <<0>> \o minimal
      BY <1>6, <1>7, <1>8, <2>1 DEF SignPad
    <3>2. minimal \in Seq(Nat) /\ Len(minimal) = m /\ m \in Nat
      BY <1>2, <1>4
    <3>3. /\ padded \in Seq(Nat) /\ Len(padded) = 1 + m /\ padded[1] = 0
          /\ \A j \in 1 .. m : padded[1 + j] = minimal[j]
      BY ONLY <3>1, <3>2
    <3>4. QED
      BY <3>1, <3>3
  <2>2. CASE ~(minimal[1] >= 128)
    <3>1. p = 0 /\ padded = minimal
      BY <1>6, <1>7, <1>8, <2>2 DEF SignPad
    <3>2. QED
      BY <1>2, <1>4, <3>1
  <2>3. QED
    BY <2>1, <2>2
<1>10. PICK d : d = Device!DerInteger(bytes)
  OBVIOUS
<1>11. d = <<2, Len(padded)>> \o padded
  BY <1>3, <1>8, <1>10 DEF Device!DerInteger
<1>12. /\ d \in Seq(Nat) /\ Len(d) = 2 + Len(padded)
       /\ d[1] = 2 /\ d[2] = Len(padded)
       /\ \A j \in 3 .. (2 + Len(padded)) : d[j] = padded[j - 2]
  <2>1. padded \in Seq(Nat) /\ Len(padded) \in Nat /\ 2 \in Nat
    BY <1>9
  <2>2. QED
    BY ONLY <1>11, <2>1, Prefixed
<1>13. p = 1 => d[3] = 0
  BY <1>2, <1>9, <1>12
<1>14. ASSUME NEW j \in 1 .. m
       PROVE  d[2 + p + j] = bytes[z + j]
  <2>1. PICK k : k = 2 + p + j
    OBVIOUS
  <2>2. k \in 3 .. (2 + Len(padded)) /\ k - 2 = p + j
    BY <1>2, <1>9, <2>1
  <2>3. d[k] = padded[p + j]
    BY <1>12, <2>2
  <2>4. QED
    BY <1>5, <1>9, <2>1, <2>3
<1>15. QED
  <2>1. Len(d) = 2 + p + m /\ d[2] = p + m
    BY <1>2, <1>9, <1>12
  <2>2. IsDerNumber(d, bytes, z, p)
    BY ONLY <1>1, <1>12, <1>13, <1>14, <2>1 DEF IsDerNumber
  <2>3. QED
    BY <1>7, <1>10, <2>2

\* The number of the buffer from index start on stands in front of index p as the
\* DER integer d, and nothing is touched that is not at most n + 3 octets in front.
Moved(t, buf, p, n, d) ==
    /\ d \in Seq(Nat) /\ Len(d) \in 3 .. (n + 3)
    /\ Changed(t, buf, p - n - 3, p - 1)
    /\ HoldsAt(t, p - Len(d), d)

\* w is the result of writing the number d in front of index p.
NumberWritten(w, buf, p, n, d) ==
    \E t : w = Device!Written(t, p - Len(d), Len(d)) /\ Moved(t, buf, p, n, d)

\* The octets of bytes behind its zeros stand from index first on, after a zero if
\* pad is 1.
Stands(b1, first, bytes, z, pad) ==
    /\ pad = 1 => b1[first] = 0
    /\ \A j \in 1 .. (Len(bytes) - z) : b1[first + pad + j - 1] = bytes[z + j]

LEMMA MovedWithHeader ==
  ASSUME NEW buf \in Seq(Nat), NEW b1 \in Seq(Nat), NEW p \in Int, NEW n \in Nat,
         NEW bytes \in Seq(Nat), NEW z \in Int, NEW pad \in {0, 1}, NEW start \in Int,
         NEW first \in Int, NEW d, NEW w,
         n >= 1, start >= 1, p - start >= n + 3, p <= Len(buf) + 1, Len(bytes) = n,
         ZerosOf(bytes, z), IsDerNumber(d, bytes, z, pad),
         Changed(b1, buf, p - n - 1, p - 1),
         first = p - n + z - pad,
         Stands(b1, first, bytes, z, pad),
         w = Device!WriteHeader(Device!Written(b1, first, n - z + pad), start, 2)
  PROVE  NumberWritten(w, buf, p, n, d)
<1>1. z >= 0 /\ z <= n - 1 /\ pad \in Int /\ pad >= 0 /\ pad <= 1 /\ n \in Int
  <2>1. z \in 0 .. (n - 1)
    BY DEF ZerosOf
  <2>2. QED
    BY ONLY <2>1, z \in Int, n \in Nat, pad \in {0, 1}
<1>2. /\ Len(b1) = Len(buf) /\ Len(buf) \in Nat
      /\ \A j \in 1 .. Len(buf) : j < p - n - 1 \/ j > p - 1 => b1[j] = buf[j]
  BY DEF Changed
<1>3. PICK len : len = n - z + pad
  OBVIOUS
<1>4. len \in Nat /\ first - start >= 2 /\ first <= Len(b1) + 1 /\ first = p - len
      /\ len <= n + 1 /\ len >= 1
  BY ONLY <1>1, <1>2, <1>3, p \in Int, z \in Int, start \in Int, p - start >= n + 3,
          p <= Len(buf) + 1, first = p - n + z - pad
<1>5. HeaderWritten(w, b1, first, len, 2)
  <2>1. w = Device!WriteHeader(Device!Written(b1, first, len), start, 2)
    BY <1>3
  <2>2. 2 \in Nat
    OBVIOUS
  <2>3. QED
    BY <1>4, <2>1, <2>2, WriteHeaderIs
<1>6. PICK t : /\ w = Device!Written(t, first - 2, len + 2)
               /\ Changed(t, b1, first - 2, first - 1)
               /\ t[first - 2] = 2 /\ t[first - 1] = len
  BY <1>5 DEF HeaderWritten
<1>8. /\ d \in Seq(Nat) /\ Len(d) = len + 2 /\ d[1] = 2 /\ d[2] = len
      /\ pad = 1 => d[3] = 0
      /\ \A j \in 1 .. (n - z) : d[2 + pad + j] = bytes[z + j]
  BY <1>1, <1>3 DEF IsDerNumber
<1>9. p - Len(d) = first - 2 /\ Len(d) \in 3 .. (n + 3)
  BY ONLY <1>1, <1>4, <1>8, p \in Int
<1>10. /\ t \in Seq(Nat) /\ Len(t) = Len(buf)
       /\ \A j \in 1 .. Len(buf) : j < first - 2 \/ j > first - 1 => t[j] = b1[j]
       /\ t[first - 2] = 2 /\ t[first - 1] = len
  BY <1>2, <1>6 DEF Changed
<1>11. ASSUME NEW j \in 1 .. Len(buf), j < p - n - 3 \/ j > p - 1
       PROVE  t[j] = buf[j]
  <2>1. /\ j < first - 2 \/ j > first - 1
        /\ j < p - n - 1 \/ j > p - 1
    BY ONLY <1>1, <1>4, <1>11, p \in Int, j \in Int
  <2>3. b1[j] = buf[j]
    BY <1>2, <2>1
  <2>4. QED
    BY <1>10, <2>1, <2>3
<1>12. ASSUME NEW j \in 1 .. Len(d)
       PROVE  t[(p - Len(d)) + j - 1] = d[j]
  <2>1. PICK k : k = first - 2 + j - 1
    OBVIOUS
  <2>2. k \in 1 .. Len(buf) /\ (p - Len(d)) + j - 1 = k
    <3>1. Len(buf) \in Int
      BY <1>2
    <3>2. Len(d) = len + 2 /\ j \in 1 .. Len(d)
      BY <1>8
    <3>3. /\ len \in Int /\ len >= 1 /\ first - start >= 2 /\ first = p - len
          /\ j \in Int /\ j >= 1 /\ j <= len + 2
      BY ONLY <1>4, <3>2
    <3>4. QED
      BY ONLY <2>1, <3>1, <3>2, <3>3, p \in Int, p <= Len(buf) + 1, start >= 1,
              start \in Int, first \in Int
  <2>3. CASE j = 1
    <3>1. k = first - 2
      BY <2>1, <2>3
    <3>2. QED
      BY <1>8, <1>10, <2>2, <2>3, <3>1
  <2>4. CASE j = 2
    <3>1. k = first - 1
      BY <2>1, <2>4
    <3>2. QED
      BY <1>8, <1>10, <2>2, <2>4, <3>1
  <2>5. CASE pad = 1 /\ j = 3
    <3>1. k = first
      BY <2>1, <2>5
    <3>2. k > first - 1
      BY <3>1
    <3>3. t[k] = b1[k]
      BY <1>10, <2>2, <3>2
    <3>4. b1[first] = 0
      BY <2>5 DEF Stands
    <3>5. QED
      BY <1>8, <2>2, <2>5, <3>1, <3>3, <3>4
  <2>6. CASE j > 2 + pad
    <3>1. PICK i : i = j - 2 - pad
      OBVIOUS
    <3>2. i \in 1 .. (n - z) /\ k = first + pad + i - 1 /\ j = 2 + pad + i /\ k > first - 1
      BY ONLY <1>1, <1>3, <1>4, <1>8, <2>1, <2>6, <3>1, j \in 1 .. Len(d)
    <3>3. t[k] = b1[k] /\ b1[k] = bytes[z + i]
      BY <1>10, <2>2, <3>2 DEF Stands
    <3>4. d[j] = bytes[z + i]
      BY <1>8, <3>2
    <3>5. QED
      BY <2>2, <3>3, <3>4
  <2>7. j = 1 \/ j = 2 \/ (pad = 1 /\ j = 3) \/ j > 2 + pad
    BY ONLY pad \in {0, 1}, j \in 1 .. Len(d), <1>8, <1>4
  <2>8. QED
    BY <2>3, <2>4, <2>5, <2>6, <2>7
<1>13. Moved(t, buf, p, n, d)
  BY <1>8, <1>9, <1>10, <1>11, <1>12 DEF Moved, Changed, HoldsAt
<1>14. w = Device!Written(t, p - Len(d), Len(d))
  BY <1>6, <1>8, <1>9
<1>15. QED
  BY <1>13, <1>14 DEF NumberWritten

LEMMA NumberIsWritten ==
  ASSUME NEW buf \in Seq(Nat), NEW p \in Int, NEW start \in Int, NEW n \in Nat,
         n >= 1, start >= 1, p - start >= n + 3, p <= Len(buf) + 1,
         NEW k \in 1 .. n, buf[start + k - 1] # 0,
         NEW bytes, bytes = SubSeq(buf, start, start + n - 1)
  PROVE  NumberWritten(Device!asn1_write_mpibuf(buf, p, start, n), buf, p, n,
                       Device!DerInteger(bytes))
<1>1. /\ bytes \in Seq(Nat) /\ Len(bytes) = n
      /\ \A j \in 1 .. n : bytes[j] = buf[start + j - 1]
  <2>1. PICK m : m = start + n - 1
    OBVIOUS
  <2>2. m \in Int /\ m >= start - 1 /\ m <= Len(buf) /\ m - start + 1 = n
    BY <2>1
  <2>3. bytes = SubSeq(buf, start, m)
    BY <2>1
  <2>4. /\ bytes \in Seq(Nat) /\ Len(bytes) = m - start + 1
        /\ \A j \in 1 .. (m - start + 1) : bytes[j] = buf[start + j - 1]
    BY ONLY buf \in Seq(Nat), start \in Int, start >= 1, <2>2, <2>3, PartIs DEF IsPart
  <2>5. QED
    BY ONLY <2>2, <2>4
<1>2. PICK z : z = Device!LeadingZeros(bytes)
  OBVIOUS
<1>3. ZerosOf(bytes, z)
  <2>1. k \in 1 .. Len(bytes) /\ bytes[k] # 0
    BY <1>1
  <2>2. QED
    BY <1>1, <1>2, <2>1, LeadingZerosIs
<1>4. z \in Int /\ z >= 0 /\ z <= n - 1
  <2>1. z \in 0 .. (n - 1)
    BY <1>1, <1>3 DEF ZerosOf
  <2>2. QED
    BY ONLY <2>1, n \in Nat
<1>5. PICK moved : moved = Device!Put(buf, p - n, bytes)
  OBVIOUS
<1>6. PICK i : i = p - n
  OBVIOUS
<1>7. IsPut(moved, buf, i, bytes)
  <2>1. i \in Int /\ i >= 1 /\ i + Len(bytes) - 1 <= Len(buf)
    BY ONLY <1>1, <1>6, p \in Int, start \in Int, n \in Nat, start >= 1, p - start >= n + 3,
            p <= Len(buf) + 1
  <2>2. QED
    BY <1>1, <1>5, <1>6, <2>1, PutIs
<1>8. /\ moved \in Seq(Nat) /\ Len(moved) = Len(buf)
      /\ \A j \in i .. (i + n - 1) : moved[j] = bytes[j - i + 1]
      /\ \A j \in 1 .. Len(buf) : j < i \/ j > i + n - 1 => moved[j] = buf[j]
  BY <1>1, <1>7 DEF IsPut
<1>9. PICK f : f = p - n + z
  OBVIOUS
<1>10. PICK w : w = Device!asn1_write_mpibuf(buf, p, start, n)
  OBVIOUS
<1>11. w = IF moved[f] < 128
           THEN Device!WriteHeader(Device!Written(moved, f, n - z), start, 2)
           ELSE IF f - start < 1 THEN Device!Failure("buf_too_small")
           ELSE Device!WriteHeader(
                  Device!Written(Device!Put(moved, f - 1, <<0>>), f - 1, n - z + 1), start, 2)
  <2>1. ~(p - start < n) /\ z # n
    BY <1>4
  <2>2. QED
    BY <1>2, <1>5, <1>9, <1>10, <2>1 DEF Device!asn1_write_mpibuf
<1>12. \A j \in 1 .. (n - z) : moved[f + j - 1] = bytes[z + j]
  <2>1. ASSUME NEW j \in 1 .. (n - z)
        PROVE  moved[f + j - 1] = bytes[z + j]
    <3>1. PICK m : m = f + j - 1
      OBVIOUS
    <3>2. m \in i .. (i + n - 1) /\ m - i + 1 = z + j
      BY ONLY <1>4, <1>6, <1>9, <3>1, n \in Nat, p \in Int, j \in 1 .. (n - z)
    <3>3. QED
      BY <1>8, <3>1, <3>2
  <2>2. QED
    BY <2>1
<1>13. moved[f] = bytes[z + 1] /\ bytes[z + 1] \in Nat
  <2>1. 1 \in 1 .. (n - z) /\ f + 1 - 1 = f /\ z + 1 \in 1 .. n
    BY ONLY <1>4, <1>9, n \in Nat, p \in Int
  <2>2. moved[f] = bytes[z + 1]
    BY <1>12, <2>1
  <2>3. QED
    BY <1>1, <2>1, <2>2
<1>14. PICK d : d = Device!DerInteger(bytes)
  OBVIOUS
<1>15. IsDerNumber(d, bytes, z, SignPad(bytes, z))
  BY <1>1, <1>2, <1>3, <1>14, DerIntegerIs
<1>16. ASSUME NEW b1 \in Seq(Nat), NEW pad \in {0, 1}, pad = SignPad(bytes, z),
              Changed(b1, buf, p - n - 1, p - 1),
              Stands(b1, f - pad, bytes, z, pad),
              w = Device!WriteHeader(Device!Written(b1, f - pad, n - z + pad), start, 2)
       PROVE  NumberWritten(w, buf, p, n, d)
  <2>1. PICK first : first = f - pad
    OBVIOUS
  <2>2. first \in Int /\ first = p - n + z - pad
    BY ONLY <1>4, <1>9, <2>1, n \in Nat, p \in Int, pad \in {0, 1}
  <2>3. IsDerNumber(d, bytes, z, pad) /\ Stands(b1, first, bytes, z, pad)
        /\ w = Device!WriteHeader(Device!Written(b1, first, n - z + pad), start, 2)
    BY <1>15, <1>16, <2>1
  <2>4. QED
    BY <1>1, <1>3, <1>4, <1>16, <2>2, <2>3, MovedWithHeader, ZenonT(40)
<1>17. CASE moved[f] < 128
  <2>1. SignPad(bytes, z) = 0
    BY <1>13, <1>17 DEF SignPad
  <2>2. PICK pad : pad = 0
    OBVIOUS
  <2>3. f - pad = f /\ n - z + pad = n - z /\ f \in Int /\ i + n - 1 = p - 1 /\ i \in Int
    BY ONLY <1>4, <1>6, <1>9, <2>2, n \in Nat, p \in Int
  <2>4. Changed(moved, buf, p - n - 1, p - 1)
    <3>1. ASSUME NEW j \in 1 .. Len(buf), j < p - n - 1 \/ j > p - 1
          PROVE  moved[j] = buf[j]
      <4>1. j < i \/ j > i + n - 1
        BY <1>6, <3>1
      <4>2. QED
        BY <1>8, <4>1
    <3>2. QED
      BY <1>8, <3>1 DEF Changed
  <2>5. Stands(moved, f - pad, bytes, z, pad)
    <3>1. \A j \in 1 .. (n - z) : (f - pad) + pad + j - 1 = f + j - 1
      BY ONLY <1>4, <1>9, <2>2, n \in Nat, p \in Int
    <3>2. \A j \in 1 .. (n - z) : moved[(f - pad) + pad + j - 1] = bytes[z + j]
      BY ONLY <1>12, <3>1
    <3>3. QED
      BY ONLY <1>1, <2>2, <3>2 DEF Stands
  <2>6. w = Device!WriteHeader(Device!Written(moved, f - pad, n - z + pad), start, 2)
    BY <1>11, <1>17, <2>3
  <2>7. QED
    BY <1>8, <1>10, <1>14, <1>16, <2>1, <2>2, <2>4, <2>5, <2>6
<1>18. CASE ~(moved[f] < 128)
  <2>1. SignPad(bytes, z) = 1
    BY <1>13, <1>18 DEF SignPad
  <2>2. PICK pad : pad = 1
    OBVIOUS
  <2>3. PICK first : first = f - 1
    OBVIOUS
  <2>4. /\ f - pad = first /\ n - z + pad = n - z + 1 /\ first \in Int /\ first >= 1
        /\ first + 1 - 1 = first /\ first <= Len(moved) /\ first >= p - n - 1 /\ first <= p - 1
        /\ ~(f - start < 1) /\ f \in Int
    BY ONLY <1>4, <1>8, <1>9, <2>2, <2>3, n \in Nat, p \in Int, start \in Int, start >= 1,
            p - start >= n + 3, p <= Len(buf) + 1, Len(buf) \in Nat
  <2>5. PICK zero : zero = <<0>>
    OBVIOUS
  <2>6. zero \in Seq(Nat) /\ Len(zero) = 1 /\ zero[1] = 0
    BY <2>5
  <2>7. PICK b1 : b1 = Device!Put(moved, first, zero)
    OBVIOUS
  <2>8. IsPut(b1, moved, first, zero)
    <3>1. moved \in Seq(Nat) /\ first + Len(zero) - 1 <= Len(moved)
      BY <1>8, <2>4, <2>6
    <3>2. QED
      BY <2>4, <2>6, <2>7, <3>1, PutIs
  <2>9. /\ b1 \in Seq(Nat) /\ Len(b1) = Len(buf)
        /\ \A j \in 1 .. Len(buf) : j # first => b1[j] = moved[j]
        /\ b1[first] = 0
    <3>1. /\ b1 \in Seq(Nat) /\ Len(b1) = Len(moved)
          /\ \A j \in first .. (first + 1 - 1) : b1[j] = zero[j - first + 1]
          /\ \A j \in 1 .. Len(moved) : j < first \/ j > first + 1 - 1 => b1[j] = moved[j]
      BY <2>6, <2>8 DEF IsPut
    <3>2. first \in first .. (first + 1 - 1) /\ first - first + 1 = 1
      BY <2>4
    <3>3. b1[first] = 0
      BY <2>6, <3>1, <3>2
    <3>4. ASSUME NEW j \in 1 .. Len(buf), j # first
          PROVE  b1[j] = moved[j]
      <4>1. j < first \/ j > first + 1 - 1
        BY <2>4, <3>4
      <4>2. QED
        BY <1>8, <3>1, <4>1
    <3>5. QED
      BY <1>8, <3>1, <3>3, <3>4
  <2>10. Changed(b1, buf, p - n - 1, p - 1)
    <3>1. ASSUME NEW j \in 1 .. Len(buf), j < p - n - 1 \/ j > p - 1
          PROVE  b1[j] = buf[j]
      <4>1. (j < i \/ j > i + n - 1) /\ j # first
        BY <1>6, <2>4, <3>1
      <4>2. QED
        BY <1>8, <2>9, <4>1
    <3>2. QED
      BY <2>9, <3>1 DEF Changed
  <2>11. Stands(b1, f - pad, bytes, z, pad)
    <3>1. ASSUME NEW j \in 1 .. (n - z)
          PROVE  b1[(f - pad) + pad + j - 1] = bytes[z + j]
      <4>1. PICK m : m = f + j - 1
        OBVIOUS
      <4>2. m \in 1 .. Len(buf) /\ m # first /\ (f - pad) + pad + j - 1 = m
        BY ONLY <1>4, <1>9, <2>2, <2>3, <2>4, <4>1, n \in Nat, p \in Int, start \in Int,
                start >= 1, p - start >= n + 3, p <= Len(buf) + 1, j \in 1 .. (n - z),
                Len(buf) \in Nat
      <4>3. b1[m] = moved[m]
        BY <2>9, <4>2
      <4>4. QED
        BY <1>12, <4>1, <4>2, <4>3
    <3>2. QED
      BY <1>1, <2>4, <2>9, <3>1 DEF Stands
  <2>12. w = Device!WriteHeader(Device!Written(b1, f - pad, n - z + pad), start, 2)
    BY <1>11, <1>18, <2>3, <2>4, <2>5, <2>7
  <2>13. QED
    BY <1>10, <1>14, <1>16, <2>1, <2>2, <2>9, <2>10, <2>11, <2>12
<1>19. QED
  BY <1>17, <1>18

\* From index start to m the octets of a and b are the same.
Agree(a, b, start, m) == \A j \in start .. m : a[j] = b[j]

LEMMA SamePart ==
  ASSUME NEW a \in Seq(Nat), NEW b \in Seq(Nat), NEW start \in Int, NEW m \in Int,
         start >= 1, m >= start - 1, m <= Len(a), m <= Len(b), Agree(a, b, start, m)
  PROVE  SubSeq(a, start, m) = SubSeq(b, start, m)
<1>0. PICK c, d : c = SubSeq(a, start, m) /\ d = SubSeq(b, start, m)
  OBVIOUS
<1>1. IsPart(c, a, start, m) /\ IsPart(d, b, start, m)
  BY <1>0, PartIs
<1>2. /\ c \in Seq(Nat) /\ Len(c) = m - start + 1
      /\ \A j \in 1 .. (m - start + 1) : c[j] = a[start + j - 1]
  BY ONLY <1>1 DEF IsPart
<1>3. /\ d \in Seq(Nat) /\ Len(d) = m - start + 1
      /\ \A j \in 1 .. (m - start + 1) : d[j] = b[start + j - 1]
  BY ONLY <1>1 DEF IsPart
<1>4. ASSUME NEW j \in 1 .. Len(c)
      PROVE  c[j] = d[j]
  <2>1. PICK i : i = start + j - 1
    OBVIOUS
  <2>2. i \in start .. m /\ j \in 1 .. (m - start + 1)
    BY ONLY <1>2, <2>1, start \in Int, m \in Int, j \in 1 .. Len(c)
  <2>3. a[i] = b[i]
    BY ONLY <2>2, Agree(a, b, start, m) DEF Agree
  <2>4. QED
    BY ONLY <1>2, <1>3, <2>1, <2>2, <2>3
<1>5. c = d
  BY ONLY <1>2, <1>3, <1>4, SeqEqual
<1>6. QED
  BY <1>0, <1>5

\* A raw signature of two numbers of half octets that suits a buffer of bufLen.
Suits(raw, half, bufLen) ==
    /\ half \in 1 .. 60
    /\ raw \in [1 .. (2 * half) -> 0 .. 255]
    /\ \E i \in 1 .. half : raw[i] # 0
    /\ \E i \in (half + 1) .. (2 * half) : raw[i] # 0
    /\ bufLen \in Nat /\ bufLen >= 2 * half + 8

LEMMA RawProperties ==
  ASSUME NEW raw, NEW half, NEW bufLen, Suits(raw, half, bufLen)
  PROVE  /\ half \in Nat /\ half >= 1 /\ half <= 60
         /\ raw \in Seq(Nat) /\ Len(raw) = 2 * half
         /\ bufLen \in Nat /\ bufLen >= 2 * half + 8
<1>1. half \in 1 .. 60 /\ raw \in [1 .. (2 * half) -> 0 .. 255]
      /\ bufLen \in Nat /\ bufLen >= 2 * half + 8
  BY DEF Suits
<1>2. PICK n \in Nat : n = 2 * half
  BY <1>1
<1>3. raw \in [1 .. n -> Nat]
  <2>1. \A i \in 1 .. n : raw[i] \in 0 .. 255
    BY <1>1, <1>2
  <2>2. \A i \in 1 .. n : raw[i] \in Nat
    BY <2>1
  <2>3. QED
    BY <1>1, <1>2, <2>2
<1>4. raw \in Seq(Nat)
  BY <1>3, SeqDef
<1>5. Len(raw) = n
  BY <1>3, <1>4
<1>6. QED
  BY <1>1, <1>2, <1>4, <1>5

\* The DER form of a signature whose numbers are d1 and d2.
IsDerSignature(der, d1, d2) ==
    /\ der \in Seq(Nat) /\ Len(der) = Len(d1) + Len(d2) + 2
    /\ der[1] = 48 /\ der[2] = Len(d1) + Len(d2)
    /\ \A j \in 1 .. Len(d1) : der[2 + j] = d1[j]
    /\ \A j \in 1 .. Len(d2) : der[2 + Len(d1) + j] = d2[j]

LEMMA DerSignatureIs ==
  ASSUME NEW raw \in Seq(Nat), NEW half \in Nat, Len(raw) = 2 * half,
         NEW d1 \in Seq(Nat), d1 = Device!DerInteger(SubSeq(raw, 1, half)),
         NEW d2 \in Seq(Nat), d2 = Device!DerInteger(SubSeq(raw, half + 1, 2 * half)),
         NEW der, der = Device!DerSignature(raw)
  PROVE  IsDerSignature(der, d1, d2)
<1>1. Len(raw) \div 2 = half /\ Len(d1) \in Nat /\ Len(d2) \in Nat
  OBVIOUS
<1>2. PICK body : body = d1 \o d2
  OBVIOUS
<1>3. /\ body \in Seq(Nat) /\ Len(body) = Len(d1) + Len(d2)
      /\ \A j \in 1 .. Len(d1) : body[j] = d1[j]
      /\ \A j \in (Len(d1) + 1) .. (Len(d1) + Len(d2)) : body[j] = d2[j - Len(d1)]
  BY <1>2, Joined
<1>4. der = <<48, Len(body)>> \o body
  BY <1>1, <1>2 DEF Device!DerSignature
<1>5. /\ der \in Seq(Nat) /\ Len(der) = 2 + Len(body)
      /\ der[1] = 48 /\ der[2] = Len(body)
      /\ \A j \in 3 .. (2 + Len(body)) : der[j] = body[j - 2]
  <2>1. 48 \in Nat /\ Len(body) \in Nat
    BY <1>1, <1>3
  <2>2. QED
    BY <1>3, <1>4, <2>1, Prefixed
<1>6. ASSUME NEW j \in 1 .. Len(d1)
      PROVE  der[2 + j] = d1[j]
  <2>1. 2 + j \in 3 .. (2 + Len(body)) /\ (2 + j) - 2 = j
    BY <1>1, <1>3
  <2>2. der[2 + j] = body[j]
    BY <1>5, <2>1
  <2>3. QED
    BY <1>3, <2>2
<1>7. ASSUME NEW j \in 1 .. Len(d2)
      PROVE  der[2 + Len(d1) + j] = d2[j]
  <2>1. PICK k : k = Len(d1) + j
    OBVIOUS
  <2>2. /\ 2 + k \in 3 .. (2 + Len(body)) /\ (2 + k) - 2 = k /\ 2 + Len(d1) + j = 2 + k
        /\ k \in (Len(d1) + 1) .. (Len(d1) + Len(d2)) /\ k - Len(d1) = j
    BY <1>1, <1>3, <2>1
  <2>3. der[2 + k] = body[k]
    BY <1>5, <2>2
  <2>4. QED
    BY <1>3, <2>2, <2>3
<1>8. QED
  BY <1>1, <1>3, <1>5, <1>6, <1>7 DEF IsDerSignature

LEMMA LongerWritten ==
  ASSUME NEW buf, NEW p, NEW n, NEW m
  PROVE  [Device!Written(buf, p, n) EXCEPT !.len = m] = Device!Written(buf, p, m)
<1>1. PICK ok, error : ok = TRUE /\ error = Device!None
  OBVIOUS
<1>2. /\ Device!Written(buf, p, n) = [ok |-> ok, buf |-> buf, p |-> p, len |-> n, error |-> error]
      /\ Device!Written(buf, p, m) = [ok |-> ok, buf |-> buf, p |-> p, len |-> m, error |-> error]
  BY <1>1 DEF Device!Written
<1>3. [[ok |-> ok, buf |-> buf, p |-> p, len |-> n, error |-> error] EXCEPT !.len = m] =
        [ok |-> ok, buf |-> buf, p |-> p, len |-> m, error |-> error]
  BY ONLY TRUE
<1>4. QED
  BY ONLY <1>2, <1>3

\* The signature of every request and certificate of the device is the one the
\* secure side made, in the encoding of X.509, whatever octets its numbers begin
\* with and however long they are.
THEOREM SignatureIsKept ==
  ASSUME NEW raw, NEW half, NEW bufLen, Suits(raw, half, bufLen)
  PROVE  Device!psa_ecdsa_sign(raw, bufLen)
<1>1. /\ half \in Nat /\ half >= 1 /\ raw \in Seq(Nat) /\ Len(raw) = 2 * half
      /\ bufLen \in Nat /\ bufLen >= 2 * half + 8 /\ Len(raw) \div 2 = half
  <2>1. /\ half \in Nat /\ half >= 1 /\ raw \in Seq(Nat) /\ Len(raw) = 2 * half
        /\ bufLen \in Nat /\ bufLen >= 2 * half + 8
    BY RawProperties
  <2>2. QED
    BY <2>1
<1>2. PICK i \in 1 .. half : raw[i] # 0
  BY DEF Suits
<1>3. PICK k \in 1 .. half : raw[(half + 1) + k - 1] # 0
  <2>1. PICK m \in (half + 1) .. (2 * half) : raw[m] # 0
    BY DEF Suits
  <2>2. m - half \in 1 .. half /\ (half + 1) + (m - half) - 1 = m
    BY <1>1
  <2>3. QED
    BY <2>1, <2>2
<1>4. PICK buf : buf = raw \o [j \in 1 .. (bufLen - Len(raw)) |-> 0]
  OBVIOUS
<1>5. /\ buf \in Seq(Nat) /\ Len(buf) = bufLen
      /\ \A j \in 1 .. (2 * half) : buf[j] = raw[j]
  <2>1. PICK n \in Nat : n = bufLen - Len(raw)
    BY <1>1
  <2>2. PICK pad : pad = [j \in 1 .. n |-> 0]
    OBVIOUS
  <2>3. pad \in [1 .. n -> Nat]
    BY <2>2
  <2>4. pad \in Seq(Nat)
    BY <2>3, SeqDef
  <2>5. Len(pad) = n
    BY <2>3, <2>4
  <2>6. buf = raw \o pad
    BY <1>4, <2>1, <2>2
  <2>7. /\ buf \in Seq(Nat) /\ Len(buf) = Len(raw) + Len(pad)
        /\ \A j \in 1 .. Len(raw) : buf[j] = raw[j]
    <3>1. raw \in Seq(Nat)
      BY <1>1
    <3>2. QED
      BY ONLY <2>4, <2>6, <3>1, Joined
  <2>8. Len(raw) + Len(pad) = bufLen
    BY <1>1, <2>1, <2>5
  <2>9. QED
    BY <1>1, <2>7, <2>8
<1>6. PICK n1, n2 : n1 = SubSeq(raw, 1, half) /\ n2 = SubSeq(raw, half + 1, 2 * half)
  OBVIOUS
<1>7. PICK d1, d2 : d1 = Device!DerInteger(n1) /\ d2 = Device!DerInteger(n2)
  OBVIOUS
<1>8. PICK s : s = Device!asn1_write_mpibuf(buf, bufLen + 1, half + 1, half)
  OBVIOUS
<1>9. NumberWritten(s, buf, bufLen + 1, half, d2)
  <2>1. /\ bufLen + 1 \in Int /\ half + 1 \in Int /\ half + 1 >= 1 /\ half >= 1
        /\ (bufLen + 1) - (half + 1) >= half + 3 /\ bufLen + 1 <= Len(buf) + 1
        /\ (half + 1) + half - 1 = 2 * half
    BY <1>1, <1>5
  <2>2. (half + 1) + k - 1 \in 1 .. (2 * half)
    BY <1>1
  <2>3. buf[(half + 1) + k - 1] # 0
    BY <1>3, <1>5, <2>2
  <2>4. PICK m : m = 2 * half
    OBVIOUS
  <2>5. n2 = SubSeq(buf, half + 1, (half + 1) + half - 1)
    <3>1. PICK a : a = half + 1
      OBVIOUS
    <3>2. /\ a \in Int /\ m \in Int /\ a >= 1 /\ m >= a - 1
          /\ m <= Len(raw) /\ m <= Len(buf) /\ m = (half + 1) + half - 1
      BY <1>1, <1>5, <2>4, <3>1
    <3>3. Agree(raw, buf, a, m)
      <4>1. \A j \in a .. m : j \in 1 .. (2 * half)
        BY <1>1, <2>4, <3>1
      <4>2. QED
        BY <1>5, <4>1 DEF Agree
    <3>4. raw \in Seq(Nat) /\ buf \in Seq(Nat)
      BY <1>1, <1>5
    <3>5. SubSeq(raw, a, m) = SubSeq(buf, a, m)
      BY ONLY <3>2, <3>3, <3>4, SamePart
    <3>6. QED
      BY ONLY <1>6, <2>4, <3>1, <3>2, <3>5
  <2>6. QED
    BY <1>1, <1>5, <1>7, <1>8, <2>1, <2>3, <2>5, NumberIsWritten
<1>10. PICK t2 : /\ s = Device!Written(t2, (bufLen + 1) - Len(d2), Len(d2))
                 /\ Moved(t2, buf, bufLen + 1, half, d2)
  BY <1>9 DEF NumberWritten
<1>11. PICK p : p = (bufLen + 1) - Len(d2)
  OBVIOUS
<1>12. /\ d2 \in Seq(Nat) /\ Len(d2) \in Int /\ Len(d2) >= 3 /\ Len(d2) <= half + 3
       /\ t2 \in Seq(Nat) /\ Len(t2) = bufLen
       /\ \A j \in 1 .. bufLen : j < (bufLen + 1) - half - 3 => t2[j] = buf[j]
       /\ \A j \in 1 .. Len(d2) : t2[p + j - 1] = d2[j]
  <2>1. Changed(t2, buf, (bufLen + 1) - half - 3, (bufLen + 1) - 1)
        /\ HoldsAt(t2, p, d2) /\ d2 \in Seq(Nat) /\ Len(d2) \in 3 .. (half + 3)
    BY <1>10, <1>11 DEF Moved
  <2>2. /\ t2 \in Seq(Nat) /\ Len(t2) = bufLen
        /\ \A j \in 1 .. bufLen : j < (bufLen + 1) - half - 3 => t2[j] = buf[j]
    BY ONLY <1>5, <2>1 DEF Changed
  <2>3. \A j \in 1 .. Len(d2) : t2[p + j - 1] = d2[j]
    BY ONLY <2>1 DEF HoldsAt
  <2>4. Len(d2) \in Int /\ Len(d2) >= 3 /\ Len(d2) <= half + 3
    BY ONLY <1>1, <2>1
  <2>5. QED
    BY ONLY <2>1, <2>2, <2>3, <2>4
<1>13. \A j \in 1 .. half : t2[j] = raw[j]
  <2>1. \A j \in 1 .. half : /\ j \in 1 .. bufLen /\ j < (bufLen + 1) - half - 3
                             /\ j \in 1 .. (2 * half)
    BY <1>1
  <2>2. QED
    BY <1>5, <1>12, <2>1
<1>14. /\ s.ok = TRUE /\ s.buf = t2 /\ s.p = p /\ s.len = Len(d2)
  BY <1>10, <1>11 DEF Device!Written
<1>15. PICK r : r = Device!asn1_write_mpibuf(t2, p, 1, half)
  OBVIOUS
<1>16. NumberWritten(r, t2, p, half, d1)
  <2>1. /\ p \in Int /\ 1 \in Int /\ 1 >= 1 /\ p - 1 >= half + 3 /\ p <= Len(t2) + 1
        /\ 1 + half - 1 = half /\ 1 + i - 1 = i
    <3>1. /\ half \in Int /\ half >= 1 /\ bufLen \in Int /\ bufLen >= 2 * half + 8
          /\ Len(d2) \in Int /\ Len(d2) <= half + 3 /\ Len(d2) >= 3 /\ Len(t2) = bufLen
          /\ i \in Int
      BY <1>1, <1>12
    <3>2. QED
      BY ONLY <1>11, <3>1
  <2>2. t2[1 + i - 1] # 0
    BY <1>2, <1>13, <2>1
  <2>3. n1 = SubSeq(t2, 1, 1 + half - 1)
    <3>1. Agree(raw, t2, 1, half)
      BY <1>13 DEF Agree
    <3>2. /\ 1 \in Int /\ half \in Int /\ 1 >= 1 /\ half >= 1 - 1
          /\ half <= Len(raw) /\ half <= Len(t2) /\ half = 1 + half - 1
      BY <1>1, <1>12
    <3>3. raw \in Seq(Nat) /\ t2 \in Seq(Nat)
      BY <1>1, <1>12
    <3>4. SubSeq(raw, 1, half) = SubSeq(t2, 1, half)
      BY ONLY <3>1, <3>2, <3>3, SamePart
    <3>5. QED
      BY ONLY <1>6, <3>2, <3>4
  <2>4. QED
    BY <1>1, <1>7, <1>12, <1>15, <2>1, <2>2, <2>3, NumberIsWritten
<1>17. PICK t1 : /\ r = Device!Written(t1, p - Len(d1), Len(d1))
                 /\ Moved(t1, t2, p, half, d1)
  BY <1>16 DEF NumberWritten
<1>18. PICK q : q = p - Len(d1)
  OBVIOUS
<1>19. /\ d1 \in Seq(Nat) /\ Len(d1) \in Int /\ Len(d1) >= 3 /\ Len(d1) <= half + 3
       /\ t1 \in Seq(Nat) /\ Len(t1) = bufLen
       /\ \A j \in 1 .. bufLen : j > p - 1 => t1[j] = t2[j]
       /\ \A j \in 1 .. Len(d1) : t1[q + j - 1] = d1[j]
  <2>1. Changed(t1, t2, p - half - 3, p - 1)
        /\ HoldsAt(t1, q, d1) /\ d1 \in Seq(Nat) /\ Len(d1) \in 3 .. (half + 3)
    BY <1>17, <1>18 DEF Moved
  <2>2. Len(t2) = bufLen
    BY <1>12
  <2>3. /\ t1 \in Seq(Nat) /\ Len(t1) = bufLen
        /\ \A j \in 1 .. bufLen : j > p - 1 => t1[j] = t2[j]
    BY ONLY <2>1, <2>2 DEF Changed
  <2>4. \A j \in 1 .. Len(d1) : t1[q + j - 1] = d1[j]
    BY ONLY <2>1 DEF HoldsAt
  <2>5. Len(d1) \in Int /\ Len(d1) >= 3 /\ Len(d1) <= half + 3
    BY ONLY <1>1, <2>1
  <2>6. QED
    BY ONLY <2>1, <2>3, <2>4, <2>5
<1>20. PICK len : len = Len(d1) + Len(d2)
  OBVIOUS
<1>21. /\ p \in Int /\ q \in Int /\ q - 1 >= 2 /\ q <= bufLen + 1 /\ len \in Nat
       /\ q + Len(d1) = p /\ p + Len(d2) = bufLen + 1
  <2>1. /\ half \in Int /\ half >= 1 /\ bufLen \in Int /\ bufLen >= 2 * half + 8
        /\ Len(d2) \in Int /\ Len(d2) <= half + 3 /\ Len(d2) >= 3
        /\ Len(d1) \in Int /\ Len(d1) <= half + 3 /\ Len(d1) >= 3
    BY <1>1, <1>12, <1>19
  <2>2. QED
    BY ONLY <1>11, <1>18, <1>20, <2>1
<1>22. PICK both : both = Device!WriteHeader(Device!Written(t1, q, len), 1, 48)
  OBVIOUS
<1>23. HeaderWritten(both, t1, q, len, 48)
  <2>1. 1 \in Int /\ 48 \in Nat /\ 1 >= 1 /\ q <= Len(t1) + 1
    BY <1>19, <1>21
  <2>2. QED
    BY <1>19, <1>21, <1>22, <2>1, WriteHeaderIs
<1>24. PICK t0 : /\ both = Device!Written(t0, q - 2, len + 2)
                 /\ Changed(t0, t1, q - 2, q - 1)
                 /\ t0[q - 2] = 48 /\ t0[q - 1] = len
  BY <1>23 DEF HeaderWritten
<1>25. Device!pk_ecdsa_sig_asn1_from_psa(raw, bufLen) = both
  <2>1. r.ok = TRUE /\ [r EXCEPT !.len = r.len + s.len] = Device!Written(t1, q, len)
    <3>1. r = Device!Written(t1, q, Len(d1)) /\ s.len = Len(d2)
      BY ONLY <1>14, <1>17, <1>18
    <3>3. r.ok = TRUE /\ r.len = Len(d1)
      BY ONLY <3>1 DEF Device!Written
    <3>4. [r EXCEPT !.len = len] = Device!Written(t1, q, len)
      BY ONLY <3>1, LongerWritten
    <3>5. r.len + s.len = len
      BY ONLY <1>20, <3>1, <3>3
    <3>6. [r EXCEPT !.len = r.len + s.len] = [r EXCEPT !.len = len]
      BY ONLY <3>5
    <3>7. QED
      BY ONLY <3>3, <3>4, <3>6
  <2>2. s = Device!asn1_write_mpibuf(raw \o [j \in 1 .. (bufLen - Len(raw)) |-> 0],
                                     bufLen + 1, Len(raw) \div 2 + 1, Len(raw) \div 2)
    BY <1>1, <1>4, <1>8
  <2>3. r = Device!asn1_write_mpibuf(s.buf, s.p, 1, Len(raw) \div 2)
    BY <1>1, <1>14, <1>15
  <2>4. QED
    BY <1>14, <1>22, <2>1, <2>2, <2>3 DEF Device!pk_ecdsa_sig_asn1_from_psa
<1>26. /\ both.ok = TRUE /\ both.buf = t0 /\ both.p = q - 2 /\ both.len = len + 2
  BY <1>24 DEF Device!Written
<1>27. /\ t0 \in Seq(Nat) /\ Len(t0) = bufLen
       /\ \A j \in 1 .. bufLen : j > q - 1 => t0[j] = t1[j]
  BY <1>19, <1>24 DEF Changed
<1>28. PICK out : out = SubSeq(t0, q - 2, (q - 2) + (len + 2) - 1)
  OBVIOUS
<1>29. /\ out \in Seq(Nat) /\ Len(out) = len + 2
       /\ \A j \in 1 .. (len + 2) : out[j] = t0[(q - 2) + j - 1]
  <2>1. /\ q - 2 \in Int /\ len + 2 \in Nat /\ q - 2 >= 1
        /\ (q - 2) + (len + 2) - 1 <= Len(t0)
    BY <1>20, <1>21, <1>27
  <2>2. QED
    <3>1. PICK a, b : a = q - 2 /\ b = (q - 2) + (len + 2) - 1
      OBVIOUS
    <3>2. a \in Int /\ b \in Int /\ a >= 1 /\ b >= a - 1 /\ b <= Len(t0)
          /\ b - a + 1 = len + 2
      BY ONLY <2>1, <3>1, SMTT(20)
    <3>3. out = SubSeq(t0, a, b)
      BY ONLY <1>28, <3>1
    <3>4. /\ out \in Seq(Nat) /\ Len(out) = b - a + 1
          /\ \A j \in 1 .. (b - a + 1) : out[j] = t0[a + j - 1]
      BY ONLY <1>27, <3>2, <3>3, PartIs DEF IsPart
    <3>5. QED
      BY ONLY <3>1, <3>2, <3>4
<1>30. PICK der : der = Device!DerSignature(raw)
  OBVIOUS
<1>31. /\ der \in Seq(Nat) /\ Len(der) = len + 2 /\ der[1] = 48 /\ der[2] = len
       /\ \A j \in 1 .. Len(d1) : der[2 + j] = d1[j]
       /\ \A j \in 1 .. Len(d2) : der[2 + Len(d1) + j] = d2[j]
  <2>1. IsDerSignature(der, d1, d2)
    <3>1. raw \in Seq(Nat) /\ half \in Nat /\ Len(raw) = 2 * half
      BY <1>1
    <3>2. d1 \in Seq(Nat) /\ d1 = Device!DerInteger(SubSeq(raw, 1, half))
      BY <1>6, <1>7, <1>19
    <3>3. d2 \in Seq(Nat) /\ d2 = Device!DerInteger(SubSeq(raw, half + 1, 2 * half))
      BY <1>6, <1>7, <1>12
    <3>4. QED
      BY ONLY <1>30, <3>1, <3>2, <3>3, DerSignatureIs
  <2>2. QED
    BY ONLY <1>20, <2>1 DEF IsDerSignature
<1>32. ASSUME NEW j \in 1 .. (len + 2)
       PROVE  out[j] = der[j]
  <2>1. PICK m : m = (q - 2) + j - 1
    OBVIOUS
  <2>2. out[j] = t0[m] /\ m \in 1 .. bufLen
    <3>1. /\ bufLen \in Int /\ Len(d1) \in Int /\ Len(d2) \in Int
          /\ j \in Int /\ j >= 1 /\ j <= len + 2
      BY <1>1, <1>12, <1>19, <1>21
    <3>2. m \in 1 .. bufLen
      BY ONLY <1>20, <1>21, <2>1, <3>1
    <3>3. QED
      BY <1>29, <2>1, <3>2
  <2>3. CASE j = 1
    <3>1. m = q - 2
      BY ONLY <1>21, <2>1, <2>3
    <3>2. QED
      BY <1>24, <1>31, <2>2, <2>3, <3>1
  <2>4. CASE j = 2
    <3>1. m = q - 1
      BY ONLY <1>21, <2>1, <2>4
    <3>2. QED
      BY <1>24, <1>31, <2>2, <2>4, <3>1
  <2>5. CASE j > 2 /\ j <= 2 + Len(d1)
    <3>1. PICK h : h = j - 2
      OBVIOUS
    <3>2. h \in 1 .. Len(d1) /\ j = 2 + h /\ m = q + h - 1 /\ m > q - 1
      BY <1>19, <1>21, <2>1, <2>5, <3>1
    <3>3. t0[m] = t1[m] /\ t1[m] = d1[h] /\ der[j] = d1[h]
      BY <1>19, <1>27, <1>31, <2>2, <3>2
    <3>4. QED
      BY <2>2, <3>3
  <2>6. CASE j > 2 + Len(d1)
    <3>1. PICK h : h = j - 2 - Len(d1)
      OBVIOUS
    <3>2. /\ h \in 1 .. Len(d2) /\ j = 2 + Len(d1) + h /\ m = p + h - 1
          /\ m > q - 1 /\ m > p - 1
      <4>1. Len(d2) \in Int /\ Len(d1) \in Int /\ Len(d1) >= 3
        BY <1>12, <1>19
      <4>2. QED
        BY ONLY <1>20, <1>21, <2>1, <2>6, <3>1, <4>1, j \in 1 .. (len + 2)
    <3>3. t0[m] = t1[m] /\ t1[m] = t2[m]
      BY <1>19, <1>27, <2>2, <3>2
    <3>4. t2[m] = d2[h] /\ der[j] = d2[h]
      BY <1>12, <1>31, <3>2
    <3>5. QED
      BY <2>2, <3>3, <3>4
  <2>7. QED
    BY <1>19, <2>3, <2>4, <2>5, <2>6
<1>33. out = der
  BY <1>29, <1>31, <1>32, SeqEqual
<1>34. QED
  BY <1>25, <1>26, <1>28, <1>30, <1>33 DEF Device!psa_ecdsa_sign

(***************************************************************************)
(* The documents of the device: where a line, an output, a store or the    *)
(* script holds one, it is signed, or it was damaged, or there is none.    *)
(***************************************************************************)
Args == FactoryNames \cup NamesGiven \cup
        {"random", "none", "1", "2", "tls_cert", "root_ca_cert", "ota_signer_pub"}

\* The places, phases, commands and kinds of things.
Words ==
    {"1", "2", "BEGIN", "BODY", "END", "altered", "attach_policy", "attach_thing_principal",
     "cert", "conf", "conf_commit", "conf_get", "conf_set", "create_certificate", "csr",
     "ctrl_c", "destroy_prv", "destroy_pub", "done", "echo", "eol", "error", "export_cert",
     "export_key", "garbled", "generate", "generate_cert", "generate_csr", "generate_key",
     "halted", "import_cert", "import_key", "import_pub", "import_root", "none", "off",
     "ota", "partial", "pem", "prompt", "provision", "pub", "readback", "reset",
     "response", "root", "secp256r1", "send", "signer", "sync", "text"}

SoundDocuments ==
    {d \in [type : Words, n : Nat, name : Args, signed : BOOLEAN] :
        d.signed \/ d = Altered \/ d = Device!Nothing}

Lines == [c : Words, arg : Args, doc : SoundDocuments]

\* A file that is printed is a document.
Outputs ==
    {o \in [k : Words, line : Lines, doc : SoundDocuments] :
        o.k = "pem" => o.doc # Device!Nothing}

Parts == [arg : Args, doc : SoundDocuments]

Devices ==
    [at : Words, label : Args, begun : BOOLEAN, got : Seq(Parts), partial : BOOLEAN]

Scripts ==
    [at : Words, phase : Words, script : Words, issuer : Issuers, arg : Args,
     name : Args, known : BOOLEAN, pub : SoundDocuments, doc : SoundDocuments,
     got : Seq(Lines), error : BOOLEAN, final : SoundDocuments]

StoresTyped ==
    /\ keys \in [Device!KeyIds -> [n : Nat, curve : Words, pair : BOOLEAN]]
    /\ ps \in [Device!StorageIds -> SoundDocuments]
    /\ conf \in [cached : Args, stored : Args]
    /\ pairs \in Nat

DocumentsTyped ==
    /\ StoresTyped
    /\ rx \in Seq(Lines)
    /\ tx \in Seq(Outputs)
    /\ dev \in Devices
    /\ host \in Scripts

LEMMA WordsHave ==
  /\ {"1", "2", "BEGIN", "BODY", "END", "altered", "none"} \subseteq Words
  /\ {"cert", "conf", "csr", "pub", "root", "signer", "secp256r1"} \subseteq Words
  /\ {"conf_commit", "conf_get", "conf_set", "export_cert", "export_key", "generate_cert",
      "generate_csr", "generate_key", "import_cert", "import_key", "import_root", "reset",
      "ctrl_c", "partial", "garbled"} \subseteq Words
  /\ {"attach_policy", "attach_thing_principal", "create_certificate", "done", "off", "sync",
      "readback", "response", "send", "pem", "provision", "ota"} \subseteq Words
  /\ {"destroy_prv", "destroy_pub", "generate", "import_pub", "halted", "prompt", "pem"}
       \subseteq Words
  /\ {"echo", "eol", "error", "text", "conf", "prompt", "pem"} \subseteq Words
BY DEF Words

LEMMA NothingSound == Device!Nothing \in SoundDocuments
<1>1. Device!Nothing \in [type : Words, n : Nat, name : Args, signed : BOOLEAN]
  <2>1. "none" \in Words /\ "none" \in Args
    BY WordsHave DEF Args
  <2>2. QED
    BY <2>1 DEF Device!Nothing, Device!Document, Device!None
<1>2. QED
  BY <1>1 DEF SoundDocuments

LEMMA AlteredSound == Altered \in SoundDocuments /\ Device!Altered = Altered
<1>1. Altered \in [type : Words, n : Nat, name : Args, signed : BOOLEAN]
  <2>1. "altered" \in Words /\ "none" \in Args
    BY WordsHave DEF Args
  <2>2. QED
    BY <2>1 DEF Altered
<1>2. QED
  BY <1>1 DEF SoundDocuments, Device!Altered, Altered

LEMMA SignedSound ==
  ASSUME NEW type \in Words, NEW n \in Nat, NEW name \in Args
  PROVE  /\ Device!Document(type, n, name, TRUE) \in SoundDocuments
         /\ Device!Document(type, n, name, TRUE) # Device!Nothing
<1>1. Device!Document(type, n, name, TRUE) \in
        [type : Words, n : Nat, name : Args, signed : BOOLEAN]
  BY DEF Device!Document
<1>2. Device!Document(type, n, name, TRUE).signed
  BY DEF Device!Document
<1>3. ~Device!Nothing.signed
  BY DEF Device!Nothing, Device!Document
<1>4. QED
  BY <1>1, <1>2, <1>3 DEF SoundDocuments

LEMMA LineTyped ==
  ASSUME NEW c \in Words, NEW arg \in Args, NEW doc \in SoundDocuments
  PROVE  Device!Line(c, arg, doc) \in Lines
BY DEF Device!Line, Lines

LEMMA NoArg == "none" \in Args /\ Device!None = "none" /\ Device!NoName = "none"
BY DEF Args, Device!None, Device!NoName

LEMMA SpecialLines ==
  /\ Device!CtrlC \in Lines /\ Device!Partial \in Lines
BY NothingSound, NoArg, LineTyped, WordsHave DEF Device!CtrlC, Device!Partial

LEMMA LineChanged ==
  ASSUME NEW line \in Lines
  PROVE  Device!Garbled(line) \in Lines
BY WordsHave DEF Lines, Device!Garbled

LEMMA OutputTyped ==
  ASSUME NEW k \in Words, NEW line \in Lines, NEW doc \in SoundDocuments,
         k = "pem" => doc # Device!Nothing
  PROVE  Device!Output(k, line, doc) \in Outputs
BY DEF Device!Output, Outputs

LEMMA OutputsTyped ==
  ASSUME NEW line \in Lines, NEW name \in Args
  PROVE  /\ Device!Prompt \in Outputs
         /\ Device!Eol \in Outputs
         /\ Device!Echo(line) \in Outputs
         /\ Device!Text \in Outputs
         /\ Device!Error \in Outputs
         /\ Device!Settings(name) \in Outputs
<1>1. Device!Document("conf", 0, name, TRUE) \in SoundDocuments
  <2>1. "conf" \in Words
    BY WordsHave
  <2>2. QED
    BY <2>1, SignedSound
<1>2. QED
  BY <1>1, NothingSound, SpecialLines, OutputTyped, WordsHave
  DEF Device!Prompt, Device!Eol, Device!Echo, Device!Text, Device!Error, Device!Settings

LEMMA PrintedTyped ==
  ASSUME NEW doc \in SoundDocuments, doc # Device!Nothing
  PROVE  Device!Printed(doc) \in Outputs
BY SpecialLines, OutputTyped, WordsHave DEF Device!Printed

LEMMA PemTyped ==
  ASSUME NEW doc \in SoundDocuments
  PROVE  Device!Pem(doc) \in Seq(Lines) /\ Len(Device!Pem(doc)) = 4
<1>1. "1" \in Args /\ "2" \in Args /\ "none" \in Args
  BY DEF Args
<1>2. PICK a, b, c, d : /\ a = Device!Line("BEGIN", "none", Device!Nothing)
                        /\ b = Device!Line("BODY", "1", doc)
                        /\ c = Device!Line("BODY", "2", doc)
                        /\ d = Device!Line("END", "none", Device!Nothing)
  OBVIOUS
<1>3. a \in Lines /\ b \in Lines /\ c \in Lines /\ d \in Lines
  BY <1>1, <1>2, NothingSound, LineTyped, WordsHave
<1>4. Device!Pem(doc) = <<a, b, c, d>>
  BY <1>2, NoArg DEF Device!Pem
<1>5. QED
  BY <1>3, <1>4

LEMMA IdleTyped == Device!IdleDevice \in Devices
<1>1. <<>> \in Seq(Parts)
  OBVIOUS
<1>2. QED
  BY <1>1, NoArg, WordsHave DEF Device!IdleDevice, Devices

LEMMA ScriptTyped ==
  ASSUME NEW script \in Words, NEW issuer \in Issuers, NEW arg \in Args,
         NEW final \in SoundDocuments
  PROVE  Device!NewScript(script, issuer, arg, final) \in Scripts
<1>1. <<>> \in Seq(Lines) /\ "off" \in Words /\ "none" \in Words
  BY WordsHave
<1>2. QED
  BY <1>1, NoArg, NothingSound DEF Device!NewScript, Scripts

LEMMA InitTyped == Device!Init => DocumentsTyped
<1> SUFFICES ASSUME Device!Init PROVE DocumentsTyped
  OBVIOUS
<1>1. keys \in [Device!KeyIds -> [n : Nat, curve : Words, pair : BOOLEAN]]
  BY WordsHave DEF Device!Init, Device!PkiInit, Device!NoKey
<1>2. ps \in [Device!StorageIds -> SoundDocuments]
  BY NothingSound DEF Device!Init, Device!PkiInit
<1>3. conf \in [cached : Args, stored : Args] /\ pairs \in Nat
  BY DEF Device!Init, Args
<1>4. rx \in Seq(Lines)
  BY DEF Device!Init
<1>5. tx \in Seq(Outputs)
  <2>1. Device!Prompt \in Outputs
    BY SpecialLines, NothingSound, OutputTyped, WordsHave DEF Device!Prompt
  <2>2. QED
    BY <2>1 DEF Device!Init
<1>6. dev \in Devices
  BY IdleTyped DEF Device!Init
<1>7. host \in Scripts
  <2>1. PICK issuer \in Issuers, arg \in NamesGiven :
          host = Device!NewScript("provision", issuer, arg, Device!Nothing)
    BY DEF Device!Init
  <2>2. arg \in Args /\ "provision" \in Words
    BY WordsHave DEF Args
  <2>3. QED
    BY <2>1, <2>2, NothingSound, ScriptTyped
<1>8. QED
  BY <1>1, <1>2, <1>3, <1>4, <1>5, <1>6, <1>7 DEF DocumentsTyped, StoresTyped

(***************************************************************************)
(* The commands of the device.                                             *)
(***************************************************************************)
LEMMA ReadsTyped ==
  ASSUME DocumentsTyped, NEW line, Device!Reads(line)
  PROVE  /\ line \in Lines /\ line.arg \in Args /\ line.doc \in SoundDocuments
         /\ Head(rx) \in Lines
         /\ rx' \in Seq(Lines)
<1>1. rx \in Seq(Lines) /\ rx # <<>>
  BY DEF DocumentsTyped, Device!Reads
<1>2. Head(rx) \in Lines /\ Tail(rx) \in Seq(Lines)
  BY <1>1
<1>3. line \in Lines
  BY <1>2, LineChanged DEF Device!Reads
<1>4. line.arg \in Args /\ line.doc \in SoundDocuments
  BY <1>3 DEF Lines
<1>5. QED
  BY <1>2, <1>3, <1>4 DEF Device!Reads, Device!TakeLine

LEMMA PrintTyped ==
  ASSUME DocumentsTyped, NEW out \in Seq(Outputs), Device!io_print(out)
  PROVE  tx' \in Seq(Outputs)
BY DEF DocumentsTyped, Device!io_print

LEMMA AnswersTyped ==
  ASSUME DocumentsTyped, Head(rx) \in Lines, NEW line, NEW out \in Seq(Outputs),
         Device!Answers(line, out)
  PROVE  dev' \in Devices /\ tx' \in Seq(Outputs) /\ host' = host
<1>1. PICK echo : echo = Device!Echo(Head(rx)) /\ echo \in Outputs
  BY NoArg, OutputsTyped
<1>2. PICK prompt : prompt = Device!Prompt /\ prompt \in Outputs
  BY NoArg, OutputsTyped
<1>3. <<echo>> \o out \o <<prompt>> \in Seq(Outputs)
  BY <1>1, <1>2
<1>4. Device!io_print(<<echo>> \o out \o <<prompt>>)
  BY <1>1, <1>2 DEF Device!Answers
<1>5. QED
  BY <1>3, <1>4, PrintTyped, IdleTyped DEF Device!Answers

\* A command that answers with at most one output.
LEMMA AnswerTyped ==
  ASSUME DocumentsTyped, NEW line, Device!Reads(line), NEW out,
         out = <<>> \/ \E o \in Outputs : out = <<o>>,
         Device!Answers(line, out)
  PROVE  dev' \in Devices /\ tx' \in Seq(Outputs) /\ host' = host /\ rx' \in Seq(Lines)
<1>1. out \in Seq(Outputs)
  <2>1. CASE out = <<>>
    BY <2>1
  <2>2. CASE \E o \in Outputs : out = <<o>>
    BY <2>2
  <2>3. QED
    BY <2>1, <2>2
<1>2. QED
  BY <1>1, ReadsTyped, AnswersTyped

\* The stores are as they were.
LEMMA SameStores ==
  ASSUME StoresTyped, UNCHANGED <<keys, ps, conf, pairs>>
  PROVE  StoresTyped'
BY DEF StoresTyped

LEMMA KeptTyped ==
  ASSUME DocumentsTyped, StoresTyped', rx' \in Seq(Lines), tx' \in Seq(Outputs),
         dev' \in Devices, host' \in Scripts
  PROVE  DocumentsTyped'
BY DEF DocumentsTyped

LEMMA QueriesKeepDocuments ==
  ASSUME DocumentsTyped, NEW line, Device!Reads(line),
         \/ Device!NotRecognized(line) \/ Device!vSubCommand_GetConfig(line)
         \/ Device!vSubCommand_SetConfig(line) \/ Device!vSubCommand_CommitConfig(line)
         \/ Device!vSubCommand_ExportKey(line)
         \/ Device!vSubCommand_ExportCertificate(line)
  PROVE  DocumentsTyped'
<1>1. /\ line \in Lines /\ line.arg \in Args
      /\ Head(rx) \in Lines /\ rx' \in Seq(Lines)
  BY ReadsTyped
<1>2. StoresTyped /\ host \in Scripts /\ conf.cached \in Args /\ conf.stored \in Args
  BY DEF DocumentsTyped, StoresTyped
<1>3. /\ Device!Text \in Outputs /\ Device!Error \in Outputs
      /\ Device!Settings(conf.cached) \in Outputs
  BY <1>1, <1>2, OutputsTyped
<1>4. ASSUME NEW out, out = <<>> \/ \E o \in Outputs : out = <<o>>,
             Device!Answers(line, out), StoresTyped'
      PROVE  DocumentsTyped'
  <2>1. dev' \in Devices /\ tx' \in Seq(Outputs) /\ host' = host
    BY <1>4, AnswerTyped
  <2>2. QED
    BY <1>1, <1>2, <1>4, <2>1, KeptTyped
<1>5. ASSUME conf' \in [cached : Args, stored : Args], UNCHANGED <<keys, ps, pairs>>
      PROVE  StoresTyped'
  BY <1>2, <1>5 DEF StoresTyped
<1>6. CASE Device!NotRecognized(line) \/ Device!vSubCommand_GetConfig(line)
  <2>1. StoresTyped'
    BY <1>2, <1>6, SameStores
    DEF Device!NotRecognized, Device!vSubCommand_GetConfig, Device!pkiVars
  <2>2. QED
    BY <1>3, <1>4, <1>6, <2>1 DEF Device!NotRecognized, Device!vSubCommand_GetConfig
<1>7. CASE Device!vSubCommand_SetConfig(line)
  <2>1. conf' = [conf EXCEPT !.cached = line.arg] /\ UNCHANGED <<keys, ps, pairs>>
    BY <1>7 DEF Device!vSubCommand_SetConfig, Device!pkiVars
  <2>2. conf' \in [cached : Args, stored : Args]
    BY <1>1, <1>2, <2>1 DEF StoresTyped
  <2>3. QED
    BY <1>3, <1>4, <1>5, <1>7, <2>1, <2>2 DEF Device!vSubCommand_SetConfig
<1>8. CASE Device!vSubCommand_CommitConfig(line)
  <2>1. /\ conf' = [conf EXCEPT !.stored = conf.cached] \/ conf' = conf
        /\ UNCHANGED <<keys, ps, pairs>>
    BY <1>8 DEF Device!vSubCommand_CommitConfig, Device!pkiVars
  <2>2. conf' \in [cached : Args, stored : Args]
    BY <1>2, <2>1 DEF StoresTyped
  <2>3. QED
    BY <1>3, <1>4, <1>5, <1>8, <2>1, <2>2 DEF Device!vSubCommand_CommitConfig
<1>9. CASE Device!vSubCommand_ExportKey(line)
  <2>1. StoresTyped'
    BY <1>2, <1>9, SameStores DEF Device!vSubCommand_ExportKey, Device!pkiVars
  <2>2. PICK n : n = keys[Device!PSA_TLS_PUB_KEY_ID].n /\ n \in Nat
    BY <1>2 DEF StoresTyped, Device!KeyIds
  <2>3. Device!Printed(Device!Document("pub", n, Device!NoName, TRUE)) \in Outputs
    <3>1. "pub" \in Words
      BY WordsHave
    <3>2. QED
      BY <1>1, <2>2, <3>1, NoArg, SignedSound, PrintedTyped
  <2>4. QED
    BY <1>3, <1>4, <1>9, <2>1, <2>2, <2>3 DEF Device!vSubCommand_ExportKey
<1>10. CASE Device!vSubCommand_ExportCertificate(line)
  <2>1. StoresTyped'
    BY <1>2, <1>10, SameStores DEF Device!vSubCommand_ExportCertificate, Device!pkiVars
  <2>2. PICK id : id = Device!PSA_TLS_CERT_ID
    OBVIOUS
  <2>3. ps[id] \in SoundDocuments
    BY <1>2, <2>2 DEF StoresTyped, Device!StorageIds
  <2>4. CASE Device!xPkiReadCertificate(Device!TLS_CERT_LABEL)
    <3>1. Device!xPkiObjectFromLabel(Device!TLS_CERT_LABEL).id = id
      BY <2>2
      DEF Device!xPkiObjectFromLabel, Device!Object, Device!TLS_KEY_PRV_LABEL,
          Device!TLS_KEY_PUB_LABEL, Device!TLS_CERT_LABEL, Device!TLS_ROOT_CA_CERT_LABEL,
          Device!OTA_SIGNING_KEY_LABEL
    <3>2. ps[id] # Device!Nothing
      BY <2>4, <3>1
      DEF Device!xPkiReadCertificate, Device!lReadCertificateFromPsaPS,
          Device!lReadObjectFromPsaPs
    <3>3. Device!Printed(ps[id]) \in Outputs
      BY <1>1, <2>3, <3>2, PrintedTyped
    <3>4. QED
      BY <1>4, <1>10, <2>1, <2>2, <2>4, <3>3 DEF Device!vSubCommand_ExportCertificate
  <2>5. CASE ~Device!xPkiReadCertificate(Device!TLS_CERT_LABEL)
    BY <1>4, <1>10, <2>1, <2>5 DEF Device!vSubCommand_ExportCertificate
  <2>6. QED
    BY <2>4, <2>5
<1>11. QED
  BY <1>6, <1>7, <1>8, <1>9, <1>10

\* Whatever the secure side signs, the request and the certificate carry it.
LEMMA AllSigned ==
  ASSUME Device!SignaturesFit, NEW signed \in Device!Signed
  PROVE  signed = TRUE
<1>1. PICK raw \in DeviceSignatures : signed = Device!psa_ecdsa_sign(raw, SignatureBuffer)
  BY Zenon DEF Device!Signed
<1>2. PICK half \in 1 .. 60 :
          /\ raw \in [1 .. (2 * half) -> 0 .. 255]
          /\ \E i \in 1 .. half : raw[i] # 0
          /\ \E i \in (half + 1) .. (2 * half) : raw[i] # 0
          /\ SignatureBuffer >= 2 * half + 8
  BY Zenon DEF Device!SignaturesFit
<1>3. Suits(raw, half, SignatureBuffer)
  BY <1>2, Zenon DEF Suits, Device!SignaturesFit
<1>4. Device!psa_ecdsa_sign(raw, SignatureBuffer)
  BY <1>3, SignatureIsKept
<1>5. signed \in BOOLEAN
  BY <1>1 DEF Device!psa_ecdsa_sign
<1>6. QED
  BY <1>1, <1>4, <1>5

LEMMA CsrKeepsDocuments ==
  ASSUME DocumentsTyped, Device!SignaturesFit, NEW line, Device!Reads(line),
         Device!vSubCommand_GenerateCsr(line)
  PROVE  DocumentsTyped'
<1>1. rx' \in Seq(Lines)
  BY ReadsTyped
<1>2. StoresTyped' /\ host \in Scripts
  BY SameStores DEF DocumentsTyped, Device!vSubCommand_GenerateCsr, Device!pkiVars
<1>3. PICK n, name : /\ n = keys[Device!PSA_TLS_PRV_KEY_ID].n /\ n \in Nat
                     /\ name = conf.cached /\ name \in Args
  BY DEF DocumentsTyped, StoresTyped, Device!KeyIds
<1>4. \E out : /\ out = <<>> \/ \E o \in Outputs : out = <<o>>
               /\ Device!Answers(line, out)
  <2>1. CASE \E signed \in Device!Signed :
               Device!Answers(line, <<Device!Printed(Device!Document("csr",
                 keys[Device!PSA_TLS_PRV_KEY_ID].n, conf.cached, signed))>>)
    <3>1. "csr" \in Words
      BY WordsHave
    <3>2. Device!Printed(Device!Document("csr", n, name, TRUE)) \in Outputs
      BY <1>1, <1>3, <3>1, SignedSound, PrintedTyped
    <3>3. Device!Answers(line,
            <<Device!Printed(Device!Document("csr", n, name, TRUE))>>)
      BY <1>3, <2>1, AllSigned
    <3>4. QED
      BY <3>2, <3>3
  <2>2. CASE Device!Answers(line, <<>>)
    BY <2>2
  <2>3. QED
    BY <2>1, <2>2 DEF Device!vSubCommand_GenerateCsr
<1>5. dev' \in Devices /\ tx' \in Seq(Outputs) /\ host' = host
  BY <1>4, AnswerTyped
<1>6. QED
  BY <1>1, <1>2, <1>5, KeptTyped

\* A document that is written replaces the one in the protected storage.
LEMMA WriteTyped ==
  ASSUME StoresTyped, NEW label, NEW cert \in SoundDocuments,
         Device!xPkiWriteCertificate(label, cert), UNCHANGED <<conf, pairs>>
  PROVE  StoresTyped'
<1>1. PICK id : id = Device!xPkiObjectFromLabel(label).id
  OBVIOUS
<1>2. ps' = [ps EXCEPT ![id] = cert] /\ keys' = keys
  BY <1>1
  DEF Device!xPkiWriteCertificate, Device!lWriteCertificateToPsaPS,
      Device!lWriteObjectToPsaPs
<1>3. ps' \in [Device!StorageIds -> SoundDocuments]
  BY <1>2 DEF StoresTyped
<1>4. QED
  BY <1>2, <1>3 DEF StoresTyped

LEMMA CertificateKeepsDocuments ==
  ASSUME DocumentsTyped, Device!SignaturesFit, NEW line, Device!Reads(line),
         Device!vSubCommand_GenerateCertificate(line)
  PROVE  DocumentsTyped'
<1>1. rx' \in Seq(Lines)
  BY ReadsTyped
<1>2. StoresTyped /\ host \in Scripts /\ UNCHANGED <<conf, pairs>>
  BY DEF DocumentsTyped, Device!vSubCommand_GenerateCertificate
<1>3. PICK n, name : /\ n = keys[Device!PSA_TLS_PRV_KEY_ID].n /\ n \in Nat
                     /\ name = conf.cached /\ name \in Args
  BY <1>2 DEF StoresTyped, Device!KeyIds
<1>4. PICK cert : cert = Device!Document("cert", n, name, TRUE)
  OBVIOUS
<1>5. cert \in SoundDocuments /\ Device!Printed(cert) \in Outputs
  <2>1. "cert" \in Words
    BY WordsHave
  <2>2. QED
    BY <1>1, <1>3, <1>4, <2>1, SignedSound, PrintedTyped
<1>6. \/ /\ Device!Answers(line, <<Device!Printed(cert)>>)
         /\ \/ Device!xPkiWriteCertificate(Device!TLS_CERT_LABEL, cert)
            \/ UNCHANGED Device!pkiVars
      \/ Device!Answers(line, <<>>) /\ UNCHANGED Device!pkiVars
  <2>1. CASE /\ Device!xPkiReadPrivateKey(Device!TLS_KEY_PRV_LABEL)
             /\ \E signed \in Device!Signed :
                  LET c == Device!Document("cert", keys[Device!PSA_TLS_PRV_KEY_ID].n,
                                           conf.cached, signed)
                  IN  /\ Device!Answers(line, <<Device!Printed(c)>>)
                      /\ \/ /\ Device!xPkiWriteCertificate(Device!TLS_CERT_LABEL, c)
                            /\ UNCHANGED faults
                         \/ Device!Fault /\ UNCHANGED Device!pkiVars
    BY <1>3, <1>4, <2>1, AllSigned
  <2>2. CASE Device!Answers(line, <<>>) /\ UNCHANGED Device!pkiVars
    BY <2>2
  <2>3. QED
    BY <2>1, <2>2 DEF Device!vSubCommand_GenerateCertificate
<1>7. StoresTyped'
  BY <1>2, <1>5, <1>6, WriteTyped, SameStores DEF Device!pkiVars
<1>8. dev' \in Devices /\ tx' \in Seq(Outputs) /\ host' = host
  BY <1>5, <1>6, AnswerTyped
<1>9. QED
  BY <1>1, <1>2, <1>7, <1>8, KeptTyped

\* Commands that go on behind the line they were read from.
LEMMA StartedKeepDocuments ==
  ASSUME DocumentsTyped, NEW line, Device!Reads(line),
         Device!vSubCommand_GenerateKey(line) \/ Device!vSubCommand_Import(line)
  PROVE  DocumentsTyped'
<1>1. /\ line.arg \in Args /\ Head(rx) \in Lines
      /\ rx' \in Seq(Lines)
  BY ReadsTyped
<1>2. StoresTyped' /\ host' \in Scripts
  BY SameStores
  DEF DocumentsTyped, Device!vSubCommand_GenerateKey, Device!vSubCommand_Import,
      Device!pkiVars, Device!Goes
<1>3. tx' \in Seq(Outputs)
  <2>1. PICK echo : echo = Device!Echo(Head(rx)) /\ echo \in Outputs
    BY <1>1, NoArg, OutputsTyped
  <2>2. PICK prompt : prompt = Device!Prompt /\ prompt \in Outputs
    BY <1>1, NoArg, OutputsTyped
  <2>3. <<echo>> \in Seq(Outputs) /\ <<echo, prompt>> \in Seq(Outputs)
    BY <2>1, <2>2
  <2>4. Device!io_print(<<echo>>) \/ Device!io_print(<<echo, prompt>>)
    BY <2>1, <2>2 DEF Device!vSubCommand_GenerateKey, Device!vSubCommand_Import
  <2>5. QED
    BY <2>3, <2>4, PrintTyped
<1>4. dev' \in Devices
  <2>1. ASSUME NEW at \in Words, NEW label \in Args, Device!Goes(at, label, line)
        PROVE  dev' \in Devices
    <3>1. dev' = [Device!IdleDevice EXCEPT !.at = at, !.label = label]
      BY <2>1 DEF Device!Goes
    <3>2. QED
      BY <1>1, <3>1, IdleTyped DEF Devices
  <2>2. /\ "destroy_prv" \in Words /\ "pem" \in Words /\ Device!None \in Args
        /\ Device!TLS_CERT_LABEL \in Args
    BY WordsHave, NoArg DEF Args, Device!TLS_CERT_LABEL
  <2>3. QED
    BY <1>1, <2>1, <2>2 DEF Device!vSubCommand_GenerateKey, Device!vSubCommand_Import
<1>5. QED
  BY <1>1, <1>2, <1>3, <1>4, KeptTyped

(***************************************************************************)
(* The lines of a file that is imported.                                   *)
(***************************************************************************)
LEMMA PemGoesOnTyped ==
  ASSUME DocumentsTyped, NEW line, Device!Reads(line), NEW got \in Seq(Parts),
         Device!PemGoesOn(line, TRUE, got)
  PROVE  dev' \in Devices /\ tx' \in Seq(Outputs) /\ host' = host /\ rx' \in Seq(Lines)
<1>1. Head(rx) \in Lines /\ rx' \in Seq(Lines)
  BY ReadsTyped
<1>2. dev' \in Devices
  <2>1. dev \in Devices
    BY DEF DocumentsTyped
  <2>2. dev' = [dev EXCEPT !.begun = TRUE, !.got = got, !.partial = FALSE]
    BY DEF Device!PemGoesOn
  <2>3. QED
    BY <2>1, <2>2 DEF Devices
<1>3. tx' \in Seq(Outputs)
  <2>1. PICK echo : echo = Device!Echo(Head(rx)) /\ echo \in Outputs
    BY <1>1, NoArg, OutputsTyped
  <2>2. PICK prompt : prompt = Device!Prompt /\ prompt \in Outputs
    BY <1>1, NoArg, OutputsTyped
  <2>3. <<echo, prompt>> \in Seq(Outputs)
    BY <2>1, <2>2
  <2>4. Device!io_print(<<echo, prompt>>)
    BY <2>1, <2>2 DEF Device!PemGoesOn
  <2>5. QED
    BY <2>3, <2>4, PrintTyped
<1>4. QED
  BY <1>1, <1>2, <1>3 DEF Device!PemGoesOn

LEMMA PemKeepsDocuments ==
  ASSUME DocumentsTyped, NEW line, Device!Reads(line), Device!xReadPemFromCliAsDer(line)
  PROVE  DocumentsTyped'
<1>1. /\ line.arg \in Args /\ line.doc \in SoundDocuments
      /\ rx' \in Seq(Lines)
  BY ReadsTyped
<1>2. StoresTyped' /\ host \in Scripts /\ dev.got \in Seq(Parts)
  BY SameStores DEF DocumentsTyped, Devices, Device!xReadPemFromCliAsDer, Device!pkiVars
<1>3. PICK part, altered : /\ part = [arg |-> line.arg, doc |-> line.doc]
                           /\ altered = [arg |-> line.arg, doc |-> Device!Altered]
  OBVIOUS
<1>4. part \in Parts /\ altered \in Parts
  BY <1>1, <1>3, AlteredSound DEF Parts
<1>5. <<>> \in Seq(Parts) /\ Append(dev.got, part) \in Seq(Parts)
        /\ Append(dev.got, altered) \in Seq(Parts)
  BY <1>2, <1>4
<1>6. Device!Error \in Outputs
  BY <1>1, NoArg, OutputsTyped, SpecialLines
<1>7. CASE \E got \in Seq(Parts) : Device!PemGoesOn(line, TRUE, got)
  <2>1. dev' \in Devices /\ tx' \in Seq(Outputs) /\ host' = host
    BY <1>7, PemGoesOnTyped
  <2>2. QED
    BY <1>1, <1>2, <2>1, KeptTyped
<1>8. CASE Device!PemAborted(line, <<>>) \/ Device!PemAborted(line, <<Device!Error>>)
  <2>1. \E out : /\ out = <<>> \/ \E o \in Outputs : out = <<o>>
                 /\ Device!Answers(line, out)
    BY <1>6, <1>8 DEF Device!PemAborted
  <2>2. dev' \in Devices /\ tx' \in Seq(Outputs) /\ host' = host
    BY <2>1, AnswerTyped
  <2>3. QED
    BY <1>1, <1>2, <2>2, KeptTyped
<1>9. QED
  BY <1>3, <1>5, <1>7, <1>8 DEF Device!xReadPemFromCliAsDer

LEMMA DecodedSound == DocumentsTyped => Device!Decoded \in SoundDocuments
<1> SUFFICES ASSUME DocumentsTyped PROVE Device!Decoded \in SoundDocuments
  OBVIOUS
<1>1. dev.got \in Seq(Parts)
  BY DEF DocumentsTyped, Devices
<1>2. Len(dev.got) = 2 => dev.got[1] \in Parts
  BY <1>1
<1>3. Len(dev.got) = 2 => dev.got[1].doc \in SoundDocuments
  BY <1>2 DEF Parts
<1>4. QED
  BY <1>3, AlteredSound DEF Device!Decoded

LEMMA ImportKeepsDocuments ==
  ASSUME DocumentsTyped, NEW line, Device!Reads(line),
         Device!vSubCommand_ImportCertificate(line) \/ Device!vSubCommand_ImportPubKey(line)
  PROVE  DocumentsTyped'
<1>1. rx' \in Seq(Lines)
  BY ReadsTyped
<1>2. StoresTyped /\ host \in Scripts /\ UNCHANGED <<conf, pairs>>
  BY DEF DocumentsTyped, Device!vSubCommand_ImportCertificate,
         Device!vSubCommand_ImportPubKey
<1>3. Device!Text \in Outputs /\ Device!Error \in Outputs
  BY <1>1, NoArg, OutputsTyped, SpecialLines
<1>4. \E out : /\ out = <<>> \/ \E o \in Outputs : out = <<o>>
               /\ Device!Answers(line, out)
  BY <1>3 DEF Device!vSubCommand_ImportCertificate, Device!vSubCommand_ImportPubKey
<1>5. dev' \in Devices /\ tx' \in Seq(Outputs) /\ host' = host
  BY <1>4, AnswerTyped
<1>6. StoresTyped'
  <2>1. CASE UNCHANGED Device!pkiVars
    BY <1>2, <2>1, SameStores DEF Device!pkiVars
  <2>2. CASE Device!xPkiWriteCertificate(dev.label, Device!Decoded)
    BY <1>2, <2>2, DecodedSound, WriteTyped
  <2>3. CASE Device!xPkiWritePubKey(dev.label, Device!SignerInStore)
    <3>1. PICK id : id = Device!xPkiObjectFromLabel(dev.label).id
      OBVIOUS
    <3>2. PICK key : key = [n |-> 0, curve |-> "secp256r1", pair |-> FALSE]
      OBVIOUS
    <3>3. keys' = [keys EXCEPT ![id] = key] /\ ps' = ps
      BY <2>3, <3>1, <3>2
      DEF Device!xPkiWritePubKey, Device!lWritePublicKeyToPSACrypto, Device!SignerInStore,
          Device!Key
    <3>4. key \in [n : Nat, curve : Words, pair : BOOLEAN]
      BY <3>2, WordsHave
    <3>5. keys' \in [Device!KeyIds -> [n : Nat, curve : Words, pair : BOOLEAN]]
      BY <1>2, <3>3, <3>4 DEF StoresTyped
    <3>6. QED
      BY <1>2, <3>3, <3>5 DEF StoresTyped
  <2>4. QED
    BY <2>1, <2>2, <2>3
    DEF Device!vSubCommand_ImportCertificate, Device!vSubCommand_ImportPubKey
<1>7. QED
  BY <1>1, <1>2, <1>5, <1>6, KeptTyped

LEMMA EmptyPemKeepsDocuments ==
  ASSUME DocumentsTyped, NEW line, Device!Reads(line), Device!EmptyPem(line)
  PROVE  DocumentsTyped'
<1>1. rx' \in Seq(Lines)
  BY ReadsTyped
<1>2. StoresTyped' /\ tx' \in Seq(Outputs) /\ host' \in Scripts /\ dev \in Devices
  BY SameStores DEF DocumentsTyped, Device!EmptyPem, Device!pkiVars
<1>3. dev' \in Devices
  <2>1. "halted" \in Words /\ dev' = [dev EXCEPT !.at = "halted"]
    BY WordsHave DEF Device!EmptyPem
  <2>2. QED
    BY <1>2, <2>1 DEF Devices
<1>4. QED
  BY <1>1, <1>2, <1>3, KeptTyped

(***************************************************************************)
(* The calls that generate a key, the reset, and the task that reads.      *)
(***************************************************************************)
LEMMA ControlKeepsDocuments ==
  ASSUME DocumentsTyped, Device!ReadControlC \/ Device!ReadPartial
  PROVE  DocumentsTyped'
<1>1. rx \in Seq(Lines) /\ rx # <<>>
  BY DEF DocumentsTyped, Device!ReadControlC, Device!ReadPartial, Device!Received
<1>2. Head(rx) \in Lines /\ rx' \in Seq(Lines)
  <2>1. rx' = Tail(rx)
    BY DEF Device!ReadControlC, Device!ReadPartial, Device!TakeLine
  <2>2. QED
    BY ONLY <1>1, <2>1
<1>3. StoresTyped' /\ host' \in Scripts
  BY SameStores
  DEF DocumentsTyped, Device!ReadControlC, Device!ReadPartial, Device!pkiVars
<1>4. dev' \in Devices
  BY DEF DocumentsTyped, Devices, Device!ReadControlC, Device!ReadPartial
<1>5. CASE Device!ReadControlC
  <2>1. PICK eol : eol = Device!Eol /\ eol \in Outputs
    BY NoArg, OutputsTyped, SpecialLines
  <2>2. PICK prompt : prompt = Device!Prompt /\ prompt \in Outputs
    BY NoArg, OutputsTyped, SpecialLines
  <2>3. <<eol, prompt>> \in Seq(Outputs) /\ Device!io_print(<<eol, prompt>>)
    BY <1>5, <2>1, <2>2 DEF Device!ReadControlC
  <2>4. tx' \in Seq(Outputs)
    BY <2>3, PrintTyped
  <2>5. QED
    BY <1>2, <1>3, <1>4, <2>4, KeptTyped
<1>6. CASE Device!ReadPartial
  <2>1. tx' \in Seq(Outputs)
    BY <1>6 DEF DocumentsTyped, Device!ReadPartial
  <2>2. QED
    BY <1>2, <1>3, <1>4, <2>1, KeptTyped
<1>7. QED
  BY <1>5, <1>6

LEMMA KeyTyped ==
  ASSUME StoresTyped, NEW id, NEW n \in Nat, NEW pair \in BOOLEAN,
         keys' = [keys EXCEPT ![id] = Device!Key(n, "secp256r1", pair)],
         ps' = ps, conf' = conf, pairs' \in Nat
  PROVE  StoresTyped'
<1>1. PICK key : key = Device!Key(n, "secp256r1", pair)
  OBVIOUS
<1>2. key \in [n : Nat, curve : Words, pair : BOOLEAN]
  BY <1>1, WordsHave DEF Device!Key
<1>3. keys' \in [Device!KeyIds -> [n : Nat, curve : Words, pair : BOOLEAN]]
  BY <1>1, <1>2 DEF StoresTyped
<1>4. QED
  BY <1>3 DEF StoresTyped

LEMMA DestroyedTyped ==
  ASSUME StoresTyped, Device!DestroyPrivate \/ Device!DestroyPublic,
         UNCHANGED <<conf, pairs>>
  PROVE  StoresTyped'
<1>1. PICK id : keys' = [keys EXCEPT ![id] = Device!NoKey] /\ ps' = ps
  BY DEF Device!DestroyPrivate, Device!DestroyPublic, Device!psa_destroy_key
<1>2. PICK key : key = Device!NoKey
  OBVIOUS
<1>3. key \in [n : Nat, curve : Words, pair : BOOLEAN]
  BY <1>2, WordsHave DEF Device!NoKey
<1>4. keys' \in [Device!KeyIds -> [n : Nat, curve : Words, pair : BOOLEAN]]
  BY <1>1, <1>2, <1>3 DEF StoresTyped
<1>5. QED
  BY <1>1, <1>4 DEF StoresTyped

LEMMA KeyStepsKeepDocuments ==
  ASSUME DocumentsTyped,
         Device!DestroyPrvKey \/ Device!DestroyPubKey \/ Device!GenerateKey
  PROVE  DocumentsTyped'
<1>1. StoresTyped'
  <2>1. StoresTyped /\ pairs \in Nat /\ conf' = conf
    BY DEF DocumentsTyped, StoresTyped, Device!DestroyPrvKey, Device!DestroyPubKey,
           Device!GenerateKey, Device!KeyStep
  <2>2. CASE Device!DestroyPrvKey \/ Device!DestroyPubKey
    BY <2>1, <2>2, DestroyedTyped DEF Device!DestroyPrvKey, Device!DestroyPubKey
  <2>3. CASE Device!GenerateKey
    <3>1. /\ keys' = [keys EXCEPT ![Device!PSA_TLS_PRV_KEY_ID] =
                        Device!Key(pairs + 1, "secp256r1", TRUE)]
          /\ ps' = ps /\ pairs' = pairs + 1
      BY <2>3 DEF Device!GenerateKey, Device!psa_generate_key
    <3>2. PICK n : n = pairs + 1 /\ n \in Nat
      BY <2>1
    <3>3. /\ keys' = [keys EXCEPT ![Device!PSA_TLS_PRV_KEY_ID] =
                        Device!Key(n, "secp256r1", TRUE)]
          /\ ps' = ps /\ pairs' \in Nat
      BY <3>1, <3>2
    <3>4. TRUE \in BOOLEAN
      OBVIOUS
    <3>5. QED
      BY <2>1, <3>2, <3>3, <3>4, KeyTyped
  <2>4. QED
    BY <2>2, <2>3
<1>2. dev' \in Devices
  <2>1. \E at \in Words : dev' = [dev EXCEPT !.at = at]
    BY WordsHave
    DEF Device!DestroyPrvKey, Device!DestroyPubKey, Device!GenerateKey, Device!KeyStep
  <2>2. QED
    BY <2>1 DEF DocumentsTyped, Devices
<1>3. CASE Device!GenerateKey
  BY <1>1, <1>2, <1>3, KeptTyped DEF DocumentsTyped, Device!GenerateKey, Device!KeyStep
<1>4. CASE Device!DestroyPrvKey \/ Device!DestroyPubKey
  BY <1>1, <1>2, <1>4, KeptTyped
  DEF DocumentsTyped, Device!DestroyPrvKey, Device!DestroyPubKey, Device!KeyStep
<1>5. QED
  BY <1>3, <1>4

LEMMA ImportPublicKeepsDocuments ==
  ASSUME DocumentsTyped, Device!ImportPubKey
  PROVE  DocumentsTyped'
<1>1. PICK n : n = keys[Device!PSA_TLS_PRV_KEY_ID].n /\ n \in Nat
  BY DEF DocumentsTyped, StoresTyped, Device!KeyIds
<1>2. StoresTyped'
  <2>1. keys' = [keys EXCEPT ![Device!PSA_TLS_PUB_KEY_ID] = Device!Key(n, "secp256r1", FALSE)]
    BY <1>1 DEF Device!ImportPubKey, Device!ImportPublic
  <2>2. ps' = ps /\ conf' = conf /\ pairs' \in Nat /\ StoresTyped
    BY DEF DocumentsTyped, StoresTyped, Device!ImportPubKey, Device!ImportPublic
  <2>3. QED
    BY <1>1, <2>1, <2>2, KeyTyped
<1>3. tx' \in Seq(Outputs)
  <2>1. PICK text : text = Device!Text /\ text \in Outputs
    BY NoArg, OutputsTyped, SpecialLines
  <2>2. PICK prompt : prompt = Device!Prompt /\ prompt \in Outputs
    BY NoArg, OutputsTyped, SpecialLines
  <2>3. PICK pub : /\ pub = Device!Printed(Device!Document("pub", n, Device!NoName, TRUE))
                   /\ pub \in Outputs
    <3>1. "pub" \in Words
      BY WordsHave
    <3>2. QED
      BY <1>1, <3>1, NoArg, SignedSound, PrintedTyped
  <2>4. <<text, pub, prompt>> \in Seq(Outputs)
    <3>1. text \in Outputs /\ pub \in Outputs /\ prompt \in Outputs
      BY <2>1, <2>2, <2>3
    <3>2. QED
      BY ONLY <3>1
  <2>5. Device!io_print(<<text, pub, prompt>>)
    BY <1>1, <2>1, <2>2, <2>3 DEF Device!ImportPubKey
  <2>6. QED
    BY <2>4, <2>5, PrintTyped
<1>4. dev' \in Devices /\ rx' \in Seq(Lines) /\ host' \in Scripts
  BY IdleTyped DEF DocumentsTyped, Device!ImportPubKey
<1>5. QED
  BY <1>2, <1>3, <1>4, KeptTyped

LEMMA GenerateFailsKeepsDocuments ==
  ASSUME DocumentsTyped, Device!GenerateKeyFails
  PROVE  DocumentsTyped'
<1>1. tx' \in Seq(Outputs)
  <2>1. PICK error : error = Device!Error /\ error \in Outputs
    BY NoArg, OutputsTyped, SpecialLines
  <2>2. PICK prompt : prompt = Device!Prompt /\ prompt \in Outputs
    BY NoArg, OutputsTyped, SpecialLines
  <2>3. <<error, prompt>> \in Seq(Outputs) /\ Device!io_print(<<error, prompt>>)
    BY <2>1, <2>2 DEF Device!GenerateKeyFails
  <2>4. QED
    BY <2>3, PrintTyped
<1>2. dev' \in Devices /\ rx' \in Seq(Lines) /\ host' \in Scripts
  BY IdleTyped DEF DocumentsTyped, Device!GenerateKeyFails
<1>3. StoresTyped'
  BY SameStores DEF DocumentsTyped, Device!GenerateKeyFails, Device!pkiVars
<1>4. QED
  BY <1>1, <1>2, <1>3, KeptTyped

LEMMA RestartKeepsDocuments ==
  ASSUME DocumentsTyped, NEW out \in Seq(Outputs), Device!Restart(out)
  PROVE  DocumentsTyped'
<1>1. tx' \in Seq(Outputs)
  <2>1. PICK prompt : prompt = Device!Prompt /\ prompt \in Outputs
    BY NoArg, OutputsTyped, SpecialLines
  <2>2. <<prompt>> \in Seq(Outputs)
    BY <2>1
  <2>3. out \o <<prompt>> \in Seq(Outputs) /\ Device!io_print(out \o <<prompt>>)
    BY <2>1, <2>2 DEF Device!Restart
  <2>4. QED
    BY <2>3, PrintTyped
<1>2. dev' \in Devices /\ rx' \in Seq(Lines) /\ host' \in Scripts
  BY IdleTyped DEF DocumentsTyped, Device!Restart
<1>3. StoresTyped'
  BY DEF DocumentsTyped, StoresTyped, Device!Restart, Device!pkiVars
<1>4. QED
  BY <1>1, <1>2, <1>3, KeptTyped

LEMMA ResetKeepsDocuments ==
  ASSUME DocumentsTyped,
         Device!vResetCommand \/ Device!PowerFails \/ Device!ResetButton
  PROVE  DocumentsTyped'
<1>1. CASE Device!vResetCommand
  <2>1. rx \in Seq(Lines) /\ rx # <<>>
    BY <1>1 DEF DocumentsTyped, Device!vResetCommand
  <2>2. Head(rx) \in Lines
    BY <2>1
  <2>3. PICK echo : echo = Device!Echo(Head(rx)) /\ echo \in Outputs
    BY <2>2, NoArg, OutputsTyped
  <2>4. PICK text : text = Device!Text /\ text \in Outputs
    BY <2>2, NoArg, OutputsTyped
  <2>5. <<echo, text>> \in Seq(Outputs) /\ Device!Restart(<<echo, text>>)
    BY <1>1, <2>3, <2>4 DEF Device!vResetCommand
  <2>6. QED
    BY <2>5, RestartKeepsDocuments
<1>2. CASE Device!PowerFails \/ Device!ResetButton
  <2>1. <<>> \in Seq(Outputs)
    OBVIOUS
  <2>2. QED
    BY <1>2, <2>1, RestartKeepsDocuments DEF Device!PowerFails, Device!ResetButton
<1>3. QED
  BY <1>1, <1>2

LEMMA CliKeepsDocuments ==
  ASSUME DocumentsTyped, Device!SignaturesFit, Device!Task_CLI
  PROVE  DocumentsTyped'
<1>1. ASSUME NEW line, Device!Reads(line),
             \/ Device!NotRecognized(line) \/ Device!vSubCommand_GetConfig(line)
             \/ Device!vSubCommand_SetConfig(line) \/ Device!vSubCommand_CommitConfig(line)
             \/ Device!vSubCommand_GenerateKey(line) \/ Device!vSubCommand_GenerateCsr(line)
             \/ Device!vSubCommand_GenerateCertificate(line) \/ Device!vSubCommand_Import(line)
             \/ Device!xReadPemFromCliAsDer(line) \/ Device!vSubCommand_ImportCertificate(line)
             \/ Device!EmptyPem(line) \/ Device!vSubCommand_ImportPubKey(line)
             \/ Device!vSubCommand_ExportKey(line) \/ Device!vSubCommand_ExportCertificate(line)
      PROVE  DocumentsTyped'
  BY <1>1, QueriesKeepDocuments, CsrKeepsDocuments, CertificateKeepsDocuments,
     StartedKeepDocuments, PemKeepsDocuments, ImportKeepsDocuments, EmptyPemKeepsDocuments,
     Zenon
<1>2. QED
  BY <1>1, ControlKeepsDocuments, KeyStepsKeepDocuments, ImportPublicKeepsDocuments,
     GenerateFailsKeepsDocuments, ResetKeepsDocuments
  DEF Device!Task_CLI

(***************************************************************************)
(* The script on the host.                                                 *)
(***************************************************************************)
LEMMA NextTyped ==
  ASSUME DocumentsTyped, tx # <<>>
  PROVE  /\ Device!NextLine \in Outputs /\ Device!Unread \in Seq(Outputs)
         /\ Device!NextLine.k \in Words /\ Device!NextLine.line \in Lines
         /\ Device!NextLine.doc \in SoundDocuments
<1>1. tx \in Seq(Outputs)
  BY DEF DocumentsTyped
<1>2. CASE Device!Joined
  <2>1. Len(tx) > 1
    BY <1>2 DEF Device!Joined
  <2>2. tx[2] \in Outputs /\ SubSeq(tx, 3, Len(tx)) \in Seq(Outputs)
    BY ONLY <1>1, <2>1
  <2>3. Device!NextLine = tx[2] /\ Device!Unread = SubSeq(tx, 3, Len(tx))
    BY <1>2 DEF Device!NextLine, Device!Unread
  <2>4. QED
    BY <2>2, <2>3 DEF Outputs
<1>3. CASE ~Device!Joined
  <2>1. tx[1] \in Outputs /\ Tail(tx) \in Seq(Outputs)
    BY <1>1
  <2>2. Device!NextLine = tx[1] /\ Device!Unread = Tail(tx)
    BY <1>3 DEF Device!NextLine, Device!Unread
  <2>3. QED
    BY <2>1, <2>2 DEF Outputs
<1>4. QED
  BY <1>2, <1>3

LEMMA ReadOnTyped ==
  ASSUME DocumentsTyped, tx # <<>>, NEW h \in Scripts, Device!ReadOn(h)
  PROVE  DocumentsTyped'
<1>1. Device!Unread \in Seq(Outputs)
  BY NextTyped
<1>2. StoresTyped'
  BY SameStores DEF DocumentsTyped, Device!ReadOn, Device!pkiVars
<1>3. tx' \in Seq(Outputs) /\ rx' \in Seq(Lines) /\ dev' \in Devices /\ host' \in Scripts
  BY <1>1 DEF DocumentsTyped, Device!ReadOn
<1>4. QED
  BY <1>2, <1>3, KeptTyped

LEMMA StartAgainTyped ==
  ASSUME DocumentsTyped, NEW script \in Words, NEW final \in SoundDocuments,
         Device!StartAgain(script, final), rx' \in Seq(Lines), tx' \in Seq(Outputs)
  PROVE  DocumentsTyped'
<1>1. StoresTyped'
  BY SameStores DEF DocumentsTyped, Device!StartAgain, Device!pkiVars
<1>2. dev' \in Devices
  BY DEF DocumentsTyped, Devices, Device!StartAgain
<1>3. host' \in Scripts
  <2>1. host.issuer \in Issuers /\ host.arg \in Args
    BY DEF DocumentsTyped, Scripts
  <2>2. QED
    BY <2>1, ScriptTyped DEF Device!StartAgain
<1>4. QED
  BY <1>1, <1>2, <1>3, KeptTyped

LEMMA GiveUpTyped ==
  ASSUME DocumentsTyped, Device!GiveUp, rx' \in Seq(Lines), tx' \in Seq(Outputs)
  PROVE  DocumentsTyped'
<1>1. host.script \in Words /\ host.final \in SoundDocuments
  BY DEF DocumentsTyped, Scripts
<1>2. QED
  BY <1>1, StartAgainTyped DEF Device!GiveUp

LEMMA ReadAndGiveUpTyped ==
  ASSUME DocumentsTyped, tx # <<>>, Device!ReadAndGiveUp
  PROVE  DocumentsTyped'
<1>1. tx' \in Seq(Outputs) /\ rx' \in Seq(Lines)
  BY NextTyped DEF DocumentsTyped, Device!ReadAndGiveUp
<1>2. QED
  BY <1>1, GiveUpTyped DEF Device!ReadAndGiveUp

LEMMA NamesTyped ==
  ASSUME DocumentsTyped
  PROVE  Device!StagedName \in Args
<1>1. host.arg \in Args /\ host.name \in Args /\ "random" \in Args
  BY DEF DocumentsTyped, Scripts, Args
<1>2. QED
  BY <1>1 DEF Device!StagedName, Device!RandomName

LEMMA SentTyped ==
  ASSUME DocumentsTyped, NEW at \in Device!Steps
  PROVE  Device!SentLine(at) \in Lines
<1>1. /\ Device!StagedName \in Args /\ "none" \in Args
      /\ {"tls_cert", "root_ca_cert", "ota_signer_pub"} \subseteq Args
  BY NamesTyped DEF Args
<1>2. at \in Words /\ "conf_set" \in Words /\ "import_cert" \in Words /\ "import_key" \in Words
  BY WordsHave DEF Device!Steps, Words
<1>3. QED
  BY <1>1, <1>2, NothingSound, LineTyped
  DEF Device!SentLine, Device!None, Device!TLS_CERT_LABEL, Device!TLS_ROOT_CA_CERT_LABEL,
      Device!OTA_SIGNING_KEY_LABEL

LEMMA FileTyped ==
  ASSUME DocumentsTyped, NEW at \in Device!Writes
  PROVE  Device!FileOf(at) \in SoundDocuments
<1>1. host.doc \in SoundDocuments
  BY DEF DocumentsTyped, Scripts
<1>2. Device!RootCa \in SoundDocuments /\ Device!SignerKey \in SoundDocuments
  <2>1. "root" \in Words /\ "signer" \in Words
    BY WordsHave
  <2>2. QED
    BY <2>1, NoArg, SignedSound DEF Device!RootCa, Device!SignerKey
<1>3. QED
  BY <1>1, <1>2 DEF Device!FileOf, Device!Writes

\* The place of the script tells which answers it may be waiting for: there is a
\* step behind each of them.
Awaited == (Device!Steps \ {"reset"}) \cup {"sync"}

AnswersAwaited ==
    /\ host.phase = "readback" => host.at \in Device!Steps
    /\ host.phase \in {"pem", "response"} => host.at \in Awaited

DocumentsInv == DocumentsTyped /\ AnswersAwaited

\* The script stays where it is, or the device answers while it waits.
LEMMA SamePlace ==
  ASSUME AnswersAwaited, host'.at = host.at, host'.phase = host.phase
  PROVE  AnswersAwaited'
BY DEF AnswersAwaited

\* A script that is started again waits for nothing.
LEMMA StartedAwaits ==
  ASSUME NEW script, NEW final, Device!StartAgain(script, final)
  PROVE  AnswersAwaited'
<1>1. host'.phase = "none"
  BY DEF Device!StartAgain, Device!NewScript, Device!None
<1>2. QED
  BY <1>1 DEF AnswersAwaited

LEMMA ReadAndGiveUpKeeps ==
  ASSUME DocumentsInv, tx # <<>>, Device!ReadAndGiveUp
  PROVE  DocumentsInv'
<1>1. DocumentsTyped'
  BY ReadAndGiveUpTyped DEF DocumentsInv
<1>2. AnswersAwaited'
  BY StartedAwaits DEF Device!ReadAndGiveUp, Device!GiveUp
<1>3. QED
  BY <1>1, <1>2 DEF DocumentsInv

LEMMA ReadOnKeeps ==
  ASSUME DocumentsInv, tx # <<>>, NEW h \in Scripts, Device!ReadOn(h),
         h.phase = "readback" => h.at \in Device!Steps,
         h.phase \in {"pem", "response"} => h.at \in Awaited
  PROVE  DocumentsInv'
<1>1. DocumentsTyped'
  BY ReadOnTyped DEF DocumentsInv
<1>2. AnswersAwaited'
  BY DEF Device!ReadOn, AnswersAwaited
<1>3. QED
  BY <1>1, <1>2 DEF DocumentsInv

LEMMA OpenKeeps ==
  ASSUME DocumentsInv, Device!Open
  PROVE  DocumentsInv'
<1>1. host' = [host EXCEPT !.at = "sync", !.phase = "response"] /\ host \in Scripts
  BY DEF DocumentsInv, DocumentsTyped, Device!Open
<1>2. host' \in Scripts
  BY <1>1, WordsHave DEF Scripts
<1>3. AnswersAwaited'
  BY <1>1 DEF AnswersAwaited, Awaited, Scripts
<1>4. StoresTyped'
  BY SameStores DEF DocumentsInv, DocumentsTyped, Device!Open, Device!pkiVars
<1>5. rx' \in Seq(Lines)
  BY SpecialLines DEF DocumentsInv, DocumentsTyped, Device!Open
<1>6. tx' \in Seq(Outputs) /\ dev' \in Devices
  BY DEF DocumentsInv, DocumentsTyped, Device!Open
<1>7. QED
  BY <1>2, <1>3, <1>4, <1>5, <1>6, KeptTyped DEF DocumentsInv

LEMMA SendKeeps ==
  ASSUME DocumentsInv, Device!_send_cmd
  PROVE  DocumentsInv'
<1>1. host' = [host EXCEPT !.phase = "readback"] /\ host \in Scripts
  BY DEF DocumentsInv, DocumentsTyped, Device!_send_cmd
<1>2. host' \in Scripts
  BY <1>1, WordsHave DEF Scripts
<1>3. AnswersAwaited'
  BY <1>1 DEF AnswersAwaited, Scripts, Device!_send_cmd
<1>4. StoresTyped'
  BY SameStores DEF DocumentsInv, DocumentsTyped, Device!_send_cmd, Device!pkiVars
<1>5. rx' \in Seq(Lines)
  <2>1. Device!SentLine(host.at) \in Lines
    BY SentTyped DEF DocumentsInv, Device!_send_cmd
  <2>2. QED
    BY <2>1 DEF DocumentsInv, DocumentsTyped, Device!_send_cmd
<1>6. tx' \in Seq(Outputs) /\ dev' \in Devices
  BY DEF DocumentsInv, DocumentsTyped, Device!_send_cmd
<1>7. QED
  BY <1>2, <1>3, <1>4, <1>5, <1>6, KeptTyped DEF DocumentsInv

LEMMA ReadbackKeeps ==
  ASSUME DocumentsInv, Device!Readback
  PROVE  DocumentsInv'
<1>1. tx # <<>> /\ host \in Scripts /\ host.at \in Device!Steps
  BY DEF DocumentsInv, DocumentsTyped, AnswersAwaited, Device!Readback
<1>2. CASE Device!ReadAndGiveUp
  BY <1>1, <1>2, ReadAndGiveUpKeeps
<1>3. ASSUME NEW phase \in {"done", "pem", "response"},
             phase \in {"pem", "response"} => host.at # "reset",
             Device!ReadOn([host EXCEPT !.phase = phase])
      PROVE  DocumentsInv'
  <2>1. PICK h : h = [host EXCEPT !.phase = phase]
    OBVIOUS
  <2>2. h \in Scripts /\ h.phase = phase /\ h.at = host.at
    BY <1>1, <1>3, <2>1, WordsHave DEF Scripts
  <2>3. h.phase \in {"pem", "response"} => h.at \in Awaited
    BY <1>1, <1>3, <2>2 DEF Awaited
  <2>4. h.phase # "readback"
    BY <1>3, <2>2
  <2>5. Device!ReadOn(h)
    BY <1>3, <2>1
  <2>6. QED
    BY <1>1, <2>2, <2>3, <2>4, <2>5, ReadOnKeeps
<1>4. CASE Device!ReadOn([host EXCEPT !.phase =
             CASE host.at = "reset" -> "done"
               [] host.at \in Device!Asks -> "pem"
               [] OTHER -> "response"])
  <2>1. PICK phase : phase = CASE host.at = "reset" -> "done"
                               [] host.at \in Device!Asks -> "pem"
                               [] OTHER -> "response"
    OBVIOUS
  <2>2. /\ phase \in {"done", "pem", "response"}
        /\ phase \in {"pem", "response"} => host.at # "reset"
    BY <2>1 DEF Device!Asks
  <2>3. QED
    BY <1>3, <1>4, <2>1, <2>2
<1>5. QED
  BY <1>2, <1>4 DEF Device!Readback

LEMMA WritePemKeeps ==
  ASSUME DocumentsInv, Device!_write_pem
  PROVE  DocumentsInv'
<1>1. /\ host' = [host EXCEPT !.phase = "pem"] /\ host \in Scripts
      /\ host.at \in Device!Writes /\ tx # <<>>
  BY DEF DocumentsInv, DocumentsTyped, Device!_write_pem
<1>2. host' \in Scripts
  BY <1>1, WordsHave DEF Scripts
<1>3. AnswersAwaited'
  BY <1>1 DEF AnswersAwaited, Awaited, Scripts, Device!Writes, Device!Steps
<1>4. StoresTyped'
  BY SameStores DEF DocumentsInv, DocumentsTyped, Device!_write_pem, Device!pkiVars
<1>5. rx' \in Seq(Lines)
  <2>1. Device!Pem(Device!FileOf(host.at)) \in Seq(Lines)
    BY <1>1, FileTyped, PemTyped DEF DocumentsInv
  <2>2. QED
    BY <2>1 DEF DocumentsInv, DocumentsTyped, Device!_write_pem
<1>6. tx' \in Seq(Outputs) /\ dev' \in Devices
  BY <1>1, NextTyped DEF DocumentsInv, DocumentsTyped, Device!_write_pem
<1>7. QED
  BY <1>2, <1>3, <1>4, <1>5, <1>6, KeptTyped DEF DocumentsInv

LEMMA ReadPemKeeps ==
  ASSUME DocumentsInv, Device!ReadPemLine
  PROVE  DocumentsInv'
<1>1. /\ tx # <<>> /\ host \in Scripts /\ host.phase = "pem" /\ host.at \in Awaited
      /\ host.got \in Seq(Lines)
  BY DEF DocumentsInv, DocumentsTyped, AnswersAwaited, Scripts, Device!ReadPemLine
<1>2. PICK o : o = Device!NextLine
  OBVIOUS
<1>3. o.line \in Lines /\ o.doc \in SoundDocuments
  BY <1>1, <1>2, NextTyped DEF DocumentsInv
<1>4. CASE Device!ReadAndGiveUp
  BY <1>1, <1>4, ReadAndGiveUpKeeps
<1>5. ASSUME NEW h \in Scripts, h.at = host.at, h.phase \in {"pem", "response"},
             Device!ReadOn(h)
      PROVE  DocumentsInv'
  BY <1>1, <1>5, ReadOnKeeps
<1>6. CASE Device!ReadOn([host EXCEPT !.phase = "response", !.doc = Device!NextLine.doc])
  <2>1. PICK h : h = [host EXCEPT !.phase = "response", !.doc = o.doc]
    OBVIOUS
  <2>2. h \in Scripts /\ h.at = host.at /\ h.phase = "response"
    BY <1>1, <1>3, <2>1, WordsHave DEF Scripts
  <2>3. Device!ReadOn(h)
    BY <1>2, <1>6, <2>1
  <2>4. QED
    BY <1>5, <2>2, <2>3
<1>7. CASE Device!ReadOn([host EXCEPT !.got = Append(host.got, Device!NextLine.line),
              !.phase = IF Device!NextLine.k = "echo" /\ Device!NextLine.line.c = "END"
                        THEN "response" ELSE "pem"])
  <2>1. PICK phase : /\ phase = IF o.k = "echo" /\ o.line.c = "END" THEN "response" ELSE "pem"
                     /\ phase \in {"pem", "response"}
    OBVIOUS
  <2>2. PICK got : got = Append(host.got, o.line) /\ got \in Seq(Lines)
    <3>1. Append(host.got, o.line) \in Seq(Lines)
      BY <1>1, <1>3
    <3>2. QED
      BY <3>1
  <2>3. PICK h : h = [host EXCEPT !.got = got, !.phase = phase]
    OBVIOUS
  <2>4. h \in Scripts /\ h.at = host.at /\ h.phase = phase
    BY <1>1, <2>1, <2>2, <2>3, WordsHave DEF Scripts
  <2>5. Device!ReadOn(h)
    BY <1>2, <1>7, <2>1, <2>2, <2>3
  <2>6. QED
    BY <1>5, <2>1, <2>4, <2>5
<1>8. CASE Device!ReadOn(host)
  BY <1>1, <1>5, <1>8
<1>9. QED
  BY <1>4, <1>6, <1>7, <1>8 DEF Device!ReadPemLine

LEMMA ReadResponseKeeps ==
  ASSUME DocumentsInv, Device!ReadResponseLine
  PROVE  DocumentsInv'
<1>1. /\ tx # <<>> /\ host \in Scripts /\ host.phase = "response" /\ host.at \in Awaited
  BY DEF DocumentsInv, DocumentsTyped, AnswersAwaited, Scripts, Device!ReadResponseLine
<1>2. PICK o : o = Device!NextLine
  OBVIOUS
<1>3. o.doc \in SoundDocuments
  BY <1>1, <1>2, NextTyped DEF DocumentsInv
<1>4. PICK name : name = o.doc.name /\ name \in Args
  BY <1>3 DEF SoundDocuments
<1>5. ASSUME NEW h \in Scripts, h.at = host.at, h.phase = "response", Device!ReadOn(h)
      PROVE  DocumentsInv'
  BY <1>1, <1>5, ReadOnKeeps
<1>6. CASE Device!ReadOn([host EXCEPT !.error = TRUE])
  <2>1. PICK h : h = [host EXCEPT !.error = TRUE]
    OBVIOUS
  <2>2. h \in Scripts /\ h.at = host.at /\ h.phase = "response"
    BY <1>1, <2>1 DEF Scripts
  <2>3. QED
    BY <1>5, <1>6, <2>1, <2>2
<1>7. CASE Device!ReadOn([host EXCEPT !.name = Device!NextLine.doc.name, !.known = TRUE])
  <2>1. PICK h : h = [host EXCEPT !.name = name, !.known = TRUE]
    OBVIOUS
  <2>2. h \in Scripts /\ h.at = host.at /\ h.phase = "response"
    BY <1>1, <1>4, <2>1 DEF Scripts
  <2>3. Device!ReadOn(h)
    BY <1>2, <1>4, <1>7, <2>1
  <2>4. QED
    BY <1>5, <2>2, <2>3
<1>8. CASE Device!ReadOn(host)
  BY <1>1, <1>5, <1>8
<1>9. QED
  BY <1>6, <1>7, <1>8 DEF Device!ReadResponseLine

\* Behind every answer there is a step, and nothing is awaited before it is taken.
LEMMA FollowingStep ==
  ASSUME host.at \in Awaited
  PROVE  Device!FollowsOk(host.at) \in Words
<1>1. /\ {"conf_set", "conf_commit", "generate_key", "generate_csr", "generate_cert"}
             \subseteq Words
      /\ {"create_certificate", "import_key", "import_root", "conf_get", "reset", "done"}
             \subseteq Words
  BY WordsHave
<1>2. host.at \in {"sync", "conf_get", "conf_set", "conf_commit", "generate_key",
                   "generate_csr", "generate_cert", "import_cert", "import_root",
                   "import_key"}
  BY DEF Awaited, Device!Steps
<1>3. QED
  BY <1>1, <1>2 DEF Device!FollowsOk

LEMMA AnswerEndsKeeps ==
  ASSUME DocumentsInv, Device!AnswerEnds
  PROVE  DocumentsInv'
<1>1. /\ tx # <<>> /\ host \in Scripts /\ host.at \in Awaited
      /\ host.doc \in SoundDocuments /\ host.pub \in SoundDocuments
  BY DEF DocumentsInv, DocumentsTyped, AnswersAwaited, Scripts, Device!AnswerEnds
<1>2. CASE Device!ReadAndGiveUp
  BY <1>1, <1>2, ReadAndGiveUpKeeps
<1>3. CASE Device!ReadOn([host EXCEPT !.at = Device!FollowsOk(host.at), !.phase = "send",
              !.pub = IF host.at = "generate_key" THEN host.doc ELSE host.pub,
              !.got = <<>>])
  <2>1. PICK at : at = Device!FollowsOk(host.at) /\ at \in Words
    BY <1>1, FollowingStep
  <2>2. PICK pub : /\ pub = IF host.at = "generate_key" THEN host.doc ELSE host.pub
                   /\ pub \in SoundDocuments
    BY <1>1
  <2>3. PICK got : got = <<>> /\ got \in Seq(Lines)
    <3>1. <<>> \in Seq(Lines)
      OBVIOUS
    <3>2. QED
      BY <3>1
  <2>4. PICK h : h = [host EXCEPT !.at = at, !.phase = "send", !.pub = pub, !.got = got]
    OBVIOUS
  <2>5. h \in Scripts /\ h.phase = "send"
    BY <1>1, <2>1, <2>2, <2>3, <2>4, WordsHave DEF Scripts
  <2>6. Device!ReadOn(h)
    BY <1>3, <2>1, <2>2, <2>3, <2>4
  <2>7. QED
    BY <1>1, <2>5, <2>6, ReadOnKeeps
<1>4. QED
  BY <1>2, <1>3 DEF Device!AnswerEnds

\* The certificate the cloud issues is signed.
LEMMA CertificateSound ==
  ASSUME DocumentsInv
  PROVE  Device!Certificate \in SoundDocuments /\ host.doc \in SoundDocuments
<1>1. host.doc \in SoundDocuments
  BY DEF DocumentsInv, DocumentsTyped, Scripts
<1>2. PICK doc, type, yes : doc = host.doc /\ type = "cert" /\ yes = TRUE
  OBVIOUS
<1>3. PICK cert : cert = [doc EXCEPT !.type = type, !.signed = yes]
  OBVIOUS
<1>4. cert \in [type : Words, n : Nat, name : Args, signed : BOOLEAN] /\ cert.signed = yes
  <2>1. doc \in [type : Words, n : Nat, name : Args, signed : BOOLEAN]
    BY <1>1, <1>2 DEF SoundDocuments
  <2>2. type \in Words /\ yes \in BOOLEAN
    BY <1>2, WordsHave
  <2>3. QED
    BY <1>3, <2>1, <2>2
<1>5. cert \in SoundDocuments
  BY <1>2, <1>4 DEF SoundDocuments
<1>6. Device!Certificate = cert
  BY <1>2, <1>3 DEF Device!Certificate
<1>7. QED
  BY <1>1, <1>5, <1>6

LEMMA AwsKeeps ==
  ASSUME DocumentsInv,
         \/ Device!CreateCertificate \/ Device!AttachThingPrincipal
         \/ Device!AttachPolicy
  PROVE  DocumentsInv'
<1>1. PICK at, next, doc :
          /\ at \in {"create_certificate", "attach_thing_principal", "attach_policy"}
          /\ next \in Words /\ doc \in SoundDocuments /\ Device!AwsCall(at, next, doc)
  BY CertificateSound, WordsHave
  DEF Device!CreateCertificate, Device!AttachThingPrincipal, Device!AttachPolicy
<1>2. host.at = at /\ host' = [host EXCEPT !.at = next, !.doc = doc] /\ host \in Scripts
  BY <1>1 DEF DocumentsInv, DocumentsTyped, Device!AwsCall
<1>3. host' \in Scripts /\ host'.phase = host.phase
  BY <1>1, <1>2 DEF Scripts
<1>4. host.phase \notin {"readback", "pem", "response"}
  BY <1>1, <1>2 DEF DocumentsInv, AnswersAwaited, Awaited, Device!Steps
<1>5. AnswersAwaited'
  BY <1>3, <1>4 DEF AnswersAwaited
<1>6. DocumentsTyped'
  BY <1>1, <1>3, SameStores, KeptTyped
  DEF DocumentsInv, DocumentsTyped, Device!AwsCall, Device!pkiVars
<1>7. QED
  BY <1>5, <1>6 DEF DocumentsInv

\* Attempts that end, in order or not.
LEMMA EndedKeeps ==
  ASSUME DocumentsInv,
         \/ Device!Complete \/ Device!Timeout \/ Device!AwsCallFails \/ Device!Killed
  PROVE  DocumentsInv'
<1>1. /\ DocumentsTyped /\ rx \in Seq(Lines) /\ tx \in Seq(Outputs)
      /\ host.script \in Words /\ host.doc \in SoundDocuments
      /\ host.final \in SoundDocuments /\ "ota" \in Words
  BY WordsHave DEF DocumentsInv, DocumentsTyped, Scripts
<1>2. tx' \in Seq(Outputs)
  BY <1>1 DEF Device!Complete, Device!Timeout, Device!AwsCallFails, Device!Killed
<1>3. rx' \in Seq(Lines)
  <2>1. CASE Device!Complete \/ Device!Timeout \/ Device!AwsCallFails
    BY <1>1, <2>1 DEF Device!Complete, Device!Timeout, Device!AwsCallFails
  <2>2. CASE Device!Killed
    <3>1. CASE rx' = Append(rx, Device!Partial)
      BY <1>1, <3>1, SpecialLines
    <3>2. CASE /\ host.at \in Device!Writes
               /\ rx' = rx \o SubSeq(Device!Pem(Device!FileOf(host.at)), 1, 2)
      <4>1. PICK pem : pem = Device!Pem(Device!FileOf(host.at))
        OBVIOUS
      <4>2. pem \in Seq(Lines) /\ Len(pem) = 4
        BY <1>1, <3>2, <4>1, FileTyped, PemTyped
      <4>3. SubSeq(pem, 1, 2) \in Seq(Lines)
        BY ONLY <4>2, SMTT(20)
      <4>4. QED
        BY <1>1, <3>2, <4>1, <4>3
    <3>3. QED
      BY <2>2, <3>1, <3>2 DEF Device!Killed
  <2>3. QED
    BY <2>1, <2>2
<1>4. \E script \in Words, final \in SoundDocuments : Device!StartAgain(script, final)
  BY <1>1 DEF Device!Complete, Device!Timeout, Device!AwsCallFails, Device!Killed, Device!GiveUp
<1>5. DocumentsTyped'
  BY <1>1, <1>2, <1>3, <1>4, StartAgainTyped
<1>6. AnswersAwaited'
  BY <1>4, StartedAwaits
<1>7. QED
  BY <1>5, <1>6 DEF DocumentsInv

LEMMA LineDamagedKeeps ==
  ASSUME DocumentsInv, Device!LineDamaged
  PROVE  DocumentsInv'
<1>1. PICK i \in DOMAIN rx :
         \/ rx' = [rx EXCEPT ![i] = Device!Garbled(rx[i])]
         \/ rx' = SubSeq(rx, 1, i - 1) \o SubSeq(rx, i + 1, Len(rx))
  BY DEF Device!LineDamaged
<1>2. rx \in Seq(Lines) /\ i \in 1 .. Len(rx) /\ rx[i] \in Lines
  BY DEF DocumentsInv, DocumentsTyped
<1>3. rx' \in Seq(Lines)
  <2>1. CASE rx' = [rx EXCEPT ![i] = Device!Garbled(rx[i])]
    <3>1. PICK line \in Lines : line = Device!Garbled(rx[i])
      BY <1>2, LineChanged
    <3>2. QED
      BY <1>2, <2>1, <3>1
  <2>2. CASE rx' = SubSeq(rx, 1, i - 1) \o SubSeq(rx, i + 1, Len(rx))
    <3>1. SubSeq(rx, 1, i - 1) \in Seq(Lines) /\ SubSeq(rx, i + 1, Len(rx)) \in Seq(Lines)
      BY ONLY <1>2
    <3>2. QED
      BY <2>2, <3>1
  <2>3. QED
    BY <1>1, <2>1, <2>2
<1>4. DocumentsTyped'
  <2>1. tx' \in Seq(Outputs) /\ dev' \in Devices /\ host' \in Scripts
    BY DEF DocumentsInv, DocumentsTyped, Device!LineDamaged
  <2>2. StoresTyped'
    BY SameStores DEF DocumentsInv, DocumentsTyped, Device!LineDamaged, Device!pkiVars
  <2>3. QED
    BY <1>3, <2>1, <2>2, KeptTyped DEF DocumentsInv
<1>5. AnswersAwaited'
  BY SamePlace DEF DocumentsInv, Device!LineDamaged
<1>6. QED
  BY <1>4, <1>5 DEF DocumentsInv

LEMMA TerminalKeeps ==
  ASSUME DocumentsInv, Device!Terminal
  PROVE  DocumentsInv'
<1>1. PICK c \in {"export_key", "export_cert"} :
          rx' = <<Device!Line(c, Device!None, Device!Nothing)>>
  BY DEF Device!Terminal
<1>2. rx' \in Seq(Lines)
  <2>1. c \in Words
    BY <1>1, WordsHave
  <2>2. PICK line \in Lines : line = Device!Line(c, Device!None, Device!Nothing)
    BY <2>1, NoArg, NothingSound, LineTyped
  <2>3. QED
    BY <1>1, <2>2
<1>3. DocumentsTyped'
  <2>1. tx' \in Seq(Outputs) /\ dev' \in Devices /\ host' \in Scripts
    BY DEF DocumentsInv, DocumentsTyped, Device!Terminal
  <2>2. StoresTyped'
    BY SameStores DEF DocumentsInv, DocumentsTyped, Device!Terminal, Device!pkiVars
  <2>3. QED
    BY <1>2, <2>1, <2>2, KeptTyped DEF DocumentsInv
<1>4. AnswersAwaited'
  BY SamePlace DEF DocumentsInv, Device!Terminal
<1>5. QED
  BY <1>3, <1>4 DEF DocumentsInv

\* The device does not reach the script but through what it prints.
LEMMA DeviceKeepsScript ==
  ASSUME DocumentsInv,
         Device!Task_CLI \/ Device!PowerFails \/ Device!ResetButton
  PROVE  host' = host
BY ZenonT(40)
DEF Device!Task_CLI, Device!PowerFails, Device!ResetButton, Device!Restart,
       Device!ReadControlC, Device!ReadPartial, Device!vResetCommand, Device!DestroyPrvKey,
       Device!DestroyPubKey, Device!GenerateKey, Device!KeyStep, Device!ImportPubKey,
       Device!GenerateKeyFails, Device!NotRecognized, Device!vSubCommand_GetConfig,
       Device!vSubCommand_SetConfig, Device!vSubCommand_CommitConfig,
       Device!vSubCommand_GenerateKey, Device!vSubCommand_GenerateCsr,
       Device!vSubCommand_GenerateCertificate, Device!vSubCommand_Import,
       Device!xReadPemFromCliAsDer, Device!vSubCommand_ImportCertificate, Device!EmptyPem,
       Device!vSubCommand_ImportPubKey, Device!vSubCommand_ExportKey,
       Device!vSubCommand_ExportCertificate, Device!Answers, Device!Goes,
       Device!PemAborted, Device!PemGoesOn

LEMMA StepKeepsDocuments ==
  DocumentsInv /\ Device!SignaturesFit /\ [Device!Next]_(Device!vars) => DocumentsInv'
<1> SUFFICES ASSUME DocumentsInv, Device!SignaturesFit, [Device!Next]_(Device!vars)
             PROVE  DocumentsInv'
  OBVIOUS
<1>1. CASE Device!Task_CLI \/ Device!PowerFails \/ Device!ResetButton
  <2>1. DocumentsTyped'
    BY <1>1, CliKeepsDocuments, ResetKeepsDocuments DEF DocumentsInv
  <2>2. AnswersAwaited'
    BY <1>1, DeviceKeepsScript, SamePlace DEF DocumentsInv
  <2>3. QED
    BY <2>1, <2>2 DEF DocumentsInv
<1>2. CASE Device!HostScript
  BY <1>2, OpenKeeps, SendKeeps, ReadbackKeeps, WritePemKeeps, ReadPemKeeps,
     ReadResponseKeeps, AnswerEndsKeeps, AwsKeeps, EndedKeeps
  DEF Device!HostScript
<1>3. CASE Device!AwsCallFails \/ Device!Killed \/ Device!LineDamaged \/ Device!Terminal
  BY <1>3, EndedKeeps, LineDamagedKeeps, TerminalKeeps
<1>4. CASE UNCHANGED Device!vars
  BY <1>4
  DEF Device!vars, Device!pkiVars, DocumentsInv, DocumentsTyped, StoresTyped,
      AnswersAwaited
<1>5. QED
  BY <1>1, <1>2, <1>3, <1>4 DEF Device!Next

\* What is printed is one of the sound documents.
LEMMA PrintedAreSigned == DocumentsTyped => DocumentsAreSigned
<1> SUFFICES ASSUME DocumentsTyped, NEW i \in DOMAIN tx, tx[i].k = "pem",
                    tx[i].doc # Altered
             PROVE  tx[i].doc.signed
  BY DEF DocumentsAreSigned
<1>1. tx[i] \in Outputs
  BY DEF DocumentsTyped
<1>2. tx[i].doc # Device!Nothing /\ tx[i].doc \in SoundDocuments
  BY <1>1 DEF Outputs
<1>3. QED
  BY <1>2 DEF SoundDocuments

\* Every request and certificate the device prints carries the signature the
\* secure side made, for signatures of any width the buffer is made for, whatever
\* zero bytes or set sign bits their two numbers begin with; and however often
\* attempts were interrupted, lines damaged or the power lost.
THEOREM DeviceDocumentsSigned ==
  ASSUME Device!SignaturesFit
  PROVE  Device!Spec => []DocumentsAreSigned
<1>1. Device!Init => DocumentsInv
  <2>1. Device!Init => host.phase = "none"
    BY DEF Device!Init, Device!NewScript, Device!None
  <2>2. QED
    BY <2>1, InitTyped DEF DocumentsInv, AnswersAwaited
<1>2. DocumentsInv /\ [Device!Next]_(Device!vars) => DocumentsInv'
  BY StepKeepsDocuments
<1>3. Device!Spec => []DocumentsInv
  BY <1>1, <1>2, PTL DEF Device!Spec
<1>4. DocumentsInv => DocumentsAreSigned
  BY PrintedAreSigned DEF DocumentsInv
<1>5. QED
  BY <1>3, <1>4, PTL
=============================================================================
