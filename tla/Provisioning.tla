---------------------------- MODULE Provisioning ----------------------------
(***************************************************************************)
(* Provisioning of a device: the scripts on the host (provision.py and     *)
(* import_ota_key.py), the serial line, the command line of the device     *)
(* (provision/cli) and the PKI objects it manages (PkiObjects).            *)
(*                                                                         *)
(* The host sends lines and reads lines back; there is no framing, no      *)
(* sequence number and no retry: the script gives up at the first surprise *)
(* and its user starts it again.  A restart meets whatever the last attempt *)
(* left on the line, in the input buffer of the device, in its stores and  *)
(* in the account of the cloud.                                            *)
(***************************************************************************)
EXTENDS PkiObjects, PkiDocuments

CONSTANTS
    Issuers,         \* the values of --cert-issuer that are tried
    NamesGiven,      \* the values of --thing-name that are tried, NoName: none
    FactoryNames,    \* the names a device may have before
    RawSignatures,   \* signatures as the secure side makes them
    SignatureBuffer, \* PSA_SIGNATURE_MAX_SIZE, at the scale of RawSignatures
    MaxFaults        \* bound on the failures of a behaviour

VARIABLES
    conf,     \* thing name: the copy in RAM and the one in storage
    dev,      \* the command line task
    rx,       \* lines on their way to the device
    host,     \* the running script
    aws,      \* certificates known to the cloud service
    made,     \* number of key pairs generated so far
    faults    \* failures so far

vars == <<pkiVars, conf, dev, rx, tx, host, aws, made, faults>>

NoName == None
RandomName == "random"

\* A raw signature is two numbers of the same width, neither of which is zero; the
\* buffer it is converted in (for a curve of 521 bits) leaves room for the headers
\* of one of the curve of the device, and a length takes a single byte.
SignaturesFit ==
    /\ SignatureBuffer \in Nat
    /\ \A raw \in RawSignatures : \E half \in 1 .. 60 :
          /\ raw \in [1 .. (2 * half) -> 0 .. 255]
          /\ \E i \in 1 .. half : raw[i] # 0
          /\ \E i \in (half + 1) .. (2 * half) : raw[i] # 0
          /\ SignatureBuffer >= 2 * half + 8

ASSUME ProvisioningAssumption ==
    /\ Issuers \subseteq {"self", "aws"}
    /\ RandomName \notin FactoryNames \cup NamesGiven
    /\ MaxFaults \in Nat
    /\ SignaturesFit

(***************************************************************************)
(* Documents, lines and output.                                            *)
(***************************************************************************)
RootCa == Document("root", 0, NoName, TRUE)
SignerKey == Document("signer", 0, NoName, TRUE)

Line(c, arg, doc) == [c |-> c, arg |-> arg, doc |-> doc]

CtrlC == Line("ctrl_c", None, Nothing)
Partial == Line("partial", None, Nothing)
Garbled(line) == [line EXCEPT !.c = "garbled"]

Pem(doc) ==
    <<Line("BEGIN", None, Nothing), Line("BODY", "1", doc), Line("BODY", "2", doc),
      Line("END", None, Nothing)>>

Output(k, line, doc) == [k |-> k, line |-> line, doc |-> doc]

Prompt == Output("prompt", CtrlC, Nothing)
Eol == Output("eol", CtrlC, Nothing)
Echo(line) == Output("echo", line, Nothing)
Text == Output("text", CtrlC, Nothing)
Error == Output("error", CtrlC, Nothing)
Printed(doc) == Output("pem", CtrlC, doc)
Settings(name) == Output("conf", CtrlC, Document("conf", 0, name, TRUE))

(***************************************************************************)
(* Initial state: a device that was started, with or without a name, and a *)
(* script about to be run.                                                 *)
(***************************************************************************)
IdleDevice ==
    [at |-> "prompt", label |-> None, begun |-> FALSE, got |-> <<>>,
     partial |-> FALSE]

\* arg is the name given to the script, name the one read from the device, final
\* the certificate of the attempt that came to its end.
NewScript(script, issuer, arg, final) ==
    [at |-> "off", phase |-> None, script |-> script, issuer |-> issuer,
     arg |-> arg, name |-> NoName, known |-> FALSE, pub |-> Nothing,
     doc |-> Nothing, got |-> <<>>, error |-> FALSE, final |-> final]

Init ==
    /\ PkiInit
    /\ \E name \in FactoryNames : conf = [cached |-> name, stored |-> name]
    /\ dev = IdleDevice
    /\ rx = <<>>
    /\ tx = <<Prompt>>
    /\ \E issuer \in Issuers, arg \in NamesGiven :
           host = NewScript("provision", issuer, arg, Nothing)
    /\ aws = [certs |-> {}, attached |-> {}, policed |-> {}]
    /\ made = 0
    /\ faults = 0

Fault == faults < MaxFaults /\ faults' = faults + 1

io_print(out) == tx' = tx \o out

(***************************************************************************)
(* The command line task.  io_readline prints the prompt, echoes what it   *)
(* stores and returns at the end of a line; Control-C prints a new prompt   *)
(* and leaves the characters of the line where they are.                   *)
(***************************************************************************)
Received(line) == dev.at \in {"prompt", "pem"} /\ rx # <<>> /\ line = Head(rx)

TakeLine == rx' = Tail(rx)

ReadControlC_Silent ==
    /\ Received(CtrlC)
    /\ TakeLine
    /\ UNCHANGED <<pkiVars, conf, dev, tx, host, aws, made, faults>>

ReadControlC ==
    /\ Received(CtrlC)
    /\ TakeLine
    /\ io_print(<<Eol, Prompt>>)
    /\ UNCHANGED <<pkiVars, conf, dev, host, aws, made, faults>>

ReadPartial ==
    /\ Received(Partial)
    /\ TakeLine
    /\ dev' = [dev EXCEPT !.partial = TRUE]
    /\ UNCHANGED <<pkiVars, conf, tx, host, aws, made, faults>>

\* A line that ends, as io_readline returns it: what was left of the line before
\* is in front of it.
Reads(line) ==
    /\ rx # <<>>
    /\ Head(rx).c \notin {"ctrl_c", "partial"}
    /\ line = IF dev.partial THEN Garbled(Head(rx)) ELSE Head(rx)
    /\ TakeLine

\* FreeRTOS_CLIProcessCommand finds the command of a line.
Command(line, c) == dev.at = "prompt" /\ line.c = c

Commands == {"conf_get", "conf_set", "conf_commit", "generate_key",
             "generate_csr", "generate_cert", "import_cert", "import_key",
             "export_key", "export_cert", "reset"}

\* The task prints the echo of the line and what the command prints, and is
\* back in io_readline.
Answers(line, out) ==
    /\ dev' = IdleDevice
    /\ io_print(<<Echo(Head(rx))>> \o out \o <<Prompt>>)
    /\ UNCHANGED <<host, aws>>

NotRecognized(line) ==
    /\ dev.at = "prompt"
    /\ line.c \notin Commands
    /\ Answers(line, <<Text>>)
    /\ UNCHANGED <<pkiVars, conf, made, faults>>

vSubCommand_GetConfig(line) ==
    /\ Command(line, "conf_get")
    /\ Answers(line, <<Settings(conf.cached)>>)
    /\ UNCHANGED <<pkiVars, conf, made, faults>>

vSubCommand_SetConfig(line) ==
    /\ Command(line, "conf_set")
    /\ Answers(line, <<Text>>)
    /\ conf' = [conf EXCEPT !.cached = line.arg]
    /\ UNCHANGED <<pkiVars, made, faults>>

\* KVStore_xCommitChanges; a name that could not be stored is an error.
vSubCommand_CommitConfig(line) ==
    /\ Command(line, "conf_commit")
    /\ \/ /\ Answers(line, <<Text>>)
          /\ conf' = [conf EXCEPT !.stored = conf.cached]
          /\ UNCHANGED faults
       \/ /\ Answers(line, <<Error>>)
          /\ Fault
          /\ UNCHANGED conf
    /\ UNCHANGED <<pkiVars, made>>

(***************************************************************************)
(* pki generate key: xPkiGenerateECKeypair.                                *)
(***************************************************************************)
Goes(at, label, line) ==
    /\ dev' = [IdleDevice EXCEPT !.at = at, !.label = label]
    /\ UNCHANGED <<host, aws>>

vSubCommand_GenerateKey(line) ==
    /\ Command(line, "generate_key")
    /\ Goes("destroy_prv", None, line)
    /\ io_print(<<Echo(Head(rx))>>)
    /\ UNCHANGED <<pkiVars, conf, made, faults>>

\* One call of the secure side, and where the task goes on.
KeyStep(at, next) ==
    /\ dev.at = at
    /\ dev' = [dev EXCEPT !.at = next]
    /\ UNCHANGED <<conf, rx, tx, host, aws, faults>>

DestroyPrvKey == KeyStep("destroy_prv", "destroy_pub") /\ DestroyPrivate /\ UNCHANGED made

DestroyPubKey == KeyStep("destroy_pub", "generate") /\ DestroyPublic /\ UNCHANGED made

GenerateKey ==
    /\ KeyStep("generate", "import_pub")
    /\ psa_generate_key(made + 1)
    /\ made' = made + 1

\* The public key is read from the private one and stored under its own
\* identifier; the public key is printed.
ImportPubKey ==
    /\ dev.at = "import_pub"
    /\ xPkiReadPrivateKey(TLS_KEY_PRV_LABEL)
    /\ ImportPublic
    /\ dev' = IdleDevice
    /\ io_print(<<Text,
               Printed(Document("pub", keys[PSA_TLS_PRV_KEY_ID].n, NoName, TRUE)),
               Prompt>>)
    /\ UNCHANGED <<conf, rx, host, aws, made, faults>>

\* A call that fails ends the command with an error; what the calls before it
\* did stays.  An identifier in use makes the calls that create a key fail.
GenerateKeyFails ==
    /\ dev.at \in {"destroy_prv", "destroy_pub", "generate", "import_pub"}
    /\ \/ Fault
       \/ /\ \/ dev.at = "generate" /\ ~Unused(PSA_TLS_PRV_KEY_ID)
             \/ dev.at = "import_pub" /\ ~Unused(PSA_TLS_PUB_KEY_ID)
          /\ UNCHANGED faults
    /\ dev' = IdleDevice
    /\ io_print(<<Error, Prompt>>)
    /\ UNCHANGED <<pkiVars, conf, rx, host, aws, made>>

(***************************************************************************)
(* pki generate csr and pki generate cert: the name of the device, signed  *)
(* with its private key.  When there is no key nothing is printed.         *)
(***************************************************************************)
Signed == {psa_ecdsa_sign(raw, SignatureBuffer) : raw \in RawSignatures}

vSubCommand_GenerateCsr(line) ==
    /\ Command(line, "generate_csr")
    /\ \/ /\ xPkiReadPrivateKey(TLS_KEY_PRV_LABEL)
          /\ \E signed \in Signed :
                Answers(line, <<Printed(Document("csr", keys[PSA_TLS_PRV_KEY_ID].n,
                                                 conf.cached, signed))>>)
          /\ UNCHANGED faults
       \/ /\ ~xPkiReadPrivateKey(TLS_KEY_PRV_LABEL)
          /\ Answers(line, <<>>)
          /\ UNCHANGED faults
       \/ /\ Fault
          /\ Answers(line, <<>>)
    /\ UNCHANGED <<pkiVars, conf, made>>

\* The certificate is stored and printed; whether it could be stored is not
\* looked at.
vSubCommand_GenerateCertificate(line) ==
    /\ Command(line, "generate_cert")
    /\ \/ /\ xPkiReadPrivateKey(TLS_KEY_PRV_LABEL)
          /\ \E signed \in Signed :
                LET cert == Document("cert", keys[PSA_TLS_PRV_KEY_ID].n,
                                     conf.cached, signed)
                IN  /\ Answers(line, <<Printed(cert)>>)
                    /\ \/ xPkiWriteCertificate(TLS_CERT_LABEL, cert) /\ UNCHANGED faults
                       \/ Fault /\ UNCHANGED pkiVars
       \/ /\ ~xPkiReadPrivateKey(TLS_KEY_PRV_LABEL)
          /\ Answers(line, <<>>)
          /\ UNCHANGED <<pkiVars, faults>>
       \/ /\ Fault
          /\ Answers(line, <<>>)
          /\ UNCHANGED pkiVars
    /\ UNCHANGED <<conf, made>>

(***************************************************************************)
(* pki import: the label, or the one of the device certificate, is copied  *)
(* out of the input buffer, then the PEM lines are read into that buffer   *)
(* one after the other.                                                    *)
(***************************************************************************)
vSubCommand_Import(line) ==
    /\ dev.at = "prompt"
    /\ line.c \in {"import_cert", "import_key"}
    /\ Goes("pem", IF line.arg = None THEN TLS_CERT_LABEL ELSE line.arg, line)
    /\ io_print(<<Echo(Head(rx)), Prompt>>)
    /\ UNCHANGED <<pkiVars, conf, made, faults>>

\* A key is imported under the labels of keys, anything else is a certificate.
IsKeyLabel(label) == label = OTA_SIGNING_KEY_LABEL

PemAborted(line, out) == dev.at = "pem" /\ Answers(line, out)

PemGoesOn(line, begun, got) ==
    /\ dev.at = "pem"
    /\ dev' = [dev EXCEPT !.begun = begun, !.got = got, !.partial = FALSE]
    /\ io_print(<<Echo(Head(rx)), Prompt>>)
    /\ UNCHANGED <<host, aws>>

\* One line of xReadPemFromCliAsDer before the last one.  A line whose
\* characters were damaged may still decode.
xReadPemFromCliAsDer(line) ==
    /\ \/ ~dev.begun /\ line.c = "BEGIN" /\ PemGoesOn(line, TRUE, <<>>)
       \/ ~dev.begun /\ line.c # "BEGIN" /\ PemAborted(line, <<Error>>)
       \/ /\ dev.begun
          /\ line.c = "BODY"
          /\ PemGoesOn(line, TRUE, Append(dev.got, [arg |-> line.arg, doc |-> line.doc]))
       \/ /\ dev.begun
          /\ line.c = "garbled"
          /\ PemGoesOn(line, TRUE, Append(dev.got, [arg |-> line.arg, doc |-> Altered]))
       \/ dev.begun /\ line.c \notin {"BODY", "END"} /\ PemAborted(line, <<>>)
    /\ UNCHANGED <<pkiVars, conf, made, faults>>

\* What the lines decode to: the document, if all of them are there.
Decoded ==
    LET got == dev.got
    IN  IF /\ Len(got) = 2 /\ got[1].arg = "1" /\ got[2].arg = "2"
           /\ got[1].doc = got[2].doc
        THEN got[1].doc ELSE Altered

EndOfPem(line) == dev.at = "pem" /\ dev.begun /\ line.c = "END"

\* The DER is parsed and written under the label; a damaged certificate may
\* still parse, a damaged key may not.
vSubCommand_ImportCertificate(line) ==
    /\ EndOfPem(line)
    /\ ~IsKeyLabel(dev.label)
    /\ dev.got # <<>>
    /\ \/ /\ Decoded.type \in {"cert", "root", "altered"}
          /\ xPkiWriteCertificate(dev.label, Decoded)
          /\ Answers(line, <<Text>>)
          /\ UNCHANGED faults
       \/ /\ Decoded.type \in {"cert", "root"}
          /\ xPkiObjectFromLabel(dev.label).form = "none"
          /\ Answers(line, <<Error>>)
          /\ UNCHANGED <<pkiVars, faults>>
       \/ /\ Decoded.type \notin {"cert", "root"}
          /\ Answers(line, <<>>)
          /\ UNCHANGED <<pkiVars, faults>>
       \/ /\ Fault
          /\ Answers(line, <<Error>>)
          /\ UNCHANGED pkiVars
    /\ UNCHANGED <<conf, made>>

\* configASSERT( uxDerDataLen > 0 ).
EmptyPem(line) ==
    /\ EndOfPem(line)
    /\ ~IsKeyLabel(dev.label)
    /\ dev.got = <<>>
    /\ dev' = [dev EXCEPT !.at = "halted"]
    /\ UNCHANGED <<pkiVars, conf, tx, host, aws, made, faults>>

\* The key of the signer of firmware images, as the key store holds it.
SignerInStore == Key(0, "secp256r1", FALSE)

vSubCommand_ImportPubKey(line) ==
    /\ EndOfPem(line)
    /\ IsKeyLabel(dev.label)
    /\ \/ /\ Decoded.type = "signer"
          /\ xPkiWritePubKey(dev.label, SignerInStore)
          /\ Answers(line, <<Text>>)
          /\ UNCHANGED faults
       \/ /\ Decoded.type = "signer" => ~Unused(xPkiObjectFromLabel(dev.label).id)
          /\ Answers(line, <<Error>>)
          /\ UNCHANGED <<pkiVars, faults>>
       \/ /\ Fault
          /\ Answers(line, <<Error>>)
          /\ UNCHANGED pkiVars
    /\ UNCHANGED <<conf, made>>

(***************************************************************************)
(* pki export and reset.                                                   *)
(***************************************************************************)
vSubCommand_ExportKey(line) ==
    /\ Command(line, "export_key")
    /\ IF xPkiReadPublicKeyDer(TLS_KEY_PUB_LABEL)
       THEN Answers(line, <<Printed(Document("pub", keys[PSA_TLS_PUB_KEY_ID].n,
                                             NoName, TRUE))>>)
       ELSE Answers(line, <<Error>>)
    /\ UNCHANGED <<pkiVars, conf, made, faults>>

vSubCommand_ExportCertificate(line) ==
    /\ Command(line, "export_cert")
    /\ Answers(line, IF xPkiReadCertificate(TLS_CERT_LABEL)
                     THEN <<Printed(ps[PSA_TLS_CERT_ID])>> ELSE <<>>)
    /\ UNCHANGED <<pkiVars, conf, made, faults>>

\* The device starts again: the name is read from storage, what was on its way
\* to it is lost.
Restart(out) ==
    /\ conf' = [conf EXCEPT !.cached = conf.stored]
    /\ dev' = IdleDevice
    /\ rx' = <<>>
    /\ io_print(out \o <<Prompt>>)
    /\ UNCHANGED <<pkiVars, host, aws, made>>

vResetCommand ==
    /\ dev.at = "prompt" /\ ~dev.partial
    /\ rx # <<>> /\ Head(rx).c = "reset"
    /\ Restart(<<Echo(Head(rx)), Text>>)
    /\ UNCHANGED faults

Task_CLI ==
    \/ ReadControlC \/ ReadPartial
    \/ \E line \in {IF rx = <<>> THEN CtrlC
                    ELSE IF dev.partial THEN Garbled(Head(rx)) ELSE Head(rx)} :
          /\ dev.at \in {"prompt", "pem"}
          /\ Reads(line)
          /\ \/ NotRecognized(line) \/ vSubCommand_GetConfig(line)
             \/ vSubCommand_SetConfig(line) \/ vSubCommand_CommitConfig(line)
             \/ vSubCommand_GenerateKey(line) \/ vSubCommand_GenerateCsr(line)
             \/ vSubCommand_GenerateCertificate(line) \/ vSubCommand_Import(line)
             \/ xReadPemFromCliAsDer(line) \/ vSubCommand_ImportCertificate(line)
             \/ EmptyPem(line) \/ vSubCommand_ImportPubKey(line)
             \/ vSubCommand_ExportKey(line) \/ vSubCommand_ExportCertificate(line)
    \/ vResetCommand
    \/ DestroyPrvKey \/ DestroyPubKey \/ GenerateKey \/ ImportPubKey
    \/ GenerateKeyFails

(***************************************************************************)
(* The host.  A step of a script sends a line and reads the answer in up   *)
(* to three phases: the echo of the line (_send_cmd), the echo of a PEM    *)
(* file it wrote or the PEM file it asked for (_read_pem), and the rest up *)
(* to a prompt with nothing behind it (_read_response).                    *)
(***************************************************************************)
Steps == {"conf_get", "conf_set", "conf_commit", "generate_key", "generate_csr",
          "generate_cert", "import_cert", "import_root", "import_key", "reset"}

StagedName == IF host.arg # NoName THEN host.arg
              ELSE IF host.name = NoName THEN RandomName ELSE host.name

SentLine(at) ==
    CASE at = "conf_set"    -> Line("conf_set", StagedName, Nothing)
      [] at = "import_cert" -> Line("import_cert", None, Nothing)
      [] at = "import_root" -> Line("import_cert", TLS_ROOT_CA_CERT_LABEL, Nothing)
      [] at = "import_key"  -> Line("import_key", OTA_SIGNING_KEY_LABEL, Nothing)
      [] OTHER              -> Line(at, None, Nothing)

FileOf(at) ==
    CASE at = "import_cert" -> host.doc
      [] at = "import_root" -> RootCa
      [] at = "import_key"  -> SignerKey

Writes == {"import_cert", "import_root", "import_key"}
Asks == {"generate_key", "generate_csr", "generate_cert"}

\* A script that is started again meets what was on its way.
StartAgain(script, final) ==
    /\ host' = NewScript(script, host.issuer, host.arg, final)
    /\ UNCHANGED <<pkiVars, conf, dev, made>>

GiveUp == StartAgain(host.script, host.final) /\ UNCHANGED aws

\* TargetDevice.__init__: the input received so far is dropped; _sync.
Open ==
    /\ host.at = "off"
    /\ host' = [host EXCEPT !.at = "sync", !.phase = "response"]
    /\ tx' = <<>>
    /\ rx' = Append(rx, CtrlC)
    /\ UNCHANGED <<pkiVars, conf, dev, aws, made, faults>>

_send_cmd ==
    /\ host.at \in Steps
    /\ host.phase = "send"
    /\ host' = [host EXCEPT !.phase = "readback"]
    /\ rx' = Append(rx, SentLine(host.at))
    /\ UNCHANGED <<pkiVars, conf, dev, tx, aws, made, faults>>

\* readline: up to the end of a line; a prompt is returned alone when nothing
\* follows it for a while.
Joined == tx[1].k = "prompt" /\ Len(tx) > 1
NextLine == IF Joined THEN tx[2] ELSE tx[1]
Unread == IF Joined THEN SubSeq(tx, 3, Len(tx)) ELSE Tail(tx)

\* The host reads a line.  It has the patience to wait for what the device is
\* about to print, or (a failure) it has not.
Readline ==
    /\ tx # <<>>
    /\ \/ tx = <<Prompt>> /\ rx # <<>> /\ Fault
       \/ ~(tx = <<Prompt>> /\ rx # <<>>) /\ UNCHANGED faults

ReadOn(h) ==
    /\ Readline
    /\ tx' = Unread
    /\ host' = h
    /\ UNCHANGED <<pkiVars, conf, dev, rx, aws, made>>

ReadAndGiveUp == Readline /\ GiveUp /\ tx' = Unread /\ UNCHANGED rx

\* Mutant of Contains: the echo is not compared.
Contains_Any(echo, sent) == TRUE

\* cmd not in cmd_readback: an echo that goes on behind the command is taken, so
\* one of pki import cert root_ca_cert is for pki import cert.
Contains(echo, sent) == echo.c = sent.c /\ sent.arg \in {None, echo.arg}

EchoIsTaken == NextLine.k = "echo" /\ Contains(NextLine.line, SentLine(host.at))

Readback ==
    /\ host.phase = "readback"
    /\ tx # <<>>
    /\ IF EchoIsTaken
       THEN /\ host.at \notin Writes
            /\ ReadOn([host EXCEPT !.phase =
                          CASE host.at = "reset" -> "done"
                            [] host.at \in Asks -> "pem"
                            [] OTHER -> "response"])
       ELSE ReadAndGiveUp

\* _write_pem sends the file behind the echo of the command.
_write_pem ==
    /\ host.phase = "readback"
    /\ host.at \in Writes
    /\ tx # <<>>
    /\ EchoIsTaken
    /\ Readline
    /\ tx' = Unread
    /\ rx' = rx \o Pem(FileOf(host.at))
    /\ host' = [host EXCEPT !.phase = "pem"]
    /\ UNCHANGED <<pkiVars, conf, dev, aws, made>>

\* _read_pem: a whole file, or the echo of one line by line; every line behind
\* the header counts as one of the file.
ReadPemLine ==
    /\ host.phase = "pem"
    /\ tx # <<>>
    /\ CASE NextLine.k = "prompt" -> ReadAndGiveUp
         [] NextLine.k = "pem" /\ host.got = <<>> ->
              ReadOn([host EXCEPT !.phase = "response", !.doc = NextLine.doc])
         [] /\ NextLine.k # "prompt"
            /\ host.got # <<>> \/ (NextLine.k = "echo" /\ NextLine.line.c = "BEGIN") ->
              ReadOn([host EXCEPT !.got = Append(host.got, NextLine.line),
                                  !.phase = IF NextLine.k = "echo" /\ NextLine.line.c = "END"
                                            THEN "response" ELSE "pem"])
         [] NextLine.k = "error" /\ host.got = <<>> -> ReadAndGiveUp
         [] OTHER -> ReadOn(host)

\* _read_response.
ReadResponseLine ==
    /\ host.phase = "response"
    /\ tx # <<>>
    /\ NextLine.k # "prompt"
    /\ ReadOn(IF NextLine.k = "error" THEN [host EXCEPT !.error = TRUE]
              ELSE IF NextLine.k = "conf" /\ host.at = "conf_get"
                   THEN [host EXCEPT !.name = NextLine.doc.name, !.known = TRUE]
              ELSE host)

FollowsOk(at) ==
    CASE at = "sync"         -> IF host.script = "ota" THEN "import_key" ELSE "conf_get"
      [] at = "conf_get"     -> IF StagedName # host.name THEN "conf_set" ELSE "conf_commit"
      [] at = "conf_set"     -> "conf_commit"
      [] at = "conf_commit"  -> "generate_key"
      [] at = "generate_key" -> IF host.issuer = "aws" THEN "generate_csr" ELSE "generate_cert"
      [] at \in {"generate_csr", "generate_cert"} -> "create_certificate"
      [] at = "import_cert"  -> "import_root"
      [] at = "import_root"  -> "reset"
      [] at = "import_key"   -> "done"

validate_pubkey == host.doc.type = "pub"

validate_csr ==
    host.doc.type = "csr" /\ host.doc.n = host.pub.n /\ host.doc.name = StagedName

validate_certificate ==
    host.doc.type = "cert" /\ host.doc.n = host.pub.n /\ host.doc.name = StagedName

\* The echo of a PEM file is the file.
PemReadback(file) == host.got = file

\* What is checked before the script goes on; the configuration must have been
\* read before a value of it is set.
Valid ==
    /\ ~host.error
    /\ host.at = "conf_get" => host.known
    /\ host.at = "generate_key" => validate_pubkey
    /\ host.at = "generate_csr" => validate_csr
    /\ host.at = "generate_cert" => validate_certificate
    /\ host.at \in Writes => PemReadback(Pem(FileOf(host.at)))

\* The prompt at the end of an answer.
AnswerEnds ==
    /\ host.phase = "response"
    /\ tx # <<>>
    /\ NextLine.k = "prompt"
    /\ IF Valid
       THEN ReadOn([host EXCEPT !.at = FollowsOk(host.at), !.phase = "send",
                                !.pub = IF host.at = "generate_key" THEN host.doc ELSE host.pub,
                                !.got = <<>>])
       ELSE ReadAndGiveUp

\* register_thing_csr and register_thing_cert: three calls that matter, each of
\* which may raise an exception.
Certificate == [host.doc EXCEPT !.type = "cert", !.signed = TRUE]

AwsCall(at, next, doc) ==
    /\ host.at = at
    /\ host' = [host EXCEPT !.at = next, !.doc = doc]
    /\ UNCHANGED <<pkiVars, conf, dev, rx, tx, made, faults>>

CreateCertificate ==
    /\ AwsCall("create_certificate", "attach_thing_principal", Certificate)
    /\ aws' = [aws EXCEPT !.certs = @ \cup {Certificate}]

AttachThingPrincipal ==
    /\ AwsCall("attach_thing_principal", "attach_policy", host.doc)
    /\ aws' = [aws EXCEPT !.attached = @ \cup {[cert |-> host.doc, thing |-> StagedName]}]

AttachPolicy ==
    /\ AwsCall("attach_policy",
               IF host.issuer = "aws" THEN "import_cert" ELSE "import_root", host.doc)
    /\ aws' = [aws EXCEPT !.policed = @ \cup {host.doc}]

AwsSteps == {"create_certificate", "attach_thing_principal", "attach_policy"}

AwsCallFails ==
    /\ host.at \in AwsSteps
    /\ Fault
    /\ GiveUp
    /\ UNCHANGED <<rx, tx>>

\* main prints that the process is complete and sends reset; an attempt is counted
\* as complete when the reset was echoed.  The key of the signer is imported with
\* the other script.
Complete ==
    /\ host.phase = "done"
    /\ StartAgain("ota", host.doc)
    /\ UNCHANGED <<aws, rx, tx, faults>>

\* Nothing arrives for the length of a timeout: because nothing will, or (a
\* failure) because the device takes longer.
Timeout ==
    /\ host.phase \in {"readback", "pem", "response"}
    /\ tx = <<>>
    /\ \/ dev.at \in {"prompt", "pem"} /\ rx = <<>> /\ UNCHANGED faults
       \/ Fault
    /\ GiveUp
    /\ UNCHANGED <<rx, tx>>

HostScript ==
    \/ Open \/ _send_cmd \/ Readback \/ _write_pem \/ ReadPemLine
    \/ ReadResponseLine \/ AnswerEnds \/ CreateCertificate
    \/ AttachThingPrincipal \/ AttachPolicy \/ Complete \/ Timeout

(***************************************************************************)
(* The rest of the world.                                                  *)
(***************************************************************************)
\* The script is ended in the middle of a line or of a file.
Killed ==
    /\ Fault
    /\ \/ /\ host.phase = "send" /\ host.at \in Steps
          /\ rx' = Append(rx, Partial)
       \/ /\ host.phase = "readback" /\ host.at \in Writes
          /\ rx' = rx \o SubSeq(Pem(FileOf(host.at)), 1, 2)
    /\ GiveUp
    /\ UNCHANGED tx

\* A character on the line is damaged, or a line is lost.
LineDamaged ==
    /\ Fault
    /\ \E i \in DOMAIN rx :
          /\ rx[i].c \notin {"ctrl_c", "partial", "garbled"}
          /\ \/ rx' = [rx EXCEPT ![i] = Garbled(rx[i])]
             \/ rx' = SubSeq(rx, 1, i - 1) \o SubSeq(rx, i + 1, Len(rx))
    /\ UNCHANGED <<pkiVars, conf, dev, tx, host, aws, made>>

PowerFails == Fault /\ Restart(<<>>)

\* A device that stopped at an assertion is started again by its user.
ResetButton == dev.at = "halted" /\ Restart(<<>>) /\ UNCHANGED faults

\* When all is done its user looks at the keys of the device in a terminal.
Terminal ==
    /\ host.at = "done"
    /\ rx = <<>>
    /\ tx' = <<>>
    /\ \E c \in {"export_key", "export_cert"} : rx' = <<Line(c, None, Nothing)>>
    /\ UNCHANGED <<pkiVars, conf, dev, host, aws, made, faults>>

Next == Task_CLI \/ HostScript \/ AwsCallFails \/ Killed \/ LineDamaged
           \/ PowerFails \/ ResetButton \/ Terminal

Spec == Init /\ [][Next]_vars

\* The task of the command line has a processor, the host has its timeouts, and
\* the user of the scripts starts them again until they come to an end.
FairSpec == Spec /\ WF_vars(Task_CLI) /\ WF_vars(HostScript) /\ WF_vars(ResetButton)

(***************************************************************************)
(* Properties.                                                             *)
(***************************************************************************)

\* The certificate of a provisioning that came to its end: the one the cloud
\* knows, attached to the thing with the name the device has stored, for the
\* private key in the device, which also has the root certificate.  The
\* certificate issued for a request is in the device, and so is its public key:
\* what the device exports afterwards is for the same key.  (A certificate the
\* device issued itself may be missing: see CompletedIsStored.)
CompletedIsConsistent ==
    host.final # Nothing =>
        LET cert == host.final
        IN  /\ cert \in aws.certs /\ cert \in aws.policed
            /\ [cert |-> cert, thing |-> conf.stored] \in aws.attached
            /\ cert.name = conf.stored
            /\ cert.n = keys[PSA_TLS_PRV_KEY_ID].n
            /\ ps[PSA_TLS_ROOT_CA_CERT_ID] = RootCa
            /\ host.issuer = "aws" => ps[PSA_TLS_CERT_ID] = cert
            /\ \A i \in DOMAIN tx :
                  /\ host.at = "done" /\ tx[i].k = "pem"
                  /\ tx[i].doc.type = "cert" => host.issuer = "aws"
                  => tx[i].doc.n = cert.n

\* The command line task never fails an assertion: a certificate is not empty
\* when it is parsed.
NoAssertFails == dev.at # "halted"

\* However an attempt was interrupted, starting the scripts again provisions
\* the device, and the key of the signer of images arrives.
ProvisioningCompletes ==
    /\ <>(host.final # Nothing)
    /\ <>[](keys[OTA_SIGNING_KEY_ID] = SignerInStore)

\* A device that was provisioned has its certificate: provision.py says that the
\* process is complete.
CompletedIsStored ==
    host.final # Nothing => ps[PSA_TLS_CERT_ID] = host.final
=============================================================================
