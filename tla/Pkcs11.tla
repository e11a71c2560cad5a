------------------------------- MODULE Pkcs11 -------------------------------
(***************************************************************************)
(* The PKCS #11 module over the PSA services (iot_pkcs11_psa.c and         *)
(* iot_pkcs11_psa_object_management.c): the list of objects known since    *)
(* C_Initialize, the keys and certificates kept in the secure side, and    *)
(* the find, digest, sign and verify operations of the sessions.  Tasks    *)
(* call the functions concurrently, each on a session of its own, as the   *)
(* notes of the functions ask for; a call is preempted wherever it enters  *)
(* the secure side or takes the mutex of the list.  The device may be      *)
(* reset at any moment.                                                    *)
(*                                                                         *)
(* An object is named by its kind, which stands for its label and for the  *)
(* handle the port uses for it; the application's handle is its place in   *)
(* the list.                                                               *)
(***************************************************************************)
EXTENDS Integers, FiniteSets

CONSTANTS
  Tasks,
  Certs,        \* kinds of certificates: device, JITP, root
  Algs,         \* algorithms of keys: "EC", "RSA"
  MaxObjects,   \* pkcs11configMAX_NUM_OBJECTS
  Volatile,     \* bound: the volatile keys made between two resets
  Callers,      \* Callers[f]: the tasks that use the functions of group f
  Exclusive,    \* TRUE: nobody calls while objects are made or destroyed
  None

Keys  == {"priv", "pub", "code"}
Kinds == Keys \cup Certs
Slots == 1..MaxObjects
Ids   == Kinds \cup Volatile  \* what the secure side knows objects by
Mechanisms == {"ecdsa", "rsa", "other"}

ASSUME Pkcs11Assumption ==
  /\ IsFiniteSet(Certs) /\ Certs \cap Keys = {}
  /\ Kinds \cap (Volatile \cup Mechanisms) = {}
  /\ None \notin Ids \cup Algs \cup {"data"} /\ None \notin Slots
  /\ "EC" \in Algs /\ "data" \notin Algs
  /\ MaxObjects \in Nat
  /\ Exclusive \in BOOLEAN

VARIABLES
  initialized,  \* xP11Context.xIsInitialized
  objects,      \* xP11Context.xObjectList.xObjects
  mark,         \* the Mark fields of P11KeyConfig
  keyHandle,    \* the key handles of P11KeyConfig
  psa,          \* the secure side: what is stored under each id
  session,      \* the session of each task
  call,         \* the call each task is in, or the result of its last one
  stored        \* history: the objects that were stored and not destroyed

config == <<mark, keyHandle>>
vars == <<initialized, objects, config, psa, session, call, stored>>

NoOperation == [key |-> None, mech |-> None, alg |-> None]
Closed == [open |-> FALSE, find |-> None, hash |-> FALSE,
           sign |-> NoOperation, verify |-> NoOperation]

Opened == [Closed EXCEPT !.open = TRUE]

Idle(rv) == [op |-> "idle", at |-> rv, kind |-> None, ref |-> None, slot |-> 0]

(* A call in progress, with the object and the key or mechanism it is      *)
(* about.                                                                  *)
Busy(op, at, k, ref) == [op |-> op, at |-> at, kind |-> k, ref |-> ref, slot |-> 0]

Operations == [key : Ids \cup {None}, mech : Mechanisms \cup {None}, alg : Algs \cup {None}]

TypeOK ==
  /\ initialized \in BOOLEAN
  /\ objects \in [Slots -> Kinds \cup {None}]
  /\ mark \in [Kinds -> BOOLEAN]
  /\ keyHandle \in [Keys -> Ids \cup {None}]
  /\ psa \in [Ids -> Algs \cup {"data", None}]
  /\ session \in [Tasks -> [open : BOOLEAN, find : Kinds \cup {None}, hash : BOOLEAN,
                            sign : Operations, verify : Operations]]
  /\ call \in [Tasks ->
       [op : {"idle", "find", "create", "destroy", "generate", "sign", "verify"},
        at : {"none", "ok", "notfound", "failed", "inconsistent", "open", "import", "list",
              "remove", "clear", "unlist", "export", "public", "attributes"},
        kind : Kinds \cup {None},
        ref : Ids \cup Mechanisms \cup {None},
        slot : Slots \cup {0}]]  \* the handle C_DestroyObject was given
  /\ stored \subseteq Kinds

-----------------------------------------------------------------------------
(* The list of objects *)

Holds(k) == {i \in Slots : objects[i] = k}
First(S) == CHOOSE i \in S : \A j \in S : i <= j

(* prvAddObjectToList: where the object is, else the lowest free entry.    *)
PlaceOf(k) ==
  IF Holds(k) # {} THEN CHOOSE i \in Holds(k) : \A j \in Holds(k) : j <= i
  ELSE IF Holds(None) # {} THEN First(Holds(None)) ELSE None

(* What the secure side is asked for: the handle of P11KeyConfig for a key *)
(* (PKCS11PSAGetKeyHandle), a fixed id for a certificate.                  *)
HandleOf(k) == IF k \in Keys THEN keyHandle[k] ELSE k

(* PSAGetCertificateValue: the secure storage has the certificate.  Its    *)
(* size is asked for first; PEM or not, it is given as DER.                *)
PSAGetCertificateValue(k) == psa[k] # None

(* PKCS11PSAGetObjectValue, when the secure side has the object.           *)
Readable(k) ==
  /\ mark[k]
  /\ IF k \in Certs THEN PSAGetCertificateValue(k) ELSE psa[keyHandle[k]] # None

Return(t, rv) == call' = [call EXCEPT ![t] = Idle(rv)]
Goto(t, c)    == call' = [call EXCEPT ![t] = c]

Provisioning(t) == call[t].op \in {"create", "destroy", "generate"}

(* A task calls a function of group f on its open session; every function  *)
(* begins with PKCS11_SESSION_VALID_AND_MODULE_INITIALIZED.                *)
Calls(t, f) ==
  /\ t \in Callers[f]
  /\ call[t].op = "idle"
  /\ initialized /\ session[t].open
  /\ Exclusive => \A u \in Tasks \ {t} :
       IF f = "provision" THEN call[u].op = "idle" ELSE ~Provisioning(u)

-----------------------------------------------------------------------------
(* The module and its sessions *)

(* C_Initialize.  It is not thread-safe: the first task to come does it.   *)
C_Initialize ==
  /\ ~initialized
  /\ initialized' = TRUE
  /\ objects' = [i \in Slots |-> None]
  /\ UNCHANGED <<config, psa, session, call, stored>>

(* Mutant of FinalizeKeys: the keys are destroyed, not closed.             *)
FinalizeKeys_Destroys ==
  \E closed \in {{"priv", "pub"}} :
    /\ mark' = [k \in Kinds |-> mark[k] /\ k \notin closed]
    /\ keyHandle' = [k \in Keys |-> IF k \in closed THEN None ELSE keyHandle[k]]
    /\ psa' = [id \in Ids |-> IF id \in closed /\ mark[id] THEN None ELSE psa[id]]

(* The two device keys are closed, which does not destroy them; when the   *)
(* first cannot be closed the second is not tried.                         *)
FinalizeKeys ==
  \E closed \in {{"priv", "pub"}, {"priv"}, {}} :
    /\ mark' = [k \in Kinds |-> mark[k] /\ k \notin closed]
    /\ keyHandle' = [k \in Keys |-> IF k \in closed THEN None ELSE keyHandle[k]]
    /\ UNCHANGED psa

(* C_Finalize: open sessions stay as they are.                             *)
C_Finalize ==
  /\ initialized
  /\ \A u \in Tasks : call[u].op = "idle"
  /\ initialized' = FALSE
  /\ objects' = [i \in Slots |-> None]
  /\ FinalizeKeys
  /\ UNCHANGED <<session, call, stored>>

(* C_OpenSession; without memory for the session and its mutexes it fails. *)
C_OpenSession(t) ==
  /\ initialized /\ call[t].op = "idle" /\ ~session[t].open
  /\ \/ session' = [session EXCEPT ![t] = Opened] /\ Return(t, "ok")
     \/ UNCHANGED session /\ Return(t, "failed")
  /\ UNCHANGED <<initialized, objects, config, psa, stored>>

(* C_CloseSession: without the module it leaves the session.               *)
C_CloseSession(t) ==
  /\ call[t].op = "idle" /\ session[t].open
  /\ IF initialized
     THEN session' = [session EXCEPT ![t] = Closed] /\ Return(t, "ok")
     ELSE UNCHANGED session /\ Return(t, "failed")
  /\ UNCHANGED <<initialized, objects, config, psa, stored>>

(* A power failure or reset.  What is under a persistent id stays.         *)
Reset ==
  /\ initialized' = FALSE
  /\ objects' = [i \in Slots |-> None]
  /\ mark' = [k \in Kinds |-> FALSE]
  /\ keyHandle' = [k \in Keys |-> None]
  /\ psa' = [id \in Ids |-> IF id \in Volatile THEN None ELSE psa[id]]
  /\ session' = [t \in Tasks |-> Closed]
  /\ call' = [t \in Tasks |-> Idle("none")]
  /\ stored' = {k \in stored : psa[k] # None}

-----------------------------------------------------------------------------
(* Finding an object *)

(* C_FindObjectsInit copies the label, if no search is in progress.        *)
C_FindObjectsInit(t) ==
  /\ Calls(t, "find")
  /\ IF session[t].find = None
     THEN \/ \E k \in Kinds : session' = [session EXCEPT ![t].find = k] /\ Return(t, "ok")
          \/ UNCHANGED session /\ Return(t, "failed")
     ELSE UNCHANGED session /\ Return(t, "failed")
  /\ UNCHANGED <<initialized, objects, config, psa, stored>>

(* C_FindObjects looks in the list (prvFindObjectInListByLabel), then, for *)
(* a key, in P11KeyConfig (PKCS11PSAGetKeyHandle), then asks the secure    *)
(* side.                                                                   *)
C_FindObjects(t) ==
  /\ Calls(t, "find")
  /\ LET k == session[t].find IN
       CASE k = None -> Return(t, "failed")
         [] k # None /\ Holds(k) # {} -> Return(t, "ok")
         [] k \in Keys /\ Holds(k) = {} /\ mark[k] -> Goto(t, Busy("find", "list", k, None))
         [] OTHER -> Goto(t, Busy("find", "open", k, None))
  /\ UNCHANGED <<initialized, objects, config, psa, session, stored>>

(* psa_open_key of a key, psa_ps_get_info of a certificate.                *)
FindOpen(t) ==
  LET k == call[t].kind IN
  /\ call[t].op = "find" /\ call[t].at = "open"
  /\ \/ /\ psa[k] # None
        /\ Goto(t, Busy("find", IF k \in Keys THEN "import" ELSE "list", k, k))
     \/ psa[k] = None /\ Return(t, "notfound")
     \/ Return(t, "failed")
  /\ UNCHANGED <<initialized, objects, config, psa, session, stored>>

C_FindObjectsFinal(t) ==
  /\ Calls(t, "find")
  /\ Return(t, IF session[t].find = None THEN "failed" ELSE "ok")
  /\ session' = [session EXCEPT ![t].find = None]
  /\ UNCHANGED <<initialized, objects, config, psa, stored>>

-----------------------------------------------------------------------------
(* P11KeyConfig and the list, for the calls that find or make an object *)

(* PKCS11PSAContextImportObject.  C_FindObjects lists a certificate before *)
(* it imports it; everything else is imported first.                       *)
ImportObject(t) ==
  LET k == call[t].kind IN
  /\ call[t].at = "import"
  /\ mark' = [mark EXCEPT ![k] = TRUE]
  /\ keyHandle' = IF k \in Keys THEN [keyHandle EXCEPT ![k] = call[t].ref] ELSE keyHandle
  /\ IF call[t].op = "find" /\ k \in Certs
     THEN Return(t, "ok")
     ELSE Goto(t, [call[t] EXCEPT !.at = "list"])
  /\ UNCHANGED <<initialized, objects, psa, session, stored>>

(* prvAddObjectToList, and what the caller does next.                      *)
AddObjectToList(t) ==
  LET k  == call[t].kind
      op == call[t].op
      i  == PlaceOf(k)
  IN
  /\ call[t].at = "list"
  /\ IF i = None
     THEN UNCHANGED <<objects, stored>> /\ Return(t, "failed")
     ELSE /\ objects' = [objects EXCEPT ![i] = k]
          /\ stored' = IF op = "find" THEN stored ELSE stored \cup {k}
          /\ CASE op = "find" /\ k \in Certs -> Goto(t, [call[t] EXCEPT !.at = "import"])
               [] op = "generate" /\ k = "priv" -> Goto(t, Busy(op, "import", "pub", "pub"))
               [] OTHER -> Return(t, "ok")
  /\ UNCHANGED <<initialized, config, psa, session>>

-----------------------------------------------------------------------------
(* Making and destroying objects *)

Templates == [class : {"cert", "priv", "pub", "other"}, kind : Kinds, alg : Algs,
              valid : BOOLEAN]  \* complete, and nothing in it unknown or refused

prvCreateCertificate(tm) == tm.valid
prvCreateEcPrivateKey(tm)  == tm.valid
prvCreateRsaPrivateKey(tm) == tm.valid
prvCreatePrivateKey(tm) ==
  \/ tm.alg = "EC" /\ prvCreateEcPrivateKey(tm)
  \/ tm.alg = "RSA" /\ prvCreateRsaPrivateKey(tm)
prvCreateECPublicKey(tm) == tm.valid
prvCreatePublicKey(tm)   == tm.alg = "EC" /\ prvCreateECPublicKey(tm)

(* Where PKCS11PSASaveObject puts an object it knows the label of: a       *)
(* certificate over the old one, a device key under its persistent id if   *)
(* that is free, a code verification key under a volatile one.             *)
Free(S) == {id \in S : psa[id] = None}
SaveCertificate(k) == Certs \cap {k}
SavePrivateKey(k)  == IF k = "priv" THEN Free({k}) ELSE {}
SavePublicKey(k)   == CASE k = "pub" -> Free({k}) [] k = "code" -> Free(Volatile) [] OTHER -> {}

Target(tm) ==
  CASE tm.class = "cert" /\ prvCreateCertificate(tm) -> SaveCertificate(tm.kind)
    [] tm.class = "priv" /\ prvCreatePrivateKey(tm) -> SavePrivateKey(tm.kind)
    [] tm.class = "pub" /\ prvCreatePublicKey(tm) -> SavePublicKey(tm.kind)
    [] OTHER -> {}

(* C_CreateObject, up to the call of the secure side, which may fail.      *)
C_CreateObject(t) ==
  /\ Calls(t, "provision")
  /\ \/ \E tm \in Templates : \E id \in Target(tm) :
          /\ psa' = [psa EXCEPT ![id] = IF tm.kind \in Certs THEN "data" ELSE tm.alg]
          /\ Goto(t, Busy("create", "import", tm.kind, id))
     \/ UNCHANGED psa /\ Return(t, "failed")
  /\ UNCHANGED <<initialized, objects, config, session, stored>>

(* C_GenerateKeyPair for the two device keys, up to psa_generate_key.  A   *)
(* template with another label fails; keys made for it are volatile and    *)
(* nothing refers to them.                                                 *)
C_GenerateKeyPair(t) ==
  /\ Calls(t, "provision")
  /\ \/ /\ psa["priv"] = None
        /\ psa' = [psa EXCEPT !["priv"] = "EC"]
        /\ Goto(t, Busy("generate", "export", "priv", "priv"))
     \/ UNCHANGED psa /\ Return(t, "failed")
  /\ UNCHANGED <<initialized, objects, config, session, stored>>

(* psa_export_public_key; when it fails the private key stays.             *)
GenerateExport(t) ==
  /\ call[t].op = "generate" /\ call[t].at = "export"
  /\ \/ psa["priv"] # None /\ Goto(t, [call[t] EXCEPT !.at = "public"])
     \/ Return(t, "failed")
  /\ UNCHANGED <<initialized, objects, config, psa, session, stored>>

(* psa_import_key of the public key.                                       *)
GeneratePublic(t) ==
  /\ call[t].op = "generate" /\ call[t].at = "public"
  /\ \/ /\ psa["pub"] = None
        /\ psa' = [psa EXCEPT !["pub"] = "EC"]
        /\ Goto(t, [call[t] EXCEPT !.at = "import"])
     \/ UNCHANGED psa /\ Return(t, "failed")
  /\ UNCHANGED <<initialized, objects, config, session, stored>>

(* C_DestroyObject; there is nothing to do for a handle nothing has.       *)
C_DestroyObject(t) ==
  /\ Calls(t, "provision")
  /\ \E i \in Slots :
       IF objects[i] = None THEN Return(t, "ok")
       ELSE Goto(t, [Busy("destroy", "remove", objects[i], None) EXCEPT !.slot = i])
  /\ UNCHANGED <<initialized, objects, config, psa, session, stored>>

(* PKCS11PSARemoveObject: psa_destroy_key or psa_ps_remove of what is      *)
(* marked present.                                                         *)
DestroyRemove(t) ==
  LET k == objects[call[t].slot] IN
  /\ call[t].op = "destroy" /\ call[t].at = "remove"
  /\ \/ /\ k # None /\ Readable(k)
        /\ psa' = [psa EXCEPT ![HandleOf(k)] = None]
        /\ stored' = stored \ {k}
        /\ Goto(t, [call[t] EXCEPT !.at = "clear", !.kind = k])
     \/ /\ k # None /\ ~mark[k]
        /\ Goto(t, [call[t] EXCEPT !.at = "unlist", !.kind = k])
        /\ UNCHANGED <<psa, stored>>
     \/ (k = None \/ mark[k]) /\ Return(t, "failed") /\ UNCHANGED <<psa, stored>>
  /\ UNCHANGED <<initialized, objects, config, session>>

(* What follows it in P11KeyConfig.                                        *)
DestroyClear(t) ==
  LET k == call[t].kind IN
  /\ call[t].op = "destroy" /\ call[t].at = "clear"
  /\ mark' = [mark EXCEPT ![k] = FALSE]
  /\ keyHandle' = IF k \in Keys THEN [keyHandle EXCEPT ![k] = None] ELSE keyHandle
  /\ Goto(t, [call[t] EXCEPT !.at = "unlist"])
  /\ UNCHANGED <<initialized, objects, psa, session, stored>>

(* Mutant of prvDeleteObjectFromList: the entry stays in the list.         *)
DeleteObjectFromList_Keeps(t) ==
  /\ call[t].op = "destroy" /\ call[t].at = "unlist"
  /\ Return(t, IF objects[call[t].slot] = None THEN "failed" ELSE "ok")
  /\ UNCHANGED <<initialized, objects, config, psa, session, stored>>

(* prvDeleteObjectFromList                                                 *)
DeleteObjectFromList(t) ==
  /\ call[t].op = "destroy" /\ call[t].at = "unlist"
  /\ Return(t, IF objects[call[t].slot] = None THEN "failed" ELSE "ok")
  /\ objects' = [objects EXCEPT ![call[t].slot] = None]
  /\ UNCHANGED <<initialized, config, psa, session, stored>>

(* What a template of C_GetAttributeValue asks for, with no buffer, for    *)
(* the length, a buffer that is too short, or one that is long enough.     *)
Queries == [attribute : {"class", "value", "keyType", "privateExponent",
                         "ecParams", "ecPoint", "other"},
            buffer : {"none", "short", "fits"}]

(* The attributes of every object; the value of a private key is           *)
(* sensitive.                                                              *)
GivesObjectAttribute(k, q) ==
  /\ q.buffer # "short"
  /\ \/ q.attribute = "class"
     \/ q.attribute = "value" /\ k # "priv"

(* The attributes of keys.  The type is asked of the secure side through   *)
(* the label; the length of the curve's name is overwritten before it is   *)
(* compared; the private exponent is always refused.                       *)
GivesKeyAttribute(k, q) ==
  \/ q.attribute = "keyType" /\ q.buffer = "none"
  \/ /\ q.attribute = "keyType" /\ q.buffer = "fits"
     /\ k \in Keys /\ mark[k] /\ psa[keyHandle[k]] \in Algs
  \/ q.attribute = "ecParams"
  \/ q.attribute = "ecPoint" /\ q.buffer # "short"

(* C_GetAttributeValue reads the object of a handle, then its attributes   *)
(* up to the first that it cannot give; the secure side may fail.          *)
C_GetAttributeValue(t) ==
  /\ Calls(t, "find")
  /\ \E i \in Slots, q \in Queries :
       \/ /\ objects[i] # None /\ Readable(objects[i])
          /\ GivesObjectAttribute(objects[i], q) \/ GivesKeyAttribute(objects[i], q)
          /\ Return(t, "ok")
       \/ Return(t, "failed")
  /\ UNCHANGED <<initialized, objects, config, psa, session, stored>>

-----------------------------------------------------------------------------
(* Digests *)

(* C_DigestInit; one that is already under way is forgotten.               *)
C_DigestInit(t) ==
  /\ Calls(t, "digest")
  /\ \/ session' = [session EXCEPT ![t].hash = TRUE] /\ Return(t, "ok")
     \/ UNCHANGED session /\ Return(t, "failed")
  /\ UNCHANGED <<initialized, objects, config, psa, stored>>

(* C_DigestUpdate: a failure ends the operation.                           *)
C_DigestUpdate(t) ==
  /\ Calls(t, "digest")
  /\ \/ session[t].hash /\ UNCHANGED session /\ Return(t, "ok")
     \/ session' = [session EXCEPT ![t].hash = FALSE] /\ Return(t, "failed")
  /\ UNCHANGED <<initialized, objects, config, psa, stored>>

(* C_DigestFinal: it ends, unless only the length was asked for or the     *)
(* buffer is too short.                                                    *)
C_DigestFinal(t) ==
  /\ Calls(t, "digest")
  /\ \/ session[t].hash /\ UNCHANGED session /\ \E rv \in {"ok", "failed"} : Return(t, rv)
     \/ /\ session[t].hash
        /\ session' = [session EXCEPT ![t].hash = FALSE]
        /\ \E rv \in {"ok", "failed"} : Return(t, rv)
     \/ ~session[t].hash /\ UNCHANGED session /\ Return(t, "failed")
  /\ UNCHANGED <<initialized, objects, config, psa, stored>>

-----------------------------------------------------------------------------
(* Signatures *)

Compatible(m, alg) == <<m, alg>> \in {<<"ecdsa", "EC">>, <<"rsa", "RSA">>}

(* The result of the check of the mechanism against the algorithm.         *)
CheckMechanism(m, alg) ==
  IF Compatible(m, alg) THEN "ok" ELSE IF m = "other" THEN "failed" ELSE "inconsistent"

(* C_SignInit, up to psa_get_key_attributes: only the device private key   *)
(* signs.                                                                  *)
C_SignInit(t) ==
  /\ Calls(t, "sign")
  /\ \E i \in Slots, m \in Mechanisms :
       IF objects[i] = "priv" /\ mark["priv"]
       THEN /\ session' = [session EXCEPT ![t].sign.key = keyHandle["priv"]]
            /\ Goto(t, Busy("sign", "attributes", None, m))
       ELSE /\ session' = IF objects[i] \in {"priv", None} THEN session
                          ELSE [session EXCEPT ![t].sign.key = None]
            /\ Return(t, "failed")
  /\ UNCHANGED <<initialized, objects, config, psa, stored>>

SignAttributes(t) ==
  LET id == session[t].sign.key
      m  == call[t].ref
  IN
  /\ call[t].op = "sign" /\ call[t].at = "attributes"
  /\ \/ /\ psa[id] # None
        /\ session' = [session EXCEPT ![t].sign.alg = psa[id],
                         ![t].sign.mech = IF Compatible(m, psa[id]) THEN m ELSE @]
        /\ Return(t, CheckMechanism(m, psa[id]))
     \/ UNCHANGED session /\ Return(t, "failed")
  /\ UNCHANGED <<initialized, objects, config, psa, stored>>

(* C_Sign ends the operation, also when it only asks for the length,       *)
(* unless the buffer is too short.                                         *)
C_Sign(t) ==
  /\ Calls(t, "sign")
  /\ \/ /\ session' = [session EXCEPT ![t].sign.mech = None]
        /\ \/ Return(t, "failed")
           \/ /\ session[t].sign.mech # None
              /\ session[t].sign.key # None
              /\ psa[session[t].sign.key] = session[t].sign.alg
              /\ Compatible(session[t].sign.mech, session[t].sign.alg)
              /\ Return(t, "ok")
     \/ session[t].sign.mech # None /\ UNCHANGED session /\ Return(t, "failed")
  /\ UNCHANGED <<initialized, objects, config, psa, stored>>

(* C_VerifyInit, up to psa_get_key_attributes.  A handle nothing has       *)
(* clears the key of the signature.                                        *)
C_VerifyInit(t) ==
  /\ Calls(t, "verify")
  /\ \E i \in Slots, m \in Mechanisms :
       LET k == objects[i] IN
       IF k \in Keys /\ mark[k]
       THEN /\ session' = [session EXCEPT ![t].verify.key = keyHandle[k]]
            /\ Goto(t, Busy("verify", "attributes", None, m))
       ELSE /\ session' = IF k = None THEN [session EXCEPT ![t].sign.key = None]
                          ELSE [session EXCEPT ![t].verify.key = None]
            /\ Return(t, "failed")
  /\ UNCHANGED <<initialized, objects, config, psa, stored>>

(* The mechanism is compared with the algorithm of the last C_SignInit.    *)
VerifyAttributes(t) ==
  LET id == session[t].verify.key
      m  == call[t].ref
      ok == Compatible(m, session[t].sign.alg)
  IN
  /\ call[t].op = "verify" /\ call[t].at = "attributes"
  /\ \/ /\ psa[id] # None
        /\ session' = [session EXCEPT ![t].verify.alg = psa[id],
                         ![t].verify.mech = IF ok THEN m ELSE @]
        /\ Return(t, CheckMechanism(m, session[t].sign.alg))
     \/ UNCHANGED session /\ Return(t, "failed")
  /\ UNCHANGED <<initialized, objects, config, psa, stored>>

(* C_Verify changes nothing, so it can be repeated.                        *)
C_Verify(t) ==
  /\ Calls(t, "verify")
  /\ \/ Return(t, "failed")
     \/ /\ session[t].verify.mech # None
        /\ session[t].verify.key # None
        /\ psa[session[t].verify.key] = session[t].verify.alg
        /\ Compatible(session[t].verify.mech, session[t].verify.alg)
        /\ Return(t, "ok")
  /\ UNCHANGED <<initialized, objects, config, psa, session, stored>>

-----------------------------------------------------------------------------
(* The device leaves the factory, or the command line, with any of its     *)
(* persistent objects.                                                     *)
Init ==
  /\ initialized = FALSE
  /\ objects = [i \in Slots |-> None]
  /\ mark = [k \in Kinds |-> FALSE]
  /\ keyHandle = [k \in Keys |-> None]
  /\ stored \in SUBSET Kinds
  /\ psa = [id \in Ids |-> IF id \notin stored THEN None
                           ELSE IF id \in Certs THEN "data" ELSE "EC"]
  /\ session = [t \in Tasks |-> Closed]
  /\ call = [t \in Tasks |-> Idle("none")]

Step(t) ==
  \/ C_OpenSession(t) \/ C_CloseSession(t)
  \/ C_FindObjectsInit(t) \/ C_FindObjects(t) \/ FindOpen(t) \/ C_FindObjectsFinal(t)
  \/ ImportObject(t) \/ AddObjectToList(t)
  \/ C_CreateObject(t)
  \/ C_GenerateKeyPair(t) \/ GenerateExport(t) \/ GeneratePublic(t)
  \/ C_DestroyObject(t) \/ DestroyRemove(t) \/ DestroyClear(t) \/ DeleteObjectFromList(t)
  \/ C_GetAttributeValue(t)
  \/ C_DigestInit(t) \/ C_DigestUpdate(t) \/ C_DigestFinal(t)
  \/ C_SignInit(t) \/ SignAttributes(t) \/ C_Sign(t)
  \/ C_VerifyInit(t) \/ VerifyAttributes(t) \/ C_Verify(t)

Next == C_Initialize \/ C_Finalize \/ Reset \/ \E t \in Tasks : Step(t)

Spec == Init /\ [][Next]_vars

-----------------------------------------------------------------------------
(* Each object has one place in the list, so its application handle is     *)
(* unique, and the list never lacks room for the kinds the port knows.     *)
ListIsUnique ==
  /\ \A i, j \in Slots : objects[i] = objects[j] /\ objects[i] # None => i = j
  /\ MaxObjects >= Cardinality(Kinds) => \A k \in Kinds : PlaceOf(k) # None

(* An object in the list is present: its mark is set and the handle of a   *)
(* key refers to a key, except while a call is about to mark, destroy or   *)
(* unlist it.                                                              *)
Changing(k) == \E t \in Tasks :
  call[t].kind = k /\ call[t].at \in {"import", "clear", "unlist"}

ListedIsPresent ==
  \A i \in Slots : objects[i] # None /\ ~Changing(objects[i]) => Readable(objects[i])

(* The list of handles and the objects agree: the searches of two tasks,   *)
(* each of which adds what it finds, failing creation and destruction and  *)
(* resets leave no object with two handles and no handle of an object that *)
(* is gone.                                                                *)
ListIsExact == ListIsUnique /\ ListedIsPresent

(* A search that ends without an object and without an error is for one    *)
(* that is not stored, whatever was listed, closed or reset since it was.  *)
StoredIsFound ==
  [][\A t \in Tasks :
       call[t].op = "find" /\ call'[t].op = "idle" /\ call'[t].at = "notfound"
         => call[t].kind \notin stored]_vars

(* C_VerifyInit refuses a mechanism as inconsistent only with a key of     *)
(* another type.                                                           *)
VerifyKeyIsChecked ==
  [][\A t \in Tasks :
       call[t].op = "verify" /\ call'[t].at = "inconsistent"
         => ~Compatible(call[t].ref, session'[t].verify.alg)]_vars
=============================================================================
