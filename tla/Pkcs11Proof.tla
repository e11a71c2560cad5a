---------------------------- MODULE Pkcs11Proof -----------------------------
(***************************************************************************)
(* Proofs about the PKCS #11 module over the PSA services, for any tasks,  *)
(* certificates, algorithms, volatile ids and length of the list.          *)
(***************************************************************************)
EXTENDS Pkcs11, FiniteSetTheorems, TLAPS

(* The first free slot of the list exists: every non-empty set of naturals *)
(* has a least element.                                                    *)
LEMMA LeastNatural ==
  ASSUME NEW S \in SUBSET Nat, S # {}
  PROVE  \E m \in S : \A k \in S : m <= k
<1> DEFINE T == {0..n : n \in S}
<1>1. T \subseteq FiniteSubsetsOf(Nat)
  <2>1. ASSUME NEW n \in S PROVE 0..n \in SUBSET Nat /\ IsFiniteSet(0..n)
    BY FS_Interval
  <2>2. QED
    BY <2>1 DEF FiniteSubsetsOf
<1>2. T # {}
  OBVIOUS
<1>3. PICK x \in T : \A y \in T : ~(<<y, x>> \in StrictSubsetOrdering(Nat))
  BY <1>1, <1>2, FS_StrictSubsetOrderingWellFounded, WFMin
<1>4. PICK m \in S : x = 0..m
  OBVIOUS
<1>5. ASSUME NEW k \in S, ~(m <= k) PROVE FALSE
  <2>1. 0..k \subseteq 0..m /\ 0..k # 0..m
    BY <1>5
  <2>2. <<0..k, x>> \in StrictSubsetOrdering(Nat)
    BY <1>4, <2>1 DEF StrictSubsetOrdering
  <2>3. QED
    BY <1>3, <2>2
<1>6. QED
  BY <1>5

Results == {"none", "ok", "notfound", "failed", "inconsistent"}

Records == [op : {"idle", "find", "create", "destroy", "generate", "sign", "verify"},
            at : Results \cup {"open", "import", "list", "remove", "clear", "unlist",
                               "export", "public", "attributes"},
            kind : Kinds \cup {None}, ref : Ids \cup Mechanisms \cup {None},
            slot : Slots \cup {0}]

Typed ==
  /\ objects \in [Slots -> Kinds \cup {None}]
  /\ mark \in [Kinds -> BOOLEAN]
  /\ keyHandle \in [Keys -> Ids \cup {None}]
  /\ psa \in [Ids -> Algs \cup {"data", None}]
  /\ call \in [Tasks -> Records]
  /\ stored \subseteq Kinds

(* The ids an object of a kind can be under: its own, or a volatile one    *)
(* for the code verification key.                                          *)
IdsOf(k) == {k} \cup IF k = "code" THEN Volatile ELSE {}

(* The object a call is about to import is there.                          *)
Backed(c) == c.kind \in Kinds /\ c.ref \in IdsOf(c.kind) /\ psa[c.ref] # None

Marked(c) == c.kind \in Kinds /\ mark[c.kind]

(* What a call knows at each of its steps.                                 *)
SoundFind(c) ==
  \/ c.at = "open" /\ c.kind \in Kinds /\ (c.kind \in stored => psa[c.kind] # None)
  \/ c.at = "import" /\ Backed(c)
  \/ c.at = "list" /\ c.kind \in Certs /\ Backed(c)
  \/ c.at = "list" /\ c.kind \in Keys /\ Marked(c)

SoundCreate(c) ==
  \/ c.at = "import" /\ Backed(c)
  \/ c.at = "list" /\ Marked(c)

SoundGenerate(c) ==
  /\ c.kind \in {"priv", "pub"} /\ c.ref = c.kind
  /\ \/ c.at = "export" /\ c.kind = "priv"
     \/ c.at = "public" /\ c.kind = "priv" /\ psa["priv"] # None
     \/ /\ c.at \in {"import", "list"}
        /\ psa["priv"] # None /\ psa["pub"] # None
        /\ c.at = "list" => mark[c.kind]

SoundDestroy(c) ==
  /\ c.slot \in Slots /\ c.kind \in Kinds /\ objects[c.slot] = c.kind
  /\ c.at \in {"remove", "clear", "unlist"}
  /\ c.at = "clear" => c.kind \notin stored

Sound(c) ==
  \/ c.op = "idle" /\ c.at \in Results
  \/ c.op \in {"sign", "verify"} /\ c.at = "attributes"
  \/ c.op = "find" /\ SoundFind(c)
  \/ c.op = "create" /\ SoundCreate(c)
  \/ c.op = "generate" /\ SoundGenerate(c)
  \/ c.op = "destroy" /\ SoundDestroy(c)

(* A call that makes or destroys objects is alone.                         *)
Apart ==
  /\ \A t, u \in Tasks : t # u /\ Provisioning(t) => call[u].op = "idle"
  /\ \A t \in Tasks : call[t].op # "idle" => initialized

UniqueInList == \A i, j \in Slots : objects[i] = objects[j] /\ objects[i] # None => i = j

HandlesFit == \A k \in Keys : keyHandle[k] \in IdsOf(k) \cup {None}

Clearing(k) == \E t \in Tasks : call[t].kind = k /\ call[t].at = "clear"

(* What is marked is there, unless it has just been destroyed.             *)
MarkedIsThere ==
  \A k \in Kinds : mark[k] /\ ~Clearing(k) =>
    HandleOf(k) \in IdsOf(k) /\ psa[HandleOf(k)] # None

(* What is listed is marked, or a call is about to mark or unlist it.      *)
ListedIsMarked ==
  \A i \in Slots : objects[i] # None => mark[objects[i]] \/ Changing(objects[i])

(* What is stored is under its own id, or is a marked volatile key.        *)
StoredIsKept ==
  \A k \in stored : psa[k] # None \/ (k = "code" /\ mark[k])

(* The list, the marks and the objects.                                    *)
ListInv ==
  /\ Typed
  /\ Apart
  /\ \A t \in Tasks : Sound(call[t])
  /\ UniqueInList
  /\ HandlesFit
  /\ MarkedIsThere
  /\ ListedIsMarked
  /\ StoredIsKept

(* The sessions refer to keys, and a call that asks for the attributes of  *)
(* a key has one.                                                          *)
KeyIds == Keys \cup Volatile

KeyOperations == [key : KeyIds \cup {None}, mech : Mechanisms \cup {None},
                  alg : Algs \cup {None}]

Sessions == [open : BOOLEAN, find : Kinds \cup {None}, hash : BOOLEAN,
             sign : KeyOperations, verify : KeyOperations]

SessionInv ==
  /\ initialized \in BOOLEAN
  /\ session \in [Tasks -> Sessions]
  /\ \A id \in KeyIds : psa[id] \in Algs \cup {None}
  /\ \A t \in Tasks :
       /\ call[t].op = "sign" => session[t].sign.key \in KeyIds
       /\ call[t].op = "verify" => session[t].verify.key \in KeyIds
       /\ call[t].op \in {"sign", "verify"} => call[t].ref \in Mechanisms

(* The inductive invariant.                                                *)
P11Inv == ListInv /\ SessionInv

-----------------------------------------------------------------------------
(* Facts about names and calls *)

(* Different objects are never under the same id, and no name is None.     *)
LEMMA IdsDiffer ==
  /\ \A k, l \in Kinds : k # l => IdsOf(k) \cap IdsOf(l) = {}
  /\ \A k \in Kinds : k \in IdsOf(k) /\ IdsOf(k) \subseteq Ids /\ k # None
  /\ \A id \in Ids : id # None
  /\ \A k \in Kinds : (k \in Keys /\ k \notin Certs) \/ (k \in Certs /\ k \notin Keys)
  /\ "priv" \in Keys /\ "pub" \in Keys /\ "code" \in Keys /\ Keys \subseteq Kinds
BY Pkcs11Assumption DEF IdsOf, Ids, Kinds, Keys

(* The Exclusive use of the module: who may begin a call.                  *)
LEMMA Begins ==
  ASSUME Exclusive, NEW t \in Tasks, NEW f, Calls(t, f)
  PROVE  /\ initialized /\ call[t].op = "idle"
         /\ f = "provision" => \A u \in Tasks \ {t} : call[u].op = "idle"
         /\ \A u \in Tasks \ {t} : ~Provisioning(u)
BY DEF Calls, Provisioning

(* The calls of the others are still sound.                                *)
LEMMA OthersSound ==
  ASSUME ListInv, NEW t \in Tasks, \A u \in Tasks : u # t => call'[u] = call[u],
         \/ \A u \in Tasks \ {t} : call[u].op = "idle"
         \/ UNCHANGED <<objects, mark, psa, stored>>
         \/ /\ \A u \in Tasks \ {t} : ~Provisioning(u)
            /\ psa' = psa /\ stored' = stored
            /\ \A k \in Kinds : mark[k] => mark'[k]
  PROVE  \A u \in Tasks : u # t => Sound(call[u])'
<1>1. SUFFICES ASSUME NEW u \in Tasks, u # t PROVE Sound(call[u])'
  OBVIOUS
<1>2. Sound(call[u]) /\ call'[u] = call[u]
  BY <1>1 DEF ListInv
<1>3. CASE call[u].op = "idle"
  BY <1>2, <1>3 DEF Sound
<1>4. CASE UNCHANGED <<objects, mark, psa, stored>>
  BY <1>2, <1>4 DEF Sound, SoundFind, SoundCreate, SoundGenerate, SoundDestroy, Backed, Marked
<1>5. CASE /\ ~Provisioning(u) /\ psa' = psa /\ stored' = stored
           /\ \A k \in Kinds : mark[k] => mark'[k]
  <2>1. call[u].op \notin {"create", "generate", "destroy"}
    BY <1>5 DEF Provisioning
  <2>2. CASE call[u].op \in {"idle", "sign", "verify"}
    BY <1>2, <2>2 DEF Sound
  <2>3. CASE call[u].op = "find"
    BY <1>2, <1>5, <2>3 DEF Sound, SoundFind, Backed, Marked
  <2>4. QED
    BY <1>2, <2>1, <2>2, <2>3 DEF Sound
<1>6. QED
  BY <1>1, <1>3, <1>4, <1>5

(* A call begins, goes on or ends, and those that make or destroy objects  *)
(* are still alone.                                                        *)
LEMMA StaysApart ==
  ASSUME ListInv, NEW t \in Tasks, NEW c, call' = [call EXCEPT ![t] = c],
         initialized' = initialized,
         \/ c.op = "idle"
         \/ c.op = call[t].op
         \/ /\ initialized /\ c.op \in {"find", "sign", "verify"}
            /\ \A u \in Tasks \ {t} : ~Provisioning(u)
         \/ initialized /\ \A u \in Tasks \ {t} : call[u].op = "idle"
  PROVE  /\ Apart'
         /\ call'[t] = c /\ \A u \in Tasks : u # t => call'[u] = call[u]
<1>1. call'[t] = c /\ \A u \in Tasks : u # t => call'[u] = call[u]
  BY DEF ListInv, Typed
<1>2. Apart
  BY DEF ListInv
<1>3. QED
  BY <1>1, <1>2 DEF Apart, Provisioning

(* A step that changes neither the list nor the objects, of a call that is *)
(* not about to change an object.                                          *)
LEMMA QuietStep ==
  ASSUME ListInv, NEW t \in Tasks, NEW c \in Records, call' = [call EXCEPT ![t] = c],
         UNCHANGED <<objects, mark, keyHandle, psa, stored>>,
         call[t].at \notin {"import", "clear", "unlist"},
         Apart', Sound(c)'
  PROVE  ListInv'
<1>1. Typed
  BY DEF ListInv
<1>2. call'[t] = c /\ \A u \in Tasks : u # t => call'[u] = call[u]
  BY <1>1 DEF Typed
<1>3. Typed'
  BY <1>1 DEF Typed
<1>4. \A u \in Tasks : Sound(call[u])'
  <2>1. \A u \in Tasks : u # t => Sound(call[u])'
    BY <1>2, OthersSound
  <2>2. Sound(call[t])'
    BY <1>2 DEF Sound, SoundFind, SoundCreate, SoundGenerate, SoundDestroy, Backed, Marked
  <2>3. QED
    BY <2>1, <2>2
<1>5. \A k : (Changing(k) => Changing(k)') /\ (Clearing(k) => Clearing(k)')
  BY <1>2 DEF Changing, Clearing
<1>6. UniqueInList' /\ HandlesFit' /\ StoredIsKept'
  BY DEF ListInv, UniqueInList, HandlesFit, StoredIsKept
<1>7. MarkedIsThere'
  BY <1>5 DEF ListInv, MarkedIsThere, HandleOf
<1>8. ListedIsMarked'
  BY <1>5 DEF ListInv, ListedIsMarked
<1>9. QED
  BY <1>3, <1>4, <1>6, <1>7, <1>8 DEF ListInv

(* Where a call stands, by what it does.                                   *)
LEMMA Standing ==
  ASSUME ListInv, NEW t \in Tasks
  PROVE  /\ call[t].op \in {"idle", "sign", "verify"} =>
              call[t].at \notin {"open", "import", "list", "remove", "clear", "unlist",
                                 "export", "public"}
         /\ call[t].at \in {"import", "list"} => call[t].op \in {"find", "create", "generate"}
         /\ call[t] \in Records
BY DEF ListInv, Typed, Sound, Results, SoundFind, SoundCreate, SoundGenerate, SoundDestroy

LEMMA IdleRecord ==
  ASSUME NEW rv \in Results
  PROVE  Idle(rv) \in Records /\ Idle(rv).op = "idle" /\ Idle(rv).at = rv
BY DEF Idle, Records

LEMMA BusyRecord ==
  ASSUME NEW op \in {"find", "create", "destroy", "generate", "sign", "verify"},
         NEW at \in {"open", "import", "list", "remove", "export", "attributes"},
         NEW k \in Kinds \cup {None}, NEW r \in Ids \cup Mechanisms \cup {None}
  PROVE  /\ Busy(op, at, k, r) \in Records
         /\ Busy(op, at, k, r).op = op /\ Busy(op, at, k, r).at = at
         /\ Busy(op, at, k, r).kind = k /\ Busy(op, at, k, r).ref = r
BY DEF Busy, Records

-----------------------------------------------------------------------------
(* The steps *)

unchangedObjects == UNCHANGED <<initialized, objects, mark, keyHandle, psa, stored>>

(* A call returns without having changed anything.                         *)
LEMMA ReturnStep ==
  ASSUME ListInv, NEW t \in Tasks, NEW rv \in Results, Return(t, rv), unchangedObjects,
         call[t].at \notin {"import", "clear", "unlist"}
  PROVE  ListInv'
<1>1. Idle(rv) \in Records /\ Idle(rv).op = "idle" /\ Idle(rv).at = rv
  BY IdleRecord
<1>2. call' = [call EXCEPT ![t] = Idle(rv)]
  BY DEF Return
<1>3. Apart'
  BY <1>1, <1>2, StaysApart DEF unchangedObjects
<1>4. Sound(Idle(rv))'
  BY <1>1 DEF Sound, Idle
<1>5. QED
  BY <1>1, <1>2, <1>3, <1>4, QuietStep DEF unchangedObjects

(* The first half of C_SignInit and C_VerifyInit.                          *)
LEMMA AttributesStep ==
  ASSUME ListInv, Exclusive, NEW t \in Tasks, NEW op \in {"sign", "verify"}, Calls(t, op),
         NEW m \in Mechanisms, Goto(t, Busy(op, "attributes", None, m)), unchangedObjects
  PROVE  ListInv'
<1> DEFINE c == Busy(op, "attributes", None, m)
<1>1. c \in Records /\ c.op = op /\ c.at = "attributes"
  BY BusyRecord
<1>2. call' = [call EXCEPT ![t] = c]
  BY DEF Goto
<1>3. initialized /\ call[t].op = "idle" /\ \A u \in Tasks \ {t} : ~Provisioning(u)
  BY Begins
<1>4. call[t].at \notin {"import", "clear", "unlist"}
  BY <1>3, Standing
<1>5. Sound(c)'
  <2>1. c' = c
    BY DEF Busy
  <2>2. QED
    BY <1>1, <2>1 DEF Sound
<1> HIDE DEF c
<1>6. Apart'
  BY <1>1, <1>2, <1>3, StaysApart DEF unchangedObjects
<1>7. QED
  BY <1>1, <1>2, <1>4, <1>5, <1>6, QuietStep DEF unchangedObjects

(* The calls that work on the session alone.                               *)
LEMMA SessionSteps ==
  ASSUME ListInv, Exclusive, NEW t \in Tasks,
         \/ C_OpenSession(t) \/ C_CloseSession(t)
         \/ C_FindObjectsInit(t) \/ C_FindObjectsFinal(t) \/ C_GetAttributeValue(t)
         \/ C_DigestInit(t) \/ C_DigestUpdate(t) \/ C_DigestFinal(t)
         \/ C_SignInit(t) \/ SignAttributes(t) \/ C_Sign(t)
         \/ C_VerifyInit(t) \/ VerifyAttributes(t) \/ C_Verify(t)
  PROVE  ListInv'
<1>1. unchangedObjects
  BY DEF C_OpenSession, C_CloseSession, C_FindObjectsInit, C_FindObjectsFinal,
         C_GetAttributeValue, C_DigestInit, C_DigestUpdate, C_DigestFinal,
         C_SignInit, SignAttributes, C_Sign, C_VerifyInit, VerifyAttributes, C_Verify,
         unchangedObjects, config
<1>2. call[t].op \in {"idle", "sign", "verify"}
  BY DEF C_OpenSession, C_CloseSession, C_FindObjectsInit, C_FindObjectsFinal,
         C_GetAttributeValue, C_DigestInit, C_DigestUpdate, C_DigestFinal,
         C_SignInit, SignAttributes, C_Sign, C_VerifyInit, VerifyAttributes, C_Verify,
         Calls
<1>3. call[t].at \notin {"import", "clear", "unlist"}
  BY <1>2, Standing
<1>4. ASSUME NEW rv \in Results, Return(t, rv) PROVE ListInv'
  BY <1>1, <1>3, <1>4, ReturnStep
<1>5. "ok" \in Results /\ "failed" \in Results /\ "inconsistent" \in Results
  BY DEF Results
<1>6. \A m, a : CheckMechanism(m, a) \in Results
  BY DEF CheckMechanism, Results
<1>7. CASE C_OpenSession(t) \/ C_CloseSession(t)
  BY <1>4, <1>5, <1>7 DEF C_OpenSession, C_CloseSession
<1>8. CASE C_FindObjectsInit(t) \/ C_FindObjectsFinal(t) \/ C_GetAttributeValue(t)
  BY <1>4, <1>5, <1>8 DEF C_FindObjectsInit, C_FindObjectsFinal, C_GetAttributeValue
<1>9. CASE C_DigestInit(t) \/ C_DigestUpdate(t) \/ C_DigestFinal(t)
  BY <1>4, <1>5, <1>9 DEF C_DigestInit, C_DigestUpdate, C_DigestFinal
<1>10. CASE SignAttributes(t) \/ VerifyAttributes(t)
  BY <1>4, <1>5, <1>6, <1>10 DEF SignAttributes, VerifyAttributes
<1>11. CASE C_Sign(t) \/ C_Verify(t)
  BY <1>4, <1>5, <1>11 DEF C_Sign, C_Verify
<1>12. CASE C_SignInit(t)
  <2>1. PICK m \in Mechanisms :
          Goto(t, Busy("sign", "attributes", None, m)) \/ Return(t, "failed")
    BY <1>12 DEF C_SignInit
  <2>2. Calls(t, "sign")
    BY <1>12 DEF C_SignInit
  <2>3. CASE Goto(t, Busy("sign", "attributes", None, m))
    BY <1>1, <2>2, <2>3, AttributesStep
  <2>4. QED
    BY <1>4, <1>5, <2>1, <2>3
<1>13. CASE C_VerifyInit(t)
  <2>1. PICK m \in Mechanisms :
          Goto(t, Busy("verify", "attributes", None, m)) \/ Return(t, "failed")
    BY <1>13 DEF C_VerifyInit
  <2>2. Calls(t, "verify")
    BY <1>13 DEF C_VerifyInit
  <2>3. CASE Goto(t, Busy("verify", "attributes", None, m))
    BY <1>1, <2>2, <2>3, AttributesStep
  <2>4. QED
    BY <1>4, <1>5, <2>1, <2>3
<1>14. QED
  BY <1>7, <1>8, <1>9, <1>10, <1>11, <1>12, <1>13

(* A call goes on to another step without having changed anything.         *)
LEMMA GotoStep ==
  ASSUME ListInv, NEW t \in Tasks, NEW c \in Records, Goto(t, c), unchangedObjects,
         call[t].at \notin {"import", "clear", "unlist"}, Sound(c),
         \/ c.op = call[t].op
         \/ /\ initialized /\ c.op = "find"
            /\ \A u \in Tasks \ {t} : ~Provisioning(u)
         \/ initialized /\ \A u \in Tasks \ {t} : call[u].op = "idle"
  PROVE  ListInv'
<1>1. call' = [call EXCEPT ![t] = c]
  BY DEF Goto
<1>2. Apart'
  BY <1>1, StaysApart DEF unchangedObjects
<1>3. Sound(c)'
  BY DEF unchangedObjects, Sound, SoundFind, SoundCreate, SoundGenerate, SoundDestroy,
         Backed, Marked
<1>4. QED
  BY <1>1, <1>2, <1>3, QuietStep DEF unchangedObjects

(* C_FindObjects and the look into the secure side.                        *)
LEMMA FindSteps ==
  ASSUME ListInv, SessionInv, Exclusive, NEW t \in Tasks, C_FindObjects(t) \/ FindOpen(t)
  PROVE  ListInv'
<1>1. unchangedObjects
  BY DEF C_FindObjects, FindOpen, unchangedObjects, config
<1>2. "ok" \in Results /\ "failed" \in Results /\ "notfound" \in Results
  BY DEF Results
<1>3. call[t].at \notin {"import", "clear", "unlist"}
  BY Standing DEF C_FindObjects, FindOpen, Calls
<1>4. ASSUME NEW rv \in Results, Return(t, rv) PROVE ListInv'
  BY <1>1, <1>3, <1>4, ReturnStep
<1>5. CASE C_FindObjects(t)
  <2>1. initialized /\ \A u \in Tasks \ {t} : ~Provisioning(u)
    BY <1>5, Begins DEF C_FindObjects
  <2>2. SUFFICES ASSUME NEW k, k = session[t].find PROVE ListInv'
    OBVIOUS
  <2>3. \/ Return(t, "failed") \/ Return(t, "ok")
        \/ k \in Keys /\ mark[k] /\ Goto(t, Busy("find", "list", k, None))
        \/ /\ k # None /\ (k \notin Keys \/ ~mark[k])
           /\ Goto(t, Busy("find", "open", k, None))
    BY <1>5, <2>2 DEF C_FindObjects
  <2>4. CASE k \in Keys /\ mark[k] /\ Goto(t, Busy("find", "list", k, None))
    <3> DEFINE c == Busy("find", "list", k, None)
    <3>1. c \in Records /\ c.op = "find" /\ c.at = "list" /\ c.kind = k
      BY <2>4, BusyRecord, IdsDiffer
    <3>2. Sound(c)
      BY <2>4, <3>1, IdsDiffer DEF Sound, SoundFind, Marked
    <3>3. Goto(t, c)
      BY <2>4
    <3> HIDE DEF c
    <3>4. QED
      BY <1>1, <1>3, <2>1, <3>1, <3>2, <3>3, GotoStep
  <2>5. CASE /\ k # None /\ (k \notin Keys \/ ~mark[k])
             /\ Goto(t, Busy("find", "open", k, None))
    <3>1. k \in Kinds
      <4>1. k \in Kinds \cup {None}
        BY <2>2 DEF SessionInv, Sessions
      <4>2. QED
        BY <2>5, <4>1
    <3> DEFINE c == Busy("find", "open", k, None)
    <3>2. c \in Records /\ c.op = "find" /\ c.at = "open" /\ c.kind = k
      BY <3>1, BusyRecord
    <3>3. k \in stored => psa[k] # None
      BY <2>5, IdsDiffer DEF ListInv, StoredIsKept
    <3>4. Sound(c)
      BY <3>1, <3>2, <3>3 DEF Sound, SoundFind
    <3>5. Goto(t, c)
      BY <2>5
    <3> HIDE DEF c
    <3>6. QED
      BY <1>1, <1>3, <2>1, <3>2, <3>4, <3>5, GotoStep
  <2>6. QED
    BY <1>2, <1>4, <2>3, <2>4, <2>5
<1>6. CASE FindOpen(t)
  <2>1. SUFFICES ASSUME NEW k, k = call[t].kind PROVE ListInv'
    OBVIOUS
  <2>2. call[t].op = "find" /\ call[t].at = "open" /\ k \in Kinds
    BY <1>6, <2>1 DEF FindOpen, ListInv, Sound, SoundFind
  <2>3. \/ Return(t, "notfound") \/ Return(t, "failed")
        \/ psa[k] # None /\ k \in Keys /\ Goto(t, Busy("find", "import", k, k))
        \/ psa[k] # None /\ k \notin Keys /\ Goto(t, Busy("find", "list", k, k))
    BY <1>6, <2>1 DEF FindOpen
  <2>4. ASSUME NEW a \in {"import", "list"}, psa[k] # None, k \in Keys => a = "import",
               Goto(t, Busy("find", a, k, k))
        PROVE  ListInv'
    <3> DEFINE c == Busy("find", a, k, k)
    <3>1. c \in Records /\ c.op = "find" /\ c.at = a /\ c.kind = k /\ c.ref = k
      <4>1. k \in Kinds \cup {None} /\ k \in Ids \cup Mechanisms \cup {None}
        BY <2>2, IdsDiffer
      <4>2. QED
        BY <4>1, BusyRecord
    <3>2. Backed(c)
      BY <2>2, <2>4, <3>1, IdsDiffer DEF Backed
    <3>3. Sound(c)
      BY <2>2, <2>4, <3>1, <3>2, IdsDiffer DEF Sound, SoundFind
    <3>4. Goto(t, c)
      BY <2>4
    <3> HIDE DEF c
    <3>5. QED
      BY <1>1, <1>3, <2>2, <3>1, <3>3, <3>4, GotoStep
  <2>5. QED
    BY <1>2, <1>4, <2>3, <2>4
<1>7. QED
  BY <1>5, <1>6

(* The object a call imports is there, whichever call it is.               *)
LEMMA Importing ==
  ASSUME ListInv, NEW t \in Tasks, call[t].at = "import"
  PROVE  Backed(call[t]) /\ call[t].op \in {"find", "create", "generate"}
BY IdsDiffer DEF ListInv, Sound, SoundFind, SoundCreate, SoundGenerate, SoundDestroy,
                 Results, Backed

(* While a call makes or destroys objects the others are idle; while one   *)
(* searches, none makes or destroys.                                       *)
LEMMA Company ==
  ASSUME ListInv, NEW t \in Tasks
  PROVE  /\ Provisioning(t) => \A u \in Tasks \ {t} : call[u].op = "idle" /\ call[u].at \in Results
         /\ call[t].op # "idle" => \A u \in Tasks \ {t} : ~Provisioning(u)
         /\ call[t].op # "idle" => initialized
<1>1. Apart /\ \A u \in Tasks : Sound(call[u])
  BY DEF ListInv
<1>2. \A u \in Tasks : call[u].op = "idle" => call[u].at \in Results
  BY <1>1 DEF Sound
<1>3. QED
  BY <1>1, <1>2 DEF Apart

(* PKCS11PSAContextImportObject.                                           *)
LEMMA ImportStep ==
  ASSUME ListInv, NEW t \in Tasks, ImportObject(t)
  PROVE  ListInv'
<1>1. SUFFICES ASSUME NEW k, k = call[t].kind, NEW op, op = call[t].op PROVE ListInv'
  OBVIOUS
<1>2. /\ Typed /\ call[t] \in Records /\ call[t].at = "import"
      /\ Backed(call[t]) /\ op \in {"find", "create", "generate"}
      /\ mark' = [mark EXCEPT ![k] = TRUE]
      /\ keyHandle' = IF k \in Keys THEN [keyHandle EXCEPT ![k] = call[t].ref] ELSE keyHandle
      /\ UNCHANGED <<initialized, objects, psa, stored>>
  BY <1>1, Standing, Importing DEF ListInv, ImportObject
<1>3. k \in Kinds /\ call[t].ref \in IdsOf(k) /\ psa[call[t].ref] # None
  BY <1>1, <1>2 DEF Backed
<1>4. /\ mark' \in [Kinds -> BOOLEAN] /\ mark'[k]
      /\ \A l \in Kinds : l # k => mark'[l] = mark[l]
  BY <1>2, <1>3 DEF Typed
<1>5. /\ keyHandle' \in [Keys -> Ids \cup {None}]
      /\ k \in Keys => keyHandle'[k] = call[t].ref
      /\ \A l \in Keys : l # k => keyHandle'[l] = keyHandle[l]
  BY <1>2, <1>3, IdsDiffer DEF Typed
<1>6. PICK c \in Records :
        /\ call' = [call EXCEPT ![t] = c]
        /\ \/ c.op = "idle" /\ c.at \in Results
           \/ c = [call[t] EXCEPT !.at = "list"] /\ (op = "find" => k \notin Certs)
  <2>1. CASE op = "find" /\ k \in Certs
    <3>1. call' = [call EXCEPT ![t] = Idle("ok")]
      BY <1>1, <2>1 DEF ImportObject, Return
    <3>2. "ok" \in Results
      BY DEF Results
    <3>3. QED
      BY <3>1, <3>2, IdleRecord
  <2>2. CASE ~(op = "find" /\ k \in Certs)
    <3>1. call' = [call EXCEPT ![t] = [call[t] EXCEPT !.at = "list"]]
      BY <1>1, <2>2 DEF ImportObject, Goto
    <3>2. [call[t] EXCEPT !.at = "list"] \in Records
      BY <1>2 DEF Records
    <3>3. QED
      BY <2>2, <3>1, <3>2
  <2>3. QED
    BY <2>1, <2>2
<1>7. c.op = "idle" \/ c.op = call[t].op
  BY <1>2, <1>6 DEF Records
<1>8. Apart' /\ call'[t] = c /\ \A u \in Tasks : u # t => call'[u] = call[u]
  BY <1>2, <1>6, <1>7, StaysApart
<1>9. Typed'
  BY <1>2, <1>4, <1>5, <1>6 DEF Typed
<1>10. Sound(call[t])'
  <2>1. CASE c.op = "idle" /\ c.at \in Results
    BY <1>8, <2>1 DEF Sound
  <2>2. CASE c = [call[t] EXCEPT !.at = "list"] /\ (op = "find" => k \notin Certs)
    <3>1. c.at = "list" /\ c.op = op /\ c.kind = k /\ c.ref = call[t].ref
      BY <1>1, <1>2, <2>2 DEF Records
    <3>2. Marked(c)'
      BY <1>3, <1>4, <3>1 DEF Marked
    <3>3. op = "find" => k \in Keys
      BY <1>3, <2>2, IdsDiffer
    <3>4. op = "generate" => SoundGenerate(c)'
      BY <1>1, <1>2, <1>4, <3>1 DEF ListInv, Sound, SoundGenerate
    <3>5. QED
      BY <1>2, <1>8, <3>1, <3>2, <3>3, <3>4 DEF Sound, SoundFind, SoundCreate, Marked
  <2>3. QED
    BY <1>6, <2>1, <2>2
<1>11. \A u \in Tasks : Sound(call[u])'
  <2>1. \A u \in Tasks \ {t} : ~Provisioning(u)
    BY <1>1, <1>2, Company
  <2>2. \A l \in Kinds : mark[l] => mark'[l]
    BY <1>4
  <2>3. QED
    BY <1>2, <1>8, <1>10, <2>1, <2>2, OthersSound
<1>12. \A l : (Changing(l) /\ l # k => Changing(l)') /\ (Clearing(l) => Clearing(l)')
  BY <1>1, <1>2, <1>8 DEF Changing, Clearing
<1>13. HandlesFit'
  BY <1>3, <1>5 DEF ListInv, HandlesFit
<1>14. MarkedIsThere'
  <2>1. SUFFICES ASSUME NEW l \in Kinds, mark'[l], ~Clearing(l)'
                 PROVE  HandleOf(l)' \in IdsOf(l) /\ psa[HandleOf(l)'] # None
    BY <1>2 DEF MarkedIsThere, IdsOf
  <2>2. CASE l = k
    <3>1. HandleOf(k)' = call[t].ref
      BY <1>3, <1>5, IdsDiffer DEF HandleOf, IdsOf
    <3>2. QED
      BY <1>3, <2>2, <3>1
  <2>3. CASE l # k
    <3>1. HandleOf(l)' = HandleOf(l)
      BY <1>5, <2>3 DEF HandleOf
    <3>2. QED
      BY <1>4, <1>12, <2>1, <2>3, <3>1 DEF ListInv, MarkedIsThere
  <2>4. QED
    BY <2>2, <2>3
<1>15. ListedIsMarked'
  <2>1. SUFFICES ASSUME NEW i \in Slots, NEW l, l = objects[i], l # None
                 PROVE  mark'[l] \/ Changing(l)'
    BY <1>2 DEF ListedIsMarked, Changing
  <2>2. l \in Kinds /\ (mark[l] \/ Changing(l))
    BY <1>2, <2>1 DEF ListInv, ListedIsMarked, Typed
  <2>3. QED
    BY <1>4, <1>12, <2>2
<1>16. UniqueInList' /\ StoredIsKept'
  BY <1>2, <1>4 DEF ListInv, UniqueInList, StoredIsKept, Typed
<1>17. QED
  BY <1>8, <1>9, <1>11, <1>13, <1>14, <1>15, <1>16 DEF ListInv

(* prvAddObjectToList: the entry of the object, or a free one when it has  *)
(* none.                                                                   *)
LEMMA PlaceFound ==
  ASSUME Typed, UniqueInList, NEW k \in Kinds
  PROVE  \/ PlaceOf(k) = None /\ Holds(k) = {} /\ Holds(None) = {}
         \/ PlaceOf(k) \in Slots /\ objects[PlaceOf(k)] = k
         \/ PlaceOf(k) \in Slots /\ objects[PlaceOf(k)] = None /\ Holds(k) = {}
<1>1. Slots \subseteq Nat
  BY Pkcs11Assumption DEF Slots
<1>2. CASE Holds(k) # {}
  <2>1. PICK i \in Holds(k) : TRUE
    BY <1>2
  <2>2. Holds(k) = {i}
    BY <2>1, IdsDiffer DEF Holds, UniqueInList
  <2>3. i <= i
    BY <1>1, <2>1 DEF Holds
  <2>4. PlaceOf(k) = CHOOSE x \in Holds(k) : \A j \in Holds(k) : j <= x
    BY <1>2 DEF PlaceOf
  <2>5. PlaceOf(k) = i
    BY <2>2, <2>3, <2>4
  <2>6. QED
    BY <2>1, <2>5 DEF Holds
<1>3. CASE Holds(k) = {} /\ Holds(None) # {}
  <2>1. Holds(None) \in SUBSET Nat
    BY <1>1 DEF Holds
  <2>2. \E m \in Holds(None) : \A j \in Holds(None) : m <= j
    BY <1>3, <2>1, LeastNatural
  <2>3. PlaceOf(k) = CHOOSE m \in Holds(None) : \A j \in Holds(None) : m <= j
    BY <1>3 DEF PlaceOf, First
  <2>4. PlaceOf(k) \in Holds(None)
    BY <2>2, <2>3
  <2>5. QED
    BY <1>3, <2>4 DEF Holds
<1>4. CASE Holds(k) = {} /\ Holds(None) = {}
  BY <1>4 DEF PlaceOf
<1>5. QED
  BY <1>2, <1>3, <1>4

LEMMA AddStep ==
  ASSUME ListInv, NEW t \in Tasks, AddObjectToList(t)
  PROVE  ListInv'
<1>1. SUFFICES ASSUME NEW k, k = call[t].kind, NEW op, op = call[t].op,
                      NEW i, i = PlaceOf(k)
               PROVE  ListInv'
  OBVIOUS
<1>2. /\ Typed /\ UniqueInList /\ call[t] \in Records /\ call[t].at = "list"
      /\ op \in {"find", "create", "generate"} /\ Sound(call[t])
      /\ UNCHANGED <<initialized, mark, keyHandle, psa>>
  BY <1>1, Standing DEF ListInv, AddObjectToList, config
<1>3. /\ k \in Kinds
      /\ op = "find" /\ k \in Certs => Backed(call[t])
      /\ ~(op = "find" /\ k \in Certs) => mark[k]
  BY <1>1, <1>2, IdsDiffer
  DEF Sound, SoundFind, SoundCreate, SoundGenerate, SoundDestroy, Backed, Marked, Results
<1>4. CASE i = None
  <2>1. Return(t, "failed") /\ unchangedObjects /\ "failed" \in Results
    BY <1>1, <1>2, <1>4 DEF AddObjectToList, unchangedObjects, Results
  <2>2. QED
    BY <1>2, <2>1, ReturnStep
<1>5. CASE i # None
  <2>1. /\ objects' = [objects EXCEPT ![i] = k]
        /\ stored' = IF op = "find" THEN stored ELSE stored \cup {k}
    BY <1>1, <1>5 DEF AddObjectToList
  <2>2. i \in Slots /\ (objects[i] = k \/ (objects[i] = None /\ Holds(k) = {}))
    BY <1>1, <1>2, <1>3, <1>5, PlaceFound
  <2>3. PICK c \in Records :
          /\ call' = [call EXCEPT ![t] = c]
          /\ c.op = "idle" \/ c.op = op
          /\ op = "find" /\ k \in Certs => c.at = "import" /\ c.kind = k
          /\ \/ c.op = "idle" /\ c.at \in Results
             \/ op = "find" /\ k \in Certs /\ c = [call[t] EXCEPT !.at = "import"]
             \/ op = "generate" /\ k = "priv" /\ c = Busy(op, "import", "pub", "pub")
    <3>1. CASE op = "find" /\ k \in Certs
      <4>1. call' = [call EXCEPT ![t] = [call[t] EXCEPT !.at = "import"]]
        BY <1>1, <1>5, <3>1 DEF AddObjectToList, Goto
      <4>2. /\ [call[t] EXCEPT !.at = "import"] \in Records
            /\ [call[t] EXCEPT !.at = "import"].op = op
            /\ [call[t] EXCEPT !.at = "import"].at = "import"
            /\ [call[t] EXCEPT !.at = "import"].kind = k
        BY <1>1, <1>2 DEF Records
      <4>3. QED
        BY <3>1, <4>1, <4>2
    <3>2. CASE op = "generate" /\ k = "priv"
      <4>1. call' = [call EXCEPT ![t] = Busy(op, "import", "pub", "pub")]
        BY <1>1, <1>5, <3>2 DEF AddObjectToList, Goto
      <4>2. "pub" \in Kinds \cup {None} /\ "pub" \in Ids \cup Mechanisms \cup {None}
        BY DEF Kinds, Keys, Ids
      <4>3. Busy(op, "import", "pub", "pub") \in Records
            /\ Busy(op, "import", "pub", "pub").op = op
        BY <3>2, <4>2, BusyRecord
      <4>4. QED
        BY <3>2, <4>1, <4>3
    <3>3. CASE ~(op = "find" /\ k \in Certs) /\ ~(op = "generate" /\ k = "priv")
      <4>1. call' = [call EXCEPT ![t] = Idle("ok")] /\ "ok" \in Results
        BY <1>1, <1>5, <3>3 DEF AddObjectToList, Return, Results
      <4>2. QED
        BY <3>3, <4>1, IdleRecord
    <3>4. QED
      BY <3>1, <3>2, <3>3
  <2>4. Apart' /\ call'[t] = c /\ \A u \in Tasks : u # t => call'[u] = call[u]
    BY <1>1, <1>2, <2>3, StaysApart
  <2>5. Typed'
    BY <1>2, <1>3, <2>1, <2>3 DEF Typed
  <2>6. Sound(call[t])'
    <3>1. CASE c.op = "idle" /\ c.at \in Results
      BY <2>4, <3>1 DEF Sound
    <3>2. CASE op = "find" /\ k \in Certs /\ c = [call[t] EXCEPT !.at = "import"]
      <4>1. c.at = "import" /\ c.op = "find" /\ c.kind = k /\ c.ref = call[t].ref
        BY <1>1, <1>2, <3>2 DEF Records
      <4>2. Backed(c)'
        BY <1>1, <1>2, <1>3, <3>2, <4>1 DEF Backed, IdsOf
      <4>3. QED
        BY <2>4, <4>1, <4>2 DEF Sound, SoundFind, Backed, IdsOf
    <3>3. CASE op = "generate" /\ k = "priv" /\ c = Busy(op, "import", "pub", "pub")
      <4>1. c.op = "generate" /\ c.at = "import" /\ c.kind = "pub" /\ c.ref = "pub"
        BY <3>3 DEF Busy
      <4>2. psa["priv"] # None /\ psa["pub"] # None
        BY <1>1, <1>2, <3>3 DEF Sound, SoundGenerate
      <4>3. QED
        BY <1>2, <2>4, <4>1, <4>2 DEF Sound, SoundGenerate
    <3>4. QED
      BY <2>3, <3>1, <3>2, <3>3
  <2>7. \A u \in Tasks : Sound(call[u])'
    <3>1. CASE op = "find"
      <4>1. \A u \in Tasks \ {t} : ~Provisioning(u)
        BY <1>1, <3>1, Company
      <4>2. QED
        BY <1>2, <2>1, <2>4, <2>6, <3>1, <4>1, OthersSound
    <3>2. CASE op # "find"
      <4>1. \A u \in Tasks \ {t} : call[u].op = "idle"
        BY <1>1, <1>2, <3>2, Company DEF Provisioning
      <4>2. QED
        BY <2>4, <2>6, <4>1, OthersSound
    <3>3. QED
      BY <3>1, <3>2
  <2>8. \A l : (Changing(l) => Changing(l)') /\ (Clearing(l) => Clearing(l)')
    BY <1>2, <2>4 DEF Changing, Clearing
  <2>9. \A j \in Slots : objects'[j] = IF j = i THEN k ELSE objects[j]
    BY <1>2, <2>1, <2>2 DEF Typed
  <2>10. UniqueInList'
    BY <1>2, <2>2, <2>9 DEF UniqueInList, Holds
  <2>11. HandlesFit' /\ MarkedIsThere'
    BY <1>2, <2>8 DEF ListInv, HandlesFit, MarkedIsThere, HandleOf
  <2>12. ListedIsMarked'
    <3>1. SUFFICES ASSUME NEW j \in Slots, NEW l, l = objects'[j], l # None
                   PROVE  mark[l] \/ Changing(l)'
      BY <1>2 DEF ListedIsMarked, Changing
    <3>2. CASE j = i
      <4>1. l = k
        BY <2>9, <3>1, <3>2
      <4>2. op = "find" /\ k \in Certs => Changing(k)'
        BY <2>3, <2>4 DEF Changing
      <4>3. QED
        BY <1>3, <4>1, <4>2
    <3>3. CASE j # i
      BY <2>8, <2>9, <3>1, <3>3 DEF ListInv, ListedIsMarked
    <3>4. QED
      BY <3>2, <3>3
  <2>13. StoredIsKept'
    <3>1. CASE op = "find"
      BY <1>2, <2>1, <3>1 DEF ListInv, StoredIsKept
    <3>2. CASE op # "find"
      <4>1. mark[k] /\ ~Clearing(k)
        <5>1. \A u \in Tasks \ {t} : call[u].at \in Results
          BY <1>1, <1>2, <3>2, Company DEF Provisioning
        <5>2. QED
          BY <1>2, <1>3, <3>2, <5>1 DEF Clearing, Results
      <4>2. HandleOf(k) \in IdsOf(k) /\ psa[HandleOf(k)] # None
        BY <1>3, <4>1 DEF ListInv, MarkedIsThere
      <4>3. psa[k] # None \/ k = "code"
        BY <4>2 DEF IdsOf
      <4>4. QED
        BY <1>2, <2>1, <4>1, <4>3 DEF ListInv, StoredIsKept
    <3>3. QED
      BY <3>1, <3>2
  <2>14. QED
    BY <2>4, <2>5, <2>7, <2>10, <2>11, <2>12, <2>13 DEF ListInv
<1>6. QED
  BY <1>4, <1>5

(* An object comes to the secure side, while no other call is under way.   *)
LEMMA GrowStep ==
  ASSUME ListInv, NEW t \in Tasks, NEW c \in Records, Goto(t, c),
         NEW id \in Ids, NEW v \in Algs \cup {"data"}, psa' = [psa EXCEPT ![id] = v],
         UNCHANGED <<initialized, objects, mark, keyHandle, stored>>,
         call[t].at \notin {"import", "clear", "unlist"}, initialized,
         \A u \in Tasks \ {t} : call[u].op = "idle", Sound(c)'
  PROVE  ListInv'
<1>1. call' = [call EXCEPT ![t] = c]
  BY DEF Goto
<1>2. Apart' /\ call'[t] = c /\ \A u \in Tasks : u # t => call'[u] = call[u]
  BY <1>1, StaysApart
<1>3. Typed
  BY DEF ListInv
<1>4. v # None
  BY Pkcs11Assumption
<1>5. psa' \in [Ids -> Algs \cup {"data", None}] /\ \A x \in Ids : psa[x] # None => psa'[x] # None
  BY <1>3, <1>4 DEF Typed
<1>6. Typed'
  BY <1>1, <1>3, <1>5 DEF Typed
<1>7. \A u \in Tasks : Sound(call[u])'
  <2>1. \A u \in Tasks : u # t => Sound(call[u])'
    BY <1>2, OthersSound
  <2>2. Sound(call[t])'
    BY <1>2 DEF Sound, SoundFind, SoundCreate, SoundGenerate, SoundDestroy, Backed, Marked
  <2>3. QED
    BY <2>1, <2>2
<1>8. \A k : (Changing(k) => Changing(k)') /\ (Clearing(k) => Clearing(k)')
  BY <1>2 DEF Changing, Clearing
<1>9. UniqueInList' /\ HandlesFit'
  BY DEF ListInv, UniqueInList, HandlesFit
<1>10. MarkedIsThere'
  <2>1. SUFFICES ASSUME NEW k \in Kinds, mark[k], ~Clearing(k)
                 PROVE  HandleOf(k) \in IdsOf(k) /\ psa'[HandleOf(k)] # None
    BY <1>8 DEF MarkedIsThere, HandleOf
  <2>2. HandleOf(k) \in IdsOf(k) /\ psa[HandleOf(k)] # None
    BY <2>1 DEF ListInv, MarkedIsThere
  <2>3. HandleOf(k) \in Ids
    BY <2>2, IdsDiffer
  <2>4. QED
    BY <1>5, <2>2, <2>3
<1>11. ListedIsMarked'
  BY <1>8 DEF ListInv, ListedIsMarked
<1>12. StoredIsKept'
  <2>1. stored \subseteq Ids
    BY <1>3 DEF Typed, Ids
  <2>2. QED
    BY <1>5, <2>1 DEF ListInv, StoredIsKept
<1>13. QED
  BY <1>2, <1>6, <1>7, <1>9, <1>10, <1>11, <1>12 DEF ListInv

(* PKCS11PSASaveObject puts an object under an id of its kind.             *)
LEMMA TargetFits ==
  ASSUME NEW tm \in Templates, NEW id \in Target(tm)
  PROVE  id \in IdsOf(tm.kind) /\ (tm.kind \notin Certs => tm.kind \in Keys)
<1>1. tm.kind \in Kinds
  BY DEF Templates
<1>2. \/ id \in SaveCertificate(tm.kind)
      \/ id \in SavePrivateKey(tm.kind)
      \/ id \in SavePublicKey(tm.kind)
  BY DEF Target
<1>3. id = tm.kind \/ (tm.kind = "code" /\ id \in Volatile)
  BY <1>2 DEF SaveCertificate, SavePrivateKey, SavePublicKey, Free
<1>4. QED
  BY <1>1, <1>3, IdsDiffer DEF IdsOf

(* The calls that make objects, up to where they are imported.             *)
LEMMA MakeSteps ==
  ASSUME ListInv, Exclusive, NEW t \in Tasks,
         \/ C_CreateObject(t) \/ C_GenerateKeyPair(t)
         \/ GenerateExport(t) \/ GeneratePublic(t)
  PROVE  ListInv'
<1>1. UNCHANGED <<initialized, objects, mark, keyHandle, stored>>
  BY DEF C_CreateObject, C_GenerateKeyPair, GenerateExport, GeneratePublic, config
<1>2. call[t] \in Records /\ call[t].at \notin {"import", "clear", "unlist"}
  BY Standing DEF C_CreateObject, C_GenerateKeyPair, GenerateExport, GeneratePublic, Calls
<1>3. initialized /\ \A u \in Tasks \ {t} : call[u].op = "idle"
  <2>1. CASE C_CreateObject(t) \/ C_GenerateKeyPair(t)
    BY <2>1, Begins DEF C_CreateObject, C_GenerateKeyPair
  <2>2. CASE GenerateExport(t) \/ GeneratePublic(t)
    BY <2>2, Company DEF GenerateExport, GeneratePublic, Provisioning
  <2>3. QED
    BY <2>1, <2>2
<1>4. ASSUME Return(t, "failed"), UNCHANGED psa PROVE ListInv'
  <2>1. "failed" \in Results /\ unchangedObjects
    BY <1>1, <1>4 DEF Results, unchangedObjects
  <2>2. QED
    BY <1>2, <1>4, <2>1, ReturnStep
<1>5. "priv" \in Ids /\ "pub" \in Ids /\ "priv" \in Kinds /\ "EC" \in Algs \cup {"data"}
  BY Pkcs11Assumption DEF Ids, Kinds, Keys
<1>6. Typed
  BY DEF ListInv
<1>7. CASE C_CreateObject(t)
  <2>1. SUFFICES ASSUME NEW tm \in Templates, NEW id \in Target(tm),
                        psa' = [psa EXCEPT ![id] = IF tm.kind \in Certs THEN "data" ELSE tm.alg],
                        Goto(t, Busy("create", "import", tm.kind, id))
                 PROVE  ListInv'
    BY <1>4, <1>7 DEF C_CreateObject
  <2>2. SUFFICES ASSUME NEW v, v = IF tm.kind \in Certs THEN "data" ELSE tm.alg PROVE ListInv'
    OBVIOUS
  <2> DEFINE c == Busy("create", "import", tm.kind, id)
  <2>3. tm.kind \in Kinds /\ v \in Algs \cup {"data"} /\ v # None
    BY <2>2, Pkcs11Assumption DEF Templates
  <2>4. id \in IdsOf(tm.kind) /\ id \in Ids
    BY <2>3, TargetFits, IdsDiffer
  <2>5. c \in Records /\ c.op = "create" /\ c.at = "import" /\ c.kind = tm.kind /\ c.ref = id
    BY <2>3, <2>4, BusyRecord
  <2>6. psa' = [psa EXCEPT ![id] = v] /\ psa'[id] # None
    BY <1>6, <2>1, <2>2, <2>3, <2>4 DEF Typed
  <2>7. c' = c
    BY DEF Busy
  <2>8. Sound(c)'
    BY <2>3, <2>4, <2>5, <2>6, <2>7 DEF Sound, SoundCreate, Backed, IdsOf
  <2>9. Goto(t, c)
    BY <2>1
  <2> HIDE DEF c
  <2>10. QED
    BY <1>1, <1>2, <1>3, <2>3, <2>4, <2>5, <2>6, <2>8, <2>9, GrowStep
<1>8. CASE C_GenerateKeyPair(t)
  <2>1. SUFFICES ASSUME psa' = [psa EXCEPT !["priv"] = "EC"],
                        Goto(t, Busy("generate", "export", "priv", "priv"))
                 PROVE  ListInv'
    BY <1>4, <1>8 DEF C_GenerateKeyPair
  <2> DEFINE c == Busy("generate", "export", "priv", "priv")
  <2>2. c \in Records /\ c.op = "generate" /\ c.at = "export" /\ c.kind = "priv" /\ c.ref = "priv"
    BY <1>5, BusyRecord
  <2>3. c' = c
    BY DEF Busy
  <2>4. Sound(c)'
    BY <2>2, <2>3 DEF Sound, SoundGenerate
  <2>5. Goto(t, c)
    BY <2>1
  <2> HIDE DEF c
  <2>6. QED
    BY <1>1, <1>2, <1>3, <1>5, <2>1, <2>2, <2>4, <2>5, GrowStep
<1>9. CASE GenerateExport(t)
  <2>1. SUFFICES ASSUME psa["priv"] # None, Goto(t, [call[t] EXCEPT !.at = "public"])
                 PROVE  ListInv'
    BY <1>4, <1>9 DEF GenerateExport
  <2>2. PICK c : c = [call[t] EXCEPT !.at = "public"]
    OBVIOUS
  <2>3. call[t].op = "generate" /\ call[t].kind = "priv" /\ call[t].ref = "priv"
    BY <1>9 DEF GenerateExport, ListInv, Sound, SoundGenerate
  <2>4. c \in Records /\ c.op = "generate" /\ c.at = "public" /\ c.kind = "priv" /\ c.ref = "priv"
    BY <1>2, <2>2, <2>3 DEF Records
  <2>5. Sound(c)
    BY <2>1, <2>4 DEF Sound, SoundGenerate
  <2>6. Goto(t, c) /\ unchangedObjects
    BY <1>1, <1>9, <2>1, <2>2 DEF GenerateExport, unchangedObjects
  <2>7. QED
    BY <1>2, <2>3, <2>4, <2>5, <2>6, GotoStep
<1>10. CASE GeneratePublic(t)
  <2>1. SUFFICES ASSUME psa' = [psa EXCEPT !["pub"] = "EC"],
                        Goto(t, [call[t] EXCEPT !.at = "import"])
                 PROVE  ListInv'
    BY <1>4, <1>10 DEF GeneratePublic
  <2>2. PICK c : c = [call[t] EXCEPT !.at = "import"]
    OBVIOUS
  <2>3. call[t].op = "generate" /\ call[t].kind = "priv" /\ call[t].ref = "priv" /\ psa["priv"] # None
    BY <1>10 DEF GeneratePublic, ListInv, Sound, SoundGenerate
  <2>4. c \in Records /\ c.op = "generate" /\ c.at = "import" /\ c.kind = "priv" /\ c.ref = "priv"
    BY <1>2, <2>2, <2>3 DEF Records
  <2>5. psa'["pub"] # None /\ psa'["priv"] # None
    BY <1>5, <1>6, <2>1, <2>3, Pkcs11Assumption DEF Typed
  <2>6. Sound(c)'
    BY <2>4, <2>5 DEF Sound, SoundGenerate
  <2>7. Goto(t, c)
    BY <2>1, <2>2
  <2>8. QED
    BY <1>1, <1>2, <1>3, <1>5, <2>1, <2>4, <2>6, <2>7, GrowStep
<1>11. QED
  BY <1>7, <1>8, <1>9, <1>10

(* Nobody but the call that destroys an object is changing one.            *)
LEMMA Destroying ==
  ASSUME ListInv, NEW t \in Tasks, call[t].op = "destroy"
  PROVE  /\ call[t] \in Records /\ SoundDestroy(call[t])
         /\ \A u \in Tasks \ {t} : call[u].op = "idle" /\ call[u].at \in Results
         /\ \A l : Changing(l) => l = call[t].kind /\ call[t].at \in {"clear", "unlist"}
         /\ \A l : Clearing(l) => l = call[t].kind /\ call[t].at = "clear"
<1>1. call[t] \in Records /\ SoundDestroy(call[t])
  BY DEF ListInv, Typed, Sound
<1>2. \A u \in Tasks \ {t} : call[u].op = "idle" /\ call[u].at \in Results
  BY Company DEF Provisioning
<1>3. QED
  BY <1>1, <1>2 DEF SoundDestroy, Changing, Clearing, Results

(* C_DestroyObject, up to PKCS11PSARemoveObject.                           *)
LEMMA DestroyStep ==
  ASSUME ListInv, Exclusive, NEW t \in Tasks, C_DestroyObject(t)
  PROVE  ListInv'
<1>1. Calls(t, "provision") /\ unchangedObjects
  BY DEF C_DestroyObject, unchangedObjects, config
<1>2. initialized /\ call[t].op = "idle" /\ \A u \in Tasks \ {t} : call[u].op = "idle"
  BY <1>1, Begins
<1>3. call[t].at \notin {"import", "clear", "unlist"}
  BY <1>2, Standing
<1>4. CASE Return(t, "ok")
  <2>1. "ok" \in Results
    BY DEF Results
  <2>2. QED
    BY <1>1, <1>3, <1>4, <2>1, ReturnStep
<1>5. ASSUME NEW i \in Slots, NEW k, k = objects[i], k # None,
             Goto(t, [Busy("destroy", "remove", k, None) EXCEPT !.slot = i])
      PROVE  ListInv'
  <2>1. k \in Kinds
    BY <1>5 DEF ListInv, Typed
  <2>2. PICK c : c = [Busy("destroy", "remove", k, None) EXCEPT !.slot = i]
    OBVIOUS
  <2>3. /\ c \in Records /\ c.op = "destroy" /\ c.at = "remove" /\ c.kind = k /\ c.slot = i
    BY <1>5, <2>1, <2>2 DEF Busy, Records
  <2>4. Sound(c)
    BY <1>5, <2>1, <2>3 DEF Sound, SoundDestroy
  <2>5. Goto(t, c)
    BY <1>5, <2>2
  <2>6. QED
    BY <1>1, <1>2, <1>3, <2>3, <2>4, <2>5, GotoStep
<1>6. QED
  BY <1>4, <1>5 DEF C_DestroyObject

(* PKCS11PSARemoveObject.  The id that is cleared is one of the object's   *)
(* own, so no other object is lost.                                        *)
LEMMA RemoveStep ==
  ASSUME ListInv, NEW t \in Tasks, DestroyRemove(t)
  PROVE  ListInv'
<1>1. /\ call[t].op = "destroy" /\ call[t].at = "remove"
      /\ UNCHANGED <<initialized, objects, mark, keyHandle>>
  BY DEF DestroyRemove, config
<1>2. SUFFICES ASSUME NEW k, k = objects[call[t].slot] PROVE ListInv'
  OBVIOUS
<1>3. /\ call[t] \in Records /\ k \in Kinds /\ call[t].kind = k
      /\ call[t].slot \in Slots
      /\ \A u \in Tasks \ {t} : call[u].op = "idle" /\ call[u].at \in Results
      /\ \A l : ~Changing(l) /\ ~Clearing(l)
  BY <1>1, <1>2, Destroying DEF SoundDestroy
<1>4. Typed
  BY DEF ListInv
<1>5. \/ /\ mark[k]
         /\ psa' = [psa EXCEPT ![HandleOf(k)] = None]
         /\ stored' = stored \ {k}
         /\ Goto(t, [call[t] EXCEPT !.at = "clear", !.kind = k])
      \/ Goto(t, [call[t] EXCEPT !.at = "unlist", !.kind = k]) /\ UNCHANGED <<psa, stored>>
      \/ Return(t, "failed") /\ UNCHANGED <<psa, stored>>
  BY <1>2 DEF DestroyRemove, Readable
<1>6. CASE Return(t, "failed") /\ UNCHANGED <<psa, stored>>
  <2>1. "failed" \in Results /\ unchangedObjects
    BY <1>1, <1>6 DEF Results, unchangedObjects
  <2>2. QED
    BY <1>1, <1>6, <2>1, ReturnStep
<1>7. CASE Goto(t, [call[t] EXCEPT !.at = "unlist", !.kind = k]) /\ UNCHANGED <<psa, stored>>
  <2>1. PICK c : c = [call[t] EXCEPT !.at = "unlist", !.kind = k]
    OBVIOUS
  <2>2. /\ c \in Records /\ c.op = "destroy" /\ c.at = "unlist" /\ c.kind = k
        /\ c.slot = call[t].slot
    BY <1>1, <1>3, <2>1 DEF Records
  <2>3. Sound(c)
    BY <1>2, <1>3, <2>2 DEF Sound, SoundDestroy
  <2>4. Goto(t, c) /\ unchangedObjects
    BY <1>1, <1>7, <2>1 DEF unchangedObjects
  <2>5. QED
    BY <1>1, <2>2, <2>3, <2>4, GotoStep
<1>8. CASE /\ mark[k]
           /\ psa' = [psa EXCEPT ![HandleOf(k)] = None]
           /\ stored' = stored \ {k}
           /\ Goto(t, [call[t] EXCEPT !.at = "clear", !.kind = k])
  <2>1. PICK c : c = [call[t] EXCEPT !.at = "clear", !.kind = k]
    OBVIOUS
  <2>2. /\ c \in Records /\ c.op = "destroy" /\ c.at = "clear" /\ c.kind = k
        /\ c.slot = call[t].slot
    BY <1>1, <1>3, <2>1 DEF Records
  <2>3. call' = [call EXCEPT ![t] = c]
    BY <1>8, <2>1 DEF Goto
  <2>4. Apart' /\ call'[t] = c /\ \A u \in Tasks : u # t => call'[u] = call[u]
    BY <1>1, <2>2, <2>3, StaysApart
  <2>5. PICK h : h = HandleOf(k)
    OBVIOUS
  <2>6. h \in IdsOf(k) /\ h \in Ids
    BY <1>3, <1>8, <2>5, IdsDiffer DEF ListInv, MarkedIsThere
  <2>7. /\ psa' \in [Ids -> Algs \cup {"data", None}]
        /\ \A l \in Kinds \ {k} : \A x \in IdsOf(l) : psa'[x] = psa[x]
    <3>1. \A l \in Kinds \ {k} : \A x \in IdsOf(l) : x \in Ids /\ x # h
      BY <1>3, <2>6, IdsDiffer
    <3>2. QED
      BY <1>4, <1>8, <2>5, <2>6, <3>1 DEF Typed
  <2>8. Typed'
    BY <1>1, <1>4, <1>8, <2>2, <2>3, <2>7 DEF Typed
  <2>9. \A u \in Tasks : Sound(call[u])'
    <3>1. Sound(call[t])'
      BY <1>1, <1>2, <1>3, <1>8, <2>2, <2>4 DEF Sound, SoundDestroy
    <3>2. QED
      BY <1>3, <2>4, <3>1, OthersSound
  <2>10. UniqueInList' /\ HandlesFit'
    BY <1>1 DEF ListInv, UniqueInList, HandlesFit
  <2>11. MarkedIsThere'
    <3>1. SUFFICES ASSUME NEW l \in Kinds, mark[l], ~Clearing(l)'
                   PROVE  HandleOf(l) \in IdsOf(l) /\ psa'[HandleOf(l)] # None
      BY <1>1 DEF MarkedIsThere, HandleOf
    <3>2. l # k
      BY <2>2, <2>4, <3>1 DEF Clearing
    <3>3. HandleOf(l) \in IdsOf(l) /\ psa[HandleOf(l)] # None
      BY <1>3, <3>1 DEF ListInv, MarkedIsThere
    <3>4. QED
      BY <2>7, <3>2, <3>3
  <2>12. ListedIsMarked'
    BY <1>1, <1>3 DEF ListInv, ListedIsMarked
  <2>13. StoredIsKept'
    <3>1. SUFFICES ASSUME NEW l \in stored, l # k
                   PROVE  psa'[l] # None \/ (l = "code" /\ mark[l])
      BY <1>1, <1>8 DEF StoredIsKept
    <3>2. l \in Kinds \ {k} /\ l \in IdsOf(l)
      BY <1>4, <3>1, IdsDiffer DEF Typed
    <3>3. QED
      BY <2>7, <3>1, <3>2 DEF ListInv, StoredIsKept
  <2>14. QED
    BY <2>4, <2>8, <2>9, <2>10, <2>11, <2>12, <2>13 DEF ListInv
<1>9. QED
  BY <1>5, <1>6, <1>7, <1>8

(* The mark of a destroyed object is cleared.                              *)
LEMMA ClearStep ==
  ASSUME ListInv, NEW t \in Tasks, DestroyClear(t)
  PROVE  ListInv'
<1>1. SUFFICES ASSUME NEW k, k = call[t].kind PROVE ListInv'
  OBVIOUS
<1>2. /\ call[t].op = "destroy" /\ call[t].at = "clear"
      /\ mark' = [mark EXCEPT ![k] = FALSE]
      /\ keyHandle' = IF k \in Keys THEN [keyHandle EXCEPT ![k] = None] ELSE keyHandle
      /\ Goto(t, [call[t] EXCEPT !.at = "unlist"])
      /\ UNCHANGED <<initialized, objects, psa, stored>>
  BY <1>1 DEF DestroyClear
<1>3. /\ call[t] \in Records /\ k \in Kinds /\ k \notin stored
      /\ call[t].slot \in Slots /\ objects[call[t].slot] = k
      /\ \A u \in Tasks \ {t} : call[u].op = "idle" /\ call[u].at \in Results
      /\ \A l : Changing(l) \/ Clearing(l) => l = k
  BY <1>1, <1>2, Destroying DEF SoundDestroy
<1>4. Typed
  BY DEF ListInv
<1>5. PICK c : c = [call[t] EXCEPT !.at = "unlist"]
  OBVIOUS
<1>6. /\ c \in Records /\ c.op = "destroy" /\ c.at = "unlist" /\ c.kind = k
      /\ c.slot = call[t].slot
  BY <1>1, <1>2, <1>3, <1>5 DEF Records
<1>7. call' = [call EXCEPT ![t] = c]
  BY <1>2, <1>5 DEF Goto
<1>8. Apart' /\ call'[t] = c /\ \A u \in Tasks : u # t => call'[u] = call[u]
  BY <1>2, <1>6, <1>7, StaysApart
<1>9. /\ mark' \in [Kinds -> BOOLEAN] /\ ~mark'[k]
      /\ \A l \in Kinds : l # k => mark'[l] = mark[l]
  BY <1>2, <1>3, <1>4 DEF Typed
<1>10. /\ keyHandle' \in [Keys -> Ids \cup {None}]
       /\ k \in Keys => keyHandle'[k] = None
       /\ \A l \in Keys : l # k => keyHandle'[l] = keyHandle[l]
  BY <1>2, <1>4 DEF Typed
<1>11. Typed'
  BY <1>2, <1>4, <1>6, <1>7, <1>9, <1>10 DEF Typed
<1>12. \A u \in Tasks : Sound(call[u])'
  <2>1. Sound(call[t])'
    BY <1>2, <1>3, <1>6, <1>8 DEF Sound, SoundDestroy
  <2>2. QED
    BY <1>3, <1>8, <2>1, OthersSound
<1>13. UniqueInList' /\ HandlesFit'
  BY <1>2, <1>10 DEF ListInv, UniqueInList, HandlesFit
<1>14. MarkedIsThere'
  <2>1. SUFFICES ASSUME NEW l \in Kinds, mark'[l]
                 PROVE  HandleOf(l)' \in IdsOf(l) /\ psa[HandleOf(l)'] # None
    BY <1>2 DEF MarkedIsThere, IdsOf
  <2>2. l # k /\ mark[l] /\ ~Clearing(l)
    BY <1>3, <1>9, <2>1
  <2>3. HandleOf(l)' = HandleOf(l)
    BY <1>10, <2>2 DEF HandleOf
  <2>4. QED
    BY <2>2, <2>3 DEF ListInv, MarkedIsThere
<1>15. ListedIsMarked'
  <2>1. SUFFICES ASSUME NEW j \in Slots, NEW l, l = objects[j], l # None
                 PROVE  mark'[l] \/ Changing(l)'
    BY <1>2 DEF ListedIsMarked, Changing
  <2>2. Changing(k)'
    BY <1>6, <1>8 DEF Changing
  <2>3. l \in Kinds /\ (mark[l] \/ Changing(l))
    BY <1>4, <2>1 DEF ListInv, ListedIsMarked, Typed
  <2>4. QED
    BY <1>3, <1>9, <2>2, <2>3
<1>16. StoredIsKept'
  BY <1>2, <1>3, <1>4, <1>9 DEF ListInv, StoredIsKept, Typed
<1>17. QED
  BY <1>8, <1>11, <1>12, <1>13, <1>14, <1>15, <1>16 DEF ListInv

(* prvDeleteObjectFromList.  The object has no other entry.                *)
LEMMA UnlistStep ==
  ASSUME ListInv, NEW t \in Tasks, DeleteObjectFromList(t)
  PROVE  ListInv'
<1>1. PICK rv \in Results : call' = [call EXCEPT ![t] = Idle(rv)]
  BY DEF DeleteObjectFromList, Return, Results
<1>2. /\ call[t].op = "destroy" /\ call[t].at = "unlist"
      /\ objects' = [objects EXCEPT ![call[t].slot] = None]
      /\ UNCHANGED <<initialized, mark, keyHandle, psa, stored>>
  BY DEF DeleteObjectFromList, config
<1>3. PICK k, i : k = call[t].kind /\ i = call[t].slot
  OBVIOUS
<1>4. /\ k \in Kinds /\ i \in Slots /\ objects[i] = k
      /\ \A u \in Tasks \ {t} : call[u].op = "idle"
      /\ \A l : ~Clearing(l) /\ (Changing(l) => l = k)
  BY <1>2, <1>3, Destroying DEF SoundDestroy
<1>5. Idle(rv) \in Records /\ Idle(rv).op = "idle" /\ Idle(rv).at = rv
  BY IdleRecord
<1>6. Apart' /\ call'[t] = Idle(rv) /\ \A u \in Tasks : u # t => call'[u] = call[u]
  BY <1>1, <1>2, <1>5, StaysApart
<1>7. Typed
  BY DEF ListInv
<1>8. \A j \in Slots : objects'[j] = IF j = i THEN None ELSE objects[j]
  BY <1>2, <1>3, <1>7 DEF Typed
<1>9. Typed'
  BY <1>1, <1>2, <1>3, <1>5, <1>7 DEF Typed
<1>10. \A u \in Tasks : Sound(call[u])'
  <2>1. Sound(call[t])'
    BY <1>5, <1>6 DEF Sound
  <2>2. QED
    BY <1>4, <1>6, <2>1, OthersSound
<1>11. UniqueInList'
  BY <1>8 DEF ListInv, UniqueInList
<1>12. HandlesFit' /\ MarkedIsThere' /\ StoredIsKept'
  BY <1>2, <1>4 DEF ListInv, HandlesFit, MarkedIsThere, StoredIsKept, HandleOf
<1>13. ListedIsMarked'
  <2>1. SUFFICES ASSUME NEW j \in Slots, j # i, objects[j] # None PROVE mark[objects[j]]
    BY <1>2, <1>8 DEF ListedIsMarked
  <2>2. objects[j] # k
    BY <1>4, <2>1 DEF ListInv, UniqueInList
  <2>3. QED
    BY <1>4, <2>1, <2>2 DEF ListInv, ListedIsMarked
<1>14. QED
  BY <1>6, <1>9, <1>10, <1>11, <1>12, <1>13 DEF ListInv

-----------------------------------------------------------------------------
(* The module as a whole *)

(* No call is under way, nothing is listed and some marks are cleared.     *)
LEMMA IdleStep ==
  ASSUME Typed',
         \A t \in Tasks : call'[t].op = "idle" /\ call'[t].at \in Results,
         \A i \in Slots : objects'[i] = None,
         HandlesFit', StoredIsKept',
         \A k \in Kinds : mark'[k] => HandleOf(k)' \in IdsOf(k) /\ psa'[HandleOf(k)'] # None
  PROVE  ListInv'
<1>1. Apart'
  BY DEF Apart, Provisioning
<1>2. \A t \in Tasks : Sound(call[t])'
  BY DEF Sound
<1>3. UniqueInList' /\ ListedIsMarked'
  BY DEF UniqueInList, ListedIsMarked
<1>4. MarkedIsThere'
  BY DEF MarkedIsThere, IdsOf
<1>5. QED
  BY <1>1, <1>2, <1>3, <1>4 DEF ListInv

(* C_Initialize, C_Finalize and a reset.                                   *)
LEMMA ModuleSteps ==
  ASSUME ListInv, C_Initialize \/ C_Finalize \/ Reset
  PROVE  ListInv'
<1>1. Typed
  BY DEF ListInv
<1>2. \A i \in Slots : objects'[i] = None
  BY DEF C_Initialize, C_Finalize, Reset
<1>3. objects' \in [Slots -> Kinds \cup {None}]
  BY DEF C_Initialize, C_Finalize, Reset
<1>4. ASSUME C_Initialize \/ C_Finalize, NEW t \in Tasks
      PROVE  call'[t].op = "idle" /\ call'[t].at \in Results
  <2>1. call' = call /\ call[t].op = "idle"
    BY <1>4 DEF C_Initialize, C_Finalize, ListInv, Apart
  <2>2. QED
    BY <2>1 DEF ListInv, Sound
<1>5. ASSUME C_Initialize \/ C_Finalize
      PROVE  \A k : ~Clearing(k)
  <2>1. \A t \in Tasks : call[t].at \in Results
    BY <1>4, <1>5 DEF C_Initialize, C_Finalize
  <2>2. QED
    BY <2>1 DEF Clearing, Results
<1>6. CASE C_Initialize
  <2>1. UNCHANGED <<mark, keyHandle, psa, stored, call>>
    BY <1>6 DEF C_Initialize, config
  <2>2. Typed' /\ HandlesFit' /\ StoredIsKept'
    BY <1>1, <1>3, <2>1 DEF Typed, ListInv, HandlesFit, StoredIsKept
  <2>3. \A k \in Kinds : mark'[k] => HandleOf(k)' \in IdsOf(k) /\ psa'[HandleOf(k)'] # None
    BY <1>5, <1>6, <2>1 DEF ListInv, MarkedIsThere, HandleOf
  <2>4. QED
    BY <1>2, <1>4, <1>6, <2>2, <2>3, IdleStep
<1>7. CASE C_Finalize
  <2>1. PICK closed \in {{"priv", "pub"}, {"priv"}, {}} :
          /\ mark' = [k \in Kinds |-> mark[k] /\ k \notin closed]
          /\ keyHandle' = [k \in Keys |-> IF k \in closed THEN None ELSE keyHandle[k]]
          /\ psa' = psa
    BY <1>7 DEF C_Finalize, FinalizeKeys
  <2>2. call' = call /\ stored' = stored
    BY <1>7 DEF C_Finalize
  <2>3. "code" \notin closed
    BY <2>1
  <2>4. Typed'
    BY <1>1, <1>3, <2>1, <2>2 DEF Typed
  <2>5. HandlesFit'
    BY <2>1 DEF ListInv, HandlesFit
  <2>6. StoredIsKept'
    BY <1>1, <2>1, <2>2, <2>3, IdsDiffer DEF ListInv, StoredIsKept
  <2>7. \A k \in Kinds : mark'[k] => HandleOf(k)' \in IdsOf(k) /\ psa'[HandleOf(k)'] # None
    <3>1. SUFFICES ASSUME NEW k \in Kinds, mark'[k]
                   PROVE  HandleOf(k)' \in IdsOf(k) /\ psa[HandleOf(k)'] # None
      BY <2>1
    <3>2. mark[k] /\ k \notin closed
      BY <2>1, <3>1
    <3>3. HandleOf(k)' = HandleOf(k)
      BY <2>1, <3>2 DEF HandleOf
    <3>4. QED
      BY <1>5, <1>7, <3>2, <3>3 DEF ListInv, MarkedIsThere
  <2>8. QED
    BY <1>2, <1>4, <1>7, <2>4, <2>5, <2>6, <2>7, IdleStep
<1>8. CASE Reset
  <2>1. /\ mark' = [k \in Kinds |-> FALSE] /\ keyHandle' = [k \in Keys |-> None]
        /\ psa' = [id \in Ids |-> IF id \in Volatile THEN None ELSE psa[id]]
        /\ call' = [t \in Tasks |-> Idle("none")]
        /\ stored' = {k \in stored : psa[k] # None}
    BY <1>8 DEF Reset
  <2>2. "none" \in Results /\ Idle("none") \in Records /\ Idle("none").op = "idle"
        /\ Idle("none").at = "none"
    <3>1. "none" \in Results
      BY DEF Results
    <3>2. QED
      BY <3>1, IdleRecord
  <2>3. \A t \in Tasks : call'[t].op = "idle" /\ call'[t].at \in Results
    BY <2>1, <2>2
  <2>4. Typed'
    BY <1>1, <1>3, <2>1, <2>2 DEF Typed
  <2>5. HandlesFit'
    BY <2>1 DEF HandlesFit
  <2>6. StoredIsKept'
    <3>1. \A k \in Kinds : k \in Ids /\ k \notin Volatile
      BY Pkcs11Assumption DEF Ids
    <3>2. QED
      BY <1>1, <2>1, <3>1 DEF StoredIsKept, Typed
  <2>7. \A k \in Kinds : ~mark'[k]
    BY <2>1
  <2>8. QED
    BY <1>2, <2>3, <2>4, <2>5, <2>6, <2>7, IdleStep
<1>9. QED
  BY <1>6, <1>7, <1>8

LEMMA ListInit == Init => ListInv
<1>1. SUFFICES ASSUME Init PROVE ListInv
  OBVIOUS
<1>2. "none" \in Results /\ Idle("none") \in Records /\ Idle("none").op = "idle"
      /\ Idle("none").at = "none"
  <2>1. "none" \in Results
    BY DEF Results
  <2>2. QED
    BY <2>1, IdleRecord
<1>3. \A t \in Tasks : call[t] \in Records /\ call[t].op = "idle" /\ call[t].at = "none"
  BY <1>1, <1>2 DEF Init
<1>4. Typed
  <2>1. psa \in [Ids -> Algs \cup {"data", None}]
    BY <1>1, Pkcs11Assumption DEF Init
  <2>2. call \in [Tasks -> Records]
    BY <1>1, <1>2 DEF Init
  <2>3. QED
    BY <1>1, <2>1, <2>2 DEF Init, Typed
<1>5. Apart /\ \A t \in Tasks : Sound(call[t])
  BY <1>2, <1>3 DEF Apart, Provisioning, Sound
<1>6. UniqueInList /\ ListedIsMarked /\ HandlesFit /\ MarkedIsThere
  BY <1>1 DEF Init, UniqueInList, ListedIsMarked, HandlesFit, MarkedIsThere
<1>7. StoredIsKept
  <2>1. "EC" # None /\ "data" # None
    BY Pkcs11Assumption
  <2>2. QED
    BY <1>1, <2>1 DEF Init, StoredIsKept, Ids
<1>8. QED
  BY <1>4, <1>5, <1>6, <1>7 DEF ListInv

-----------------------------------------------------------------------------
(* The sessions *)

(* A key never becomes a certificate.                                      *)
LEMMA KeysStayKeys ==
  ASSUME ListInv, SessionInv, Next
  PROVE  \A id \in KeyIds : psa'[id] \in Algs \cup {None}
<1>1. Typed /\ KeyIds \subseteq Ids /\ KeyIds \cap Certs = {} /\ "EC" \in Algs
      /\ \A id \in KeyIds : psa[id] \in Algs \cup {None}
  BY Pkcs11Assumption DEF ListInv, SessionInv, KeyIds, Ids, Kinds
<1>2. CASE psa' = psa
  BY <1>1, <1>2
<1>3. ASSUME NEW id, NEW v, psa' = [psa EXCEPT ![id] = v],
             id \in KeyIds => v \in Algs \cup {None}
      PROVE  \A x \in KeyIds : psa'[x] \in Algs \cup {None}
  BY <1>1, <1>3 DEF Typed
<1>4. CASE Reset
  BY <1>1, <1>4 DEF Reset
<1>5. CASE C_Initialize \/ C_Finalize
  BY <1>2, <1>5 DEF C_Initialize, C_Finalize, FinalizeKeys
<1>6. ASSUME NEW t \in Tasks, Step(t) PROVE \A id \in KeyIds : psa'[id] \in Algs \cup {None}
  <2>1. CASE C_CreateObject(t)
    <3>1. SUFFICES ASSUME NEW tm \in Templates, NEW id \in Target(tm),
                          psa' = [psa EXCEPT ![id] = IF tm.kind \in Certs THEN "data" ELSE tm.alg]
                   PROVE  \A x \in KeyIds : psa'[x] \in Algs \cup {None}
      BY <1>2, <2>1 DEF C_CreateObject
    <3>2. id \in IdsOf(tm.kind) /\ tm.alg \in Algs
      BY TargetFits DEF Templates
    <3>3. tm.kind \in Certs => id \notin KeyIds
      BY <1>1, <3>2, IdsDiffer DEF IdsOf
    <3>4. QED
      BY <1>3, <3>1, <3>2, <3>3
  <2>2. CASE C_GenerateKeyPair(t) \/ GeneratePublic(t)
    BY <1>1, <1>2, <1>3, <2>2 DEF C_GenerateKeyPair, GeneratePublic
  <2>3. CASE DestroyRemove(t)
    BY <1>2, <1>3, <2>3 DEF DestroyRemove
  <2>4. CASE ~C_CreateObject(t) /\ ~C_GenerateKeyPair(t) /\ ~GeneratePublic(t) /\ ~DestroyRemove(t)
    <3>1. psa' = psa
      BY <1>6, <2>4 DEF Step, C_OpenSession, C_CloseSession, C_FindObjectsInit, C_FindObjects,
         FindOpen, C_FindObjectsFinal, ImportObject, AddObjectToList, GenerateExport,
         C_DestroyObject, DestroyClear, DeleteObjectFromList, C_GetAttributeValue,
         C_DigestInit, C_DigestUpdate, C_DigestFinal, C_SignInit, SignAttributes, C_Sign,
         C_VerifyInit, VerifyAttributes, C_Verify
    <3>2. QED
      BY <1>2, <3>1
  <2>5. QED
    BY <2>1, <2>2, <2>3, <2>4
<1>7. QED
  BY <1>4, <1>5, <1>6 DEF Next

(* The handle of a marked key is that of a key, when nothing is destroyed. *)
LEMMA HandleIsKey ==
  ASSUME ListInv, NEW k \in Keys, mark[k], \A u \in Tasks : ~Provisioning(u)
  PROVE  keyHandle[k] \in KeyIds
<1>1. ~Clearing(k)
  BY DEF ListInv, Sound, SoundFind, SoundDestroy, Clearing, Provisioning, Results
<1>2. HandleOf(k) \in IdsOf(k)
  BY <1>1, IdsDiffer DEF ListInv, MarkedIsThere
<1>3. QED
  BY <1>2 DEF HandleOf, IdsOf, KeyIds

(* Closed and open sessions.                                               *)
LEMMA NewSessions == Closed \in Sessions /\ Opened \in Sessions
BY DEF Closed, Opened, Sessions, NoOperation, KeyOperations

(* One session changes, or none.                                           *)
LEMMA SessionStep ==
  ASSUME ListInv, SessionInv, NEW t \in Tasks, NEW s \in Sessions, NEW c,
         session' = [session EXCEPT ![t] = s], call' = [call EXCEPT ![t] = c],
         initialized' = initialized, \A id \in KeyIds : psa'[id] \in Algs \cup {None},
         c.op \notin {"sign", "verify"}
           \/ (c.op = "sign" /\ s.sign.key \in KeyIds /\ c.ref \in Mechanisms)
           \/ (c.op = "verify" /\ s.verify.key \in KeyIds /\ c.ref \in Mechanisms)
  PROVE  SessionInv'
<1>1. /\ call'[t] = c /\ \A u \in Tasks : u # t => call'[u] = call[u]
      /\ session'[t] = s /\ \A u \in Tasks : u # t => session'[u] = session[u]
      /\ session' \in [Tasks -> Sessions]
  BY DEF ListInv, Typed, SessionInv
<1>2. QED
  BY <1>1 DEF SessionInv

(* The session of a task whose call is over.                               *)
LEMMA SessionEnds ==
  ASSUME ListInv, SessionInv, NEW t \in Tasks, NEW s \in Sessions, NEW rv,
         session' = [session EXCEPT ![t] = s], Return(t, rv),
         initialized' = initialized, \A id \in KeyIds : psa'[id] \in Algs \cup {None}
  PROVE  SessionInv'
<1>1. Idle(rv).op = "idle" /\ call' = [call EXCEPT ![t] = Idle(rv)]
  BY DEF Idle, Return
<1>2. QED
  BY <1>1, SessionStep

(* The session stays.                                                      *)
LEMMA SessionStays ==
  ASSUME ListInv, SessionInv, NEW t \in Tasks, NEW c, UNCHANGED session,
         call' = [call EXCEPT ![t] = c],
         initialized' = initialized, \A id \in KeyIds : psa'[id] \in Algs \cup {None},
         c.op \notin {"sign", "verify"}
  PROVE  SessionInv'
<1>1. session[t] \in Sessions /\ session' = [session EXCEPT ![t] = session[t]]
  BY DEF SessionInv
<1>2. QED
  BY <1>1, SessionStep

(* Updates of a session.                                                   *)
LEMMA SessionFields ==
  ASSUME NEW s \in Sessions
  PROVE  /\ \A k \in Kinds \cup {None} : [s EXCEPT !.find = k] \in Sessions
         /\ \A b \in BOOLEAN : [s EXCEPT !.hash = b] \in Sessions
         /\ \A o \in KeyOperations : [s EXCEPT !.sign = o] \in Sessions
                                  /\ [s EXCEPT !.sign = o].sign = o
         /\ \A o \in KeyOperations : [s EXCEPT !.verify = o] \in Sessions
                                  /\ [s EXCEPT !.verify = o].verify = o
BY DEF Sessions

LEMMA OperationFields ==
  ASSUME NEW o \in KeyOperations
  PROVE  /\ \A k \in KeyIds \cup {None} : [o EXCEPT !.key = k] \in KeyOperations
                                       /\ [o EXCEPT !.key = k].key = k
         /\ \A m \in Mechanisms \cup {None} : [o EXCEPT !.mech = m] \in KeyOperations
         /\ \A a \in Algs \cup {None} : [o EXCEPT !.alg = a] \in KeyOperations
                                    /\ [o EXCEPT !.alg = a].mech = o.mech
         /\ o.mech \in Mechanisms \cup {None}
BY DEF KeyOperations

(* The calls of C_FindObjectsInit, C_Digest... and of the session itself.  *)
LEMMA PlainSessions ==
  ASSUME ListInv, SessionInv, NEW t \in Tasks,
         \A id \in KeyIds : psa'[id] \in Algs \cup {None},
         \/ C_OpenSession(t) \/ C_CloseSession(t)
         \/ C_FindObjectsInit(t) \/ C_FindObjectsFinal(t) \/ C_GetAttributeValue(t)
         \/ C_DigestInit(t) \/ C_DigestUpdate(t) \/ C_DigestFinal(t) \/ C_Verify(t)
  PROVE  SessionInv'
<1>1. initialized' = initialized
  BY DEF C_OpenSession, C_CloseSession, C_FindObjectsInit, C_FindObjectsFinal,
         C_GetAttributeValue, C_DigestInit, C_DigestUpdate, C_DigestFinal, C_Verify
<1>2. session[t] \in Sessions
  BY DEF SessionInv
<1>3. ASSUME NEW s \in Sessions, NEW rv, session' = [session EXCEPT ![t] = s], Return(t, rv)
      PROVE  SessionInv'
  BY <1>1, <1>3, SessionEnds
<1>4. ASSUME NEW rv, UNCHANGED session, Return(t, rv) PROVE SessionInv'
  <2>1. session' = [session EXCEPT ![t] = session[t]]
    BY <1>4 DEF SessionInv
  <2>2. QED
    BY <1>2, <1>3, <1>4, <2>1
<1>5. CASE C_OpenSession(t) \/ C_CloseSession(t)
  BY <1>3, <1>4, <1>5, NewSessions DEF C_OpenSession, C_CloseSession
<1>6. CASE C_FindObjectsInit(t)
  <2>1. SUFFICES ASSUME NEW k \in Kinds, session' = [session EXCEPT ![t].find = k],
                        Return(t, "ok")
                 PROVE  SessionInv'
    BY <1>4, <1>6 DEF C_FindObjectsInit
  <2>2. [session[t] EXCEPT !.find = k] \in Sessions
    BY <1>2, SessionFields
  <2>3. session' = [session EXCEPT ![t] = [session[t] EXCEPT !.find = k]]
    BY <2>1 DEF SessionInv
  <2>4. QED
    BY <1>3, <2>1, <2>2, <2>3
<1>7. CASE C_FindObjectsFinal(t)
  <2>1. [session[t] EXCEPT !.find = None] \in Sessions
    BY <1>2, SessionFields
  <2>2. session' = [session EXCEPT ![t] = [session[t] EXCEPT !.find = None]]
    BY <1>7 DEF SessionInv, C_FindObjectsFinal
  <2>3. PICK rv : Return(t, rv)
    BY <1>7 DEF C_FindObjectsFinal
  <2>4. QED
    BY <1>3, <2>1, <2>2, <2>3
<1>8. CASE C_GetAttributeValue(t) \/ C_Verify(t)
  <2>1. session' = session /\ \E rv : Return(t, rv)
    BY <1>8 DEF C_GetAttributeValue, C_Verify
  <2>2. QED
    BY <1>4, <2>1
<1>9. CASE C_DigestInit(t) \/ C_DigestUpdate(t) \/ C_DigestFinal(t)
  <2>1. PICK rv : Return(t, rv)
    BY <1>9 DEF C_DigestInit, C_DigestUpdate, C_DigestFinal
  <2>2. SUFFICES ASSUME NEW b \in BOOLEAN, session' = [session EXCEPT ![t].hash = b]
                 PROVE  SessionInv'
    BY <1>4, <1>9, <2>1 DEF C_DigestInit, C_DigestUpdate, C_DigestFinal
  <2>3. [session[t] EXCEPT !.hash = b] \in Sessions
    BY <1>2, SessionFields
  <2>4. session' = [session EXCEPT ![t] = [session[t] EXCEPT !.hash = b]]
    BY <2>2 DEF SessionInv
  <2>5. QED
    BY <1>3, <2>1, <2>3, <2>4
<1>10. QED
  BY <1>5, <1>6, <1>7, <1>8, <1>9

(* The signatures.                                                         *)
LEMMA SignSessions ==
  ASSUME ListInv, SessionInv, Exclusive, NEW t \in Tasks,
         \A id \in KeyIds : psa'[id] \in Algs \cup {None},
         C_SignInit(t) \/ SignAttributes(t) \/ C_Sign(t)
  PROVE  SessionInv'
<1>1. initialized' = initialized
  BY DEF C_SignInit, SignAttributes, C_Sign
<1>2. /\ session[t] \in Sessions /\ session[t].sign \in KeyOperations
      /\ session \in [Tasks -> Sessions]
  BY DEF SessionInv, Sessions
<1>3. ASSUME NEW s \in Sessions, NEW rv, session' = [session EXCEPT ![t] = s], Return(t, rv)
      PROVE  SessionInv'
  BY <1>1, <1>3, SessionEnds
<1>4. ASSUME NEW rv, UNCHANGED session, Return(t, rv) PROVE SessionInv'
  <2>1. session' = [session EXCEPT ![t] = session[t]]
    BY <1>2, <1>4
  <2>2. QED
    BY <1>2, <1>3, <1>4, <2>1
<1>5. CASE C_SignInit(t)
  <2>1. ASSUME NEW k, session' = [session EXCEPT ![t].sign.key = k]
        PROVE  session' = [session EXCEPT ![t] = [session[t] EXCEPT !.sign = [session[t].sign EXCEPT !.key = k]]]
    BY <2>1
  <2>2. CASE session' = [session EXCEPT ![t].sign.key = None] /\ Return(t, "failed")
    <3>1. [session[t] EXCEPT !.sign = [session[t].sign EXCEPT !.key = None]] \in Sessions
      BY <1>2, SessionFields, OperationFields
    <3>2. QED
      BY <1>3, <2>1, <2>2, <3>1
  <2>3. ASSUME NEW m \in Mechanisms, mark["priv"],
               session' = [session EXCEPT ![t].sign.key = keyHandle["priv"]],
               Goto(t, Busy("sign", "attributes", None, m))
        PROVE  SessionInv'
    <3>1. PICK k : k = keyHandle["priv"]
      OBVIOUS
    <3>2. k \in KeyIds
      <4>1. \A u \in Tasks : ~Provisioning(u)
        BY <1>5, Begins DEF C_SignInit, Provisioning
      <4>2. QED
        BY <2>3, <3>1, <4>1, IdsDiffer, HandleIsKey
    <3>3. PICK s : s = [session[t] EXCEPT !.sign = [session[t].sign EXCEPT !.key = k]]
      OBVIOUS
    <3>4. s \in Sessions /\ s.sign.key = k
      <4>1. PICK o : o = [session[t].sign EXCEPT !.key = k]
        OBVIOUS
      <4>2. o \in KeyOperations /\ o.key = k
        BY <1>2, <3>2, <4>1, OperationFields
      <4>3. QED
        BY <1>2, <3>3, <4>1, <4>2, SessionFields
    <3>5. PICK c : c = Busy("sign", "attributes", None, m)
      OBVIOUS
    <3>6. c.op = "sign" /\ c.ref = m /\ call' = [call EXCEPT ![t] = c]
      BY <2>3, <3>5 DEF Busy, Goto
    <3>7. session' = [session EXCEPT ![t] = s]
      BY <2>1, <2>3, <3>1, <3>3
    <3>8. QED
      BY <1>1, <3>2, <3>4, <3>6, <3>7, SessionStep
  <2>4. QED
    BY <1>4, <1>5, <2>2, <2>3 DEF C_SignInit
<1>6. CASE SignAttributes(t)
  <2>1. PICK m, id, rv : m = call[t].ref /\ id = session[t].sign.key /\ Return(t, rv)
    BY <1>6 DEF SignAttributes
  <2>2. m \in Mechanisms /\ id \in KeyIds
    BY <1>6, <2>1 DEF SessionInv, SignAttributes
  <2>3. PICK a : a = psa[id]
    OBVIOUS
  <2>4. PICK n : n = IF Compatible(m, a) THEN m ELSE session[t].sign.mech
    OBVIOUS
  <2>5. a \in Algs \cup {None} /\ n \in Mechanisms \cup {None}
    BY <1>2, <2>2, <2>3, <2>4, OperationFields DEF SessionInv
  <2>6. \/ UNCHANGED session
        \/ session' = [session EXCEPT ![t].sign.alg = a, ![t].sign.mech = n]
    BY <1>2, <1>6, <2>1, <2>3, <2>4 DEF SignAttributes, Sessions, KeyOperations
  <2>7. CASE session' = [session EXCEPT ![t].sign.alg = a, ![t].sign.mech = n]
    <3>1. PICK o : o = [[session[t].sign EXCEPT !.alg = a] EXCEPT !.mech = n]
      OBVIOUS
    <3>2. o \in KeyOperations
      BY <1>2, <2>5, <3>1, OperationFields
    <3>3. [session[t] EXCEPT !.sign = o] \in Sessions
      BY <1>2, <3>2, SessionFields
    <3>4. session' = [session EXCEPT ![t] = [session[t] EXCEPT !.sign = o]]
      BY <1>2, <2>7, <3>1 DEF Sessions, KeyOperations
    <3>5. QED
      BY <1>3, <2>1, <3>3, <3>4
  <2>8. QED
    BY <1>4, <2>1, <2>6, <2>7
<1>7. CASE C_Sign(t)
  <2>1. PICK rv : Return(t, rv)
    BY <1>7 DEF C_Sign
  <2>2. CASE session' = [session EXCEPT ![t].sign.mech = None]
    <3>1. [session[t] EXCEPT !.sign = [session[t].sign EXCEPT !.mech = None]] \in Sessions
      BY <1>2, SessionFields, OperationFields
    <3>2. session' = [session EXCEPT ![t] =
                        [session[t] EXCEPT !.sign = [session[t].sign EXCEPT !.mech = None]]]
      BY <2>2
    <3>3. QED
      BY <1>3, <2>1, <3>1, <3>2
  <2>3. QED
    BY <1>4, <1>7, <2>1, <2>2 DEF C_Sign
<1>8. QED
  BY <1>5, <1>6, <1>7

(* Their verification.                                                     *)
LEMMA VerifySessions ==
  ASSUME ListInv, SessionInv, Exclusive, NEW t \in Tasks,
         \A id \in KeyIds : psa'[id] \in Algs \cup {None},
         C_VerifyInit(t) \/ VerifyAttributes(t)
  PROVE  SessionInv'
<1>1. initialized' = initialized
  BY DEF C_VerifyInit, VerifyAttributes
<1>2. /\ session[t] \in Sessions /\ session[t].sign \in KeyOperations /\ session[t].verify \in KeyOperations
      /\ session \in [Tasks -> Sessions]
  BY DEF SessionInv, Sessions
<1>3. ASSUME NEW s \in Sessions, NEW rv, session' = [session EXCEPT ![t] = s], Return(t, rv)
      PROVE  SessionInv'
  BY <1>1, <1>3, SessionEnds
<1>4. ASSUME NEW rv, UNCHANGED session, Return(t, rv) PROVE SessionInv'
  <2>1. session' = [session EXCEPT ![t] = session[t]]
    BY <1>2, <1>4
  <2>2. QED
    BY <1>2, <1>3, <1>4, <2>1
<1>5. CASE C_VerifyInit(t)
  <2>1. CASE session' = [session EXCEPT ![t].sign.key = None] /\ Return(t, "failed")
    <3>1. [session[t] EXCEPT !.sign = [session[t].sign EXCEPT !.key = None]] \in Sessions
      BY <1>2, SessionFields, OperationFields
    <3>2. session' = [session EXCEPT ![t] =
                        [session[t] EXCEPT !.sign = [session[t].sign EXCEPT !.key = None]]]
      BY <2>1
    <3>3. QED
      BY <1>3, <2>1, <3>1, <3>2
  <2>2. ASSUME NEW k, session' = [session EXCEPT ![t].verify.key = k]
        PROVE  session' = [session EXCEPT ![t] =
                             [session[t] EXCEPT !.verify = [session[t].verify EXCEPT !.key = k]]]
    BY <2>2
  <2>3. CASE session' = [session EXCEPT ![t].verify.key = None] /\ Return(t, "failed")
    <3>1. [session[t] EXCEPT !.verify = [session[t].verify EXCEPT !.key = None]] \in Sessions
      BY <1>2, SessionFields, OperationFields
    <3>2. QED
      BY <1>3, <2>2, <2>3, <3>1
  <2>4. ASSUME NEW l \in Keys, NEW m \in Mechanisms, mark[l],
               session' = [session EXCEPT ![t].verify.key = keyHandle[l]],
               Goto(t, Busy("verify", "attributes", None, m))
        PROVE  SessionInv'
    <3>1. PICK k : k = keyHandle[l]
      OBVIOUS
    <3>2. k \in KeyIds
      <4>1. \A u \in Tasks : ~Provisioning(u)
        BY <1>5, Begins DEF C_VerifyInit, Provisioning
      <4>2. QED
        BY <2>4, <3>1, <4>1, HandleIsKey
    <3>3. PICK s : s = [session[t] EXCEPT !.verify = [session[t].verify EXCEPT !.key = k]]
      OBVIOUS
    <3>4. s \in Sessions /\ s.verify.key = k
      <4>1. PICK o : o = [session[t].verify EXCEPT !.key = k]
        OBVIOUS
      <4>2. o \in KeyOperations /\ o.key = k
        BY <1>2, <3>2, <4>1, OperationFields
      <4>3. QED
        BY <1>2, <3>3, <4>1, <4>2, SessionFields
    <3>5. PICK c : c = Busy("verify", "attributes", None, m)
      OBVIOUS
    <3>6. c.op = "verify" /\ c.ref = m /\ call' = [call EXCEPT ![t] = c]
      BY <2>4, <3>5 DEF Busy, Goto
    <3>7. session' = [session EXCEPT ![t] = s]
      BY <2>2, <2>4, <3>1, <3>3
    <3>8. QED
      BY <1>1, <3>2, <3>4, <3>6, <3>7, SessionStep
  <2>5. QED
    BY <1>4, <1>5, <2>1, <2>3, <2>4 DEF C_VerifyInit
<1>6. CASE VerifyAttributes(t)
  <2>1. PICK m, id, rv : m = call[t].ref /\ id = session[t].verify.key /\ Return(t, rv)
    BY <1>6 DEF VerifyAttributes
  <2>2. m \in Mechanisms /\ id \in KeyIds
    BY <1>6, <2>1 DEF SessionInv, VerifyAttributes
  <2>3. PICK a : a = psa[id]
    OBVIOUS
  <2>4. PICK n : n = IF Compatible(m, session[t].sign.alg) THEN m ELSE session[t].verify.mech
    OBVIOUS
  <2>5. a \in Algs \cup {None} /\ n \in Mechanisms \cup {None}
    BY <1>2, <2>2, <2>3, <2>4, OperationFields DEF SessionInv
  <2>6. \/ UNCHANGED session
        \/ session' = [session EXCEPT ![t].verify.alg = a, ![t].verify.mech = n]
    BY <1>2, <1>6, <2>1, <2>3, <2>4 DEF VerifyAttributes, Sessions, KeyOperations
  <2>7. CASE session' = [session EXCEPT ![t].verify.alg = a, ![t].verify.mech = n]
    <3>1. PICK o : o = [[session[t].verify EXCEPT !.alg = a] EXCEPT !.mech = n]
      OBVIOUS
    <3>2. o \in KeyOperations
      BY <1>2, <2>5, <3>1, OperationFields
    <3>3. [session[t] EXCEPT !.verify = o] \in Sessions
      BY <1>2, <3>2, SessionFields
    <3>4. session' = [session EXCEPT ![t] = [session[t] EXCEPT !.verify = o]]
      BY <1>2, <2>7, <3>1 DEF Sessions, KeyOperations
    <3>5. QED
      BY <1>3, <2>1, <3>3, <3>4
  <2>8. QED
    BY <1>4, <2>1, <2>6, <2>7
<1>7. QED
  BY <1>5, <1>6

(* The calls that leave the sessions alone.                                *)
LEMMA OtherSessions ==
  ASSUME ListInv, SessionInv, NEW t \in Tasks,
         \A id \in KeyIds : psa'[id] \in Algs \cup {None},
         \/ C_FindObjects(t) \/ FindOpen(t) \/ ImportObject(t) \/ AddObjectToList(t)
         \/ C_CreateObject(t) \/ C_GenerateKeyPair(t) \/ GenerateExport(t) \/ GeneratePublic(t)
         \/ C_DestroyObject(t) \/ DestroyRemove(t) \/ DestroyClear(t) \/ DeleteObjectFromList(t)
  PROVE  SessionInv'
<1>1. initialized' = initialized /\ session' = session
  BY DEF C_FindObjects, FindOpen, ImportObject, AddObjectToList, C_CreateObject,
         C_GenerateKeyPair, GenerateExport, GeneratePublic, C_DestroyObject, DestroyRemove,
         DestroyClear, DeleteObjectFromList
<1>2. ASSUME NEW c, Goto(t, c), c.op \notin {"sign", "verify"} PROVE SessionInv'
  BY <1>1, <1>2, SessionStays DEF Goto
<1>3. ASSUME NEW rv, Return(t, rv) PROVE SessionInv'
  <2>1. session[t] \in Sessions /\ session' = [session EXCEPT ![t] = session[t]]
    BY <1>1 DEF SessionInv
  <2>2. QED
    BY <1>1, <1>3, <2>1, SessionEnds
<1>4. \A op, at, k, r, i : /\ Busy(op, at, k, r).op = op
                           /\ [Busy(op, at, k, r) EXCEPT !.slot = i].op = op
  BY DEF Busy
<1>5. ASSUME call[t].op \in {"find", "create", "generate", "destroy"}
      PROVE  \A a, k : /\ [call[t] EXCEPT !.at = a].op \notin {"sign", "verify"}
                       /\ [call[t] EXCEPT !.at = a, !.kind = k].op \notin {"sign", "verify"}
  <2>1. call[t] \in Records
    BY Standing
  <2>2. QED
    BY <1>5, <2>1 DEF Records
<1>6. CASE C_FindObjects(t)
  <2>1. \/ \E rv : Return(t, rv)
        \/ \E at, k : Goto(t, Busy("find", at, k, None))
    BY <1>6 DEF C_FindObjects
  <2>2. QED
    BY <1>2, <1>3, <1>4, <2>1
<1>7. CASE FindOpen(t)
  <2>1. \/ \E rv : Return(t, rv)
        \/ \E at, k : Goto(t, Busy("find", at, k, k))
    BY <1>7 DEF FindOpen
  <2>2. QED
    BY <1>2, <1>3, <1>4, <2>1
<1>8. CASE ImportObject(t)
  <2>1. call[t].op \in {"find", "create", "generate", "destroy"}
    BY <1>8, Standing DEF ImportObject
  <2>2. QED
    BY <1>2, <1>3, <1>5, <1>8, <2>1 DEF ImportObject
<1>9. CASE AddObjectToList(t)
  <2>1. call[t].op \in {"find", "create", "generate", "destroy"}
    BY <1>9, Standing DEF AddObjectToList
  <2>2. \/ \E rv : Return(t, rv)
        \/ Goto(t, [call[t] EXCEPT !.at = "import"])
        \/ Goto(t, Busy("generate", "import", "pub", "pub"))
    BY <1>9 DEF AddObjectToList
  <2>3. CASE Goto(t, [call[t] EXCEPT !.at = "import"])
    BY <1>2, <1>5, <2>1, <2>3
  <2>4. CASE Goto(t, Busy("generate", "import", "pub", "pub"))
    BY <1>2, <1>4, <2>4
  <2>5. QED
    BY <1>3, <2>2, <2>3, <2>4
<1>10. CASE C_CreateObject(t) \/ C_GenerateKeyPair(t)
  <2>1. \/ Return(t, "failed")
        \/ \E op \in {"create", "generate"} : \E at, k, r : Goto(t, Busy(op, at, k, r))
    BY <1>10 DEF C_CreateObject, C_GenerateKeyPair
  <2>2. QED
    BY <1>2, <1>3, <1>4, <2>1
<1>11. CASE GenerateExport(t) \/ GeneratePublic(t)
  BY <1>2, <1>3, <1>5, <1>11 DEF GenerateExport, GeneratePublic
<1>12. CASE C_DestroyObject(t)
  <2>1. \/ Return(t, "ok")
        \/ \E k, i : Goto(t, [Busy("destroy", "remove", k, None) EXCEPT !.slot = i])
    BY <1>12 DEF C_DestroyObject
  <2>2. ASSUME NEW k, NEW i, Goto(t, [Busy("destroy", "remove", k, None) EXCEPT !.slot = i])
        PROVE  SessionInv'
    <3>1. PICK c : c = [Busy("destroy", "remove", k, None) EXCEPT !.slot = i]
      OBVIOUS
    <3>2. c.op = "destroy" /\ Goto(t, c)
      BY <2>2, <3>1 DEF Busy
    <3>3. QED
      BY <1>2, <3>2
  <2>3. QED
    BY <1>3, <2>1, <2>2
<1>13. CASE DestroyRemove(t)
  <2>1. \/ Return(t, "failed")
        \/ \E a, k : Goto(t, [call[t] EXCEPT !.at = a, !.kind = k])
    BY <1>13 DEF DestroyRemove
  <2>2. call[t].op = "destroy"
    BY <1>13 DEF DestroyRemove
  <2>3. QED
    BY <1>2, <1>3, <1>5, <2>1, <2>2
<1>14. CASE DestroyClear(t) \/ DeleteObjectFromList(t)
  BY <1>2, <1>3, <1>5, <1>14 DEF DestroyClear, DeleteObjectFromList
<1>15. QED
  BY <1>6, <1>7, <1>8, <1>9, <1>10, <1>11, <1>12, <1>13, <1>14

-----------------------------------------------------------------------------
(* The invariant *)

LEMMA P11Init == Init => P11Inv
<1>1. SUFFICES ASSUME Init PROVE SessionInv
  BY ListInit DEF P11Inv
<1>2. session \in [Tasks -> Sessions]
  BY <1>1, NewSessions DEF Init
<1>3. \A id \in KeyIds : psa[id] \in Algs \cup {None}
  BY <1>1, Pkcs11Assumption DEF Init, KeyIds, Ids, Kinds
<1>4. \A t \in Tasks : call[t].op = "idle"
  BY <1>1 DEF Init, Idle
<1>5. QED
  BY <1>1, <1>2, <1>3, <1>4 DEF SessionInv, Init

LEMMA P11Step == ASSUME Exclusive PROVE P11Inv /\ [Next]_vars => P11Inv'
<1>1. SUFFICES ASSUME ListInv, SessionInv, [Next]_vars PROVE ListInv' /\ SessionInv'
  BY DEF P11Inv
<1>2. CASE UNCHANGED vars
  <2>1. UNCHANGED <<initialized, objects, mark, keyHandle, psa, session, call, stored>>
    BY <1>2 DEF vars, config
  <2>2. SessionInv'
    BY <1>1, <2>1 DEF SessionInv
  <2>3. \A k : (Changing(k)' <=> Changing(k)) /\ (Clearing(k)' <=> Clearing(k))
    BY <2>1 DEF Changing, Clearing
  <2>4. Typed' /\ Apart' /\ UniqueInList' /\ HandlesFit' /\ StoredIsKept'
    BY <1>1, <2>1 DEF ListInv, Typed, Apart, Provisioning, UniqueInList, HandlesFit, StoredIsKept
  <2>5. MarkedIsThere' /\ ListedIsMarked'
    BY <1>1, <2>1, <2>3 DEF ListInv, MarkedIsThere, ListedIsMarked, HandleOf
  <2>6. \A t \in Tasks : Sound(call[t])'
    BY <1>1, <2>1 DEF ListInv, Sound, SoundFind, SoundCreate, SoundGenerate, SoundDestroy,
                      Backed, Marked
  <2>7. QED
    BY <2>2, <2>4, <2>5, <2>6 DEF ListInv
<1>3. CASE Next
  <2>1. \A id \in KeyIds : psa'[id] \in Algs \cup {None}
    BY <1>1, <1>3, KeysStayKeys
  <2>2. CASE C_Initialize \/ C_Finalize \/ Reset
    <3>1. ListInv'
      BY <1>1, <2>2, ModuleSteps
    <3>2. CASE C_Initialize \/ C_Finalize
      BY <1>1, <2>1, <3>1, <3>2 DEF C_Initialize, C_Finalize, SessionInv
    <3>3. CASE Reset
      <4>1. initialized' = FALSE /\ session' \in [Tasks -> Sessions]
        BY <3>3, NewSessions DEF Reset
      <4>2. \A t \in Tasks : call'[t].op = "idle"
        BY <3>3 DEF Reset, Idle
      <4>3. QED
        BY <2>1, <3>1, <4>1, <4>2 DEF SessionInv
    <3>4. QED
      BY <2>2, <3>1, <3>2, <3>3
  <2>3. ASSUME NEW t \in Tasks, Step(t) PROVE ListInv' /\ SessionInv'
    <3>1. CASE C_OpenSession(t) \/ C_CloseSession(t)
               \/ C_FindObjectsInit(t) \/ C_FindObjectsFinal(t) \/ C_GetAttributeValue(t)
               \/ C_DigestInit(t) \/ C_DigestUpdate(t) \/ C_DigestFinal(t) \/ C_Verify(t)
      <4>1. ListInv'
        BY <1>1, <3>1, SessionSteps
      <4>2. SessionInv'
        BY <1>1, <2>1, <3>1, PlainSessions
      <4>3. QED
        BY <4>1, <4>2
    <3>2. CASE C_SignInit(t) \/ SignAttributes(t) \/ C_Sign(t)
      BY <1>1, <2>1, <3>2, SessionSteps, SignSessions
    <3>3. CASE C_VerifyInit(t) \/ VerifyAttributes(t)
      BY <1>1, <2>1, <3>3, SessionSteps, VerifySessions
    <3>4. CASE C_FindObjects(t) \/ FindOpen(t)
      BY <1>1, <2>1, <3>4, FindSteps, OtherSessions
    <3>5. CASE ImportObject(t) \/ AddObjectToList(t)
      BY <1>1, <2>1, <3>5, ImportStep, AddStep, OtherSessions
    <3>6. CASE C_CreateObject(t) \/ C_GenerateKeyPair(t) \/ GenerateExport(t) \/ GeneratePublic(t)
      BY <1>1, <2>1, <3>6, MakeSteps, OtherSessions
    <3>7. CASE C_DestroyObject(t) \/ DestroyRemove(t)
      BY <1>1, <2>1, <3>7, DestroyStep, RemoveStep, OtherSessions
    <3>8. CASE DestroyClear(t) \/ DeleteObjectFromList(t)
      BY <1>1, <2>1, <3>8, ClearStep, UnlistStep, OtherSessions
    <3>9. QED
      BY <2>3, <3>1, <3>2, <3>3, <3>4, <3>5, <3>6, <3>7, <3>8 DEF Step
  <2>4. QED
    BY <1>3, <2>2, <2>3 DEF Next
<1>4. QED
  BY <1>1, <1>2, <1>3

(* The list, the marks, the objects and the calls under way agree in every *)
(* reachable state, when nobody calls while objects are made or destroyed. *)
THEOREM P11Invariant == ASSUME Exclusive PROVE Spec => []P11Inv
<1>1. Init => P11Inv
  BY P11Init
<1>2. P11Inv /\ [Next]_vars => P11Inv'
  BY P11Step
<1>3. QED
  BY <1>1, <1>2, PTL DEF Spec

(* The variables of the module have the types they are declared with.      *)
THEOREM P11TypeCorrect == ASSUME Exclusive PROVE Spec => []TypeOK
<1>1. P11Inv => TypeOK
  <2>1. SUFFICES ASSUME ListInv, SessionInv PROVE TypeOK
    BY DEF P11Inv
  <2>2. call \in [Tasks ->
          [op : {"idle", "find", "create", "destroy", "generate", "sign", "verify"},
           at : {"none", "ok", "notfound", "failed", "inconsistent", "open", "import", "list",
                 "remove", "clear", "unlist", "export", "public", "attributes"},
           kind : Kinds \cup {None},
           ref : Ids \cup Mechanisms \cup {None},
           slot : Slots \cup {0}]]
    <3>1. Results \cup {"open", "import", "list", "remove", "clear", "unlist",
                        "export", "public", "attributes"}
          = {"none", "ok", "notfound", "failed", "inconsistent", "open", "import", "list",
             "remove", "clear", "unlist", "export", "public", "attributes"}
      BY DEF Results
    <3>2. QED
      BY <2>1, <3>1 DEF ListInv, Typed, Records
  <2>3. KeyOperations \subseteq Operations
    BY DEF KeyOperations, Operations, KeyIds, Ids, Kinds
  <2>4. session \in [Tasks -> [open : BOOLEAN, find : Kinds \cup {None}, hash : BOOLEAN,
                               sign : Operations, verify : Operations]]
    <3>1. Sessions \subseteq [open : BOOLEAN, find : Kinds \cup {None}, hash : BOOLEAN,
                              sign : Operations, verify : Operations]
      BY <2>3 DEF Sessions
    <3>2. QED
      BY <2>1, <3>1 DEF SessionInv
  <2>5. QED
    BY <2>1, <2>2, <2>4 DEF TypeOK, ListInv, Typed, SessionInv
<1>2. QED
  BY <1>1, P11Invariant, PTL

(* The list never lacks room: were it full without the object, two entries *)
(* would hold the same one of the other kinds.                             *)
LEMMA RoomForAll ==
  ASSUME Typed, UniqueInList, MaxObjects >= Cardinality(Kinds), NEW k \in Kinds
  PROVE  PlaceOf(k) # None
<1>1. SUFFICES ASSUME Holds(k) = {}, Holds(None) = {} PROVE FALSE
  <2>1. None \notin Slots
    BY Pkcs11Assumption
  <2>2. QED
    BY <1>1, <2>1, PlaceFound
<1>2. objects \in [Slots -> Kinds \ {k}]
  BY <1>1 DEF Typed, Holds
<1>3. IsFiniteSet(Kinds)
  <2>1. IsFiniteSet({}) /\ IsFiniteSet({} \cup {"priv"})
    BY FS_EmptySet, FS_AddElement
  <2>2. IsFiniteSet(({} \cup {"priv"}) \cup {"pub"})
    BY <2>1, FS_AddElement
  <2>3. IsFiniteSet((({} \cup {"priv"}) \cup {"pub"}) \cup {"code"})
    BY <2>2, FS_AddElement
  <2>4. Keys = (({} \cup {"priv"}) \cup {"pub"}) \cup {"code"}
    BY DEF Keys
  <2>5. IsFiniteSet(Keys \cup Certs)
    BY <2>3, <2>4, Pkcs11Assumption, FS_Union
  <2>6. QED
    BY <2>5 DEF Kinds
<1>4. /\ IsFiniteSet(Kinds \ {k}) /\ Cardinality(Kinds \ {k}) = Cardinality(Kinds) - 1
      /\ Cardinality(Kinds) \in Nat /\ Cardinality(Kinds \ {k}) \in Nat
  BY <1>3, FS_RemoveElement, FS_CardinalityType
<1>5. MaxObjects \in Nat /\ IsFiniteSet(Slots) /\ Cardinality(Slots) = MaxObjects
  <2>1. MaxObjects \in Nat
    BY Pkcs11Assumption
  <2>2. IsFiniteSet(1..MaxObjects)
        /\ Cardinality(1..MaxObjects) = IF 1 > MaxObjects THEN 0 ELSE MaxObjects - 1 + 1
    BY <2>1, FS_Interval
  <2>3. QED
    BY <2>1, <2>2 DEF Slots
<1>6. Cardinality(Kinds \ {k}) < Cardinality(Slots)
  BY <1>4, <1>5
<1>7. \E i, j \in Slots : i # j /\ objects[i] = objects[j]
  BY <1>2, <1>4, <1>5, <1>6, FS_PigeonHole
<1>8. \A i \in Slots : objects[i] # None
  BY <1>1 DEF Holds
<1>9. QED
  BY <1>7, <1>8 DEF UniqueInList

(* The searches of two tasks, failing creation and destruction and resets  *)
(* leave no object with two handles, and no handle of an object that is    *)
(* gone (prvAddObjectToList, prvDeleteObjectFromList), when nobody calls   *)
(* while objects are made or destroyed.                                    *)
THEOREM P11ListExact == ASSUME Exclusive PROVE Spec => []ListIsExact
<1>1. P11Inv => ListIsExact
  <2>1. SUFFICES ASSUME ListInv PROVE ListIsExact
    BY DEF P11Inv
  <2>2. ListIsUnique
    <3>1. Typed /\ UniqueInList
      BY <2>1 DEF ListInv
    <3>2. QED
      BY <3>1, RoomForAll DEF ListIsUnique, UniqueInList
  <2>3. ListedIsPresent
    <3>1. SUFFICES ASSUME NEW i \in Slots, NEW k, k = objects[i], k # None, ~Changing(k)
                   PROVE  Readable(k)
      BY DEF ListedIsPresent
    <3>2. k \in Kinds /\ mark[k]
      BY <2>1, <3>1 DEF ListInv, Typed, ListedIsMarked
    <3>3. ~Clearing(k)
      BY <3>1 DEF Clearing, Changing
    <3>4. psa[HandleOf(k)] # None
      BY <2>1, <3>2, <3>3 DEF ListInv, MarkedIsThere
    <3>5. QED
      BY <3>2, <3>4, IdsDiffer DEF Readable, PSAGetCertificateValue, HandleOf
  <2>4. QED
    BY <2>2, <2>3 DEF ListIsExact
<1>2. QED
  BY <1>1, P11Invariant, PTL

(* A step of a task changes no other call.                                 *)
LEMMA OwnCall ==
  ASSUME NEW t \in Tasks, Step(t), call \in [Tasks -> Records]
  PROVE  \A u \in Tasks : u # t => call'[u] = call[u]
<1>1. \E c : call' = [call EXCEPT ![t] = c]
  BY DEF Step, C_OpenSession, C_CloseSession, C_FindObjectsInit, C_FindObjects,
         FindOpen, C_FindObjectsFinal, ImportObject, AddObjectToList, C_CreateObject,
         C_GenerateKeyPair, GenerateExport, GeneratePublic,
         C_DestroyObject, DestroyRemove, DestroyClear, DeleteObjectFromList,
         C_GetAttributeValue, C_DigestInit, C_DigestUpdate, C_DigestFinal, C_SignInit,
         SignAttributes, C_Sign, C_VerifyInit, VerifyAttributes, C_Verify, Return, Goto
<1>2. QED
  BY <1>1

(* C_FindObjects says that there is no such object only of one that is not *)
(* stored, whatever was listed, closed or reset since it was: what         *)
(* C_CreateObject and C_GenerateKeyPair stored is found until it is        *)
(* destroyed.                                                              *)
THEOREM P11StoredFound == ASSUME Exclusive PROVE Spec => StoredIsFound
<1> DEFINE Lost(t) == /\ call[t].op = "find" /\ call'[t].op = "idle" /\ call'[t].at = "notfound"
                      /\ call[t].kind \in stored
<1>1. P11Inv /\ [Next]_vars => \A t \in Tasks : ~Lost(t)
  <2>1. SUFFICES ASSUME ListInv, [Next]_vars, NEW t \in Tasks, Lost(t) PROVE FALSE
    BY DEF P11Inv
  <2>2. call[t].op = "find" /\ call'[t].op = "idle" /\ call'[t].at = "notfound"
        /\ call[t].kind \in stored
    BY <2>1
  <2> HIDE DEF Lost
  <2>3. CASE UNCHANGED vars
    BY <2>2, <2>3 DEF vars
  <2>4. CASE C_Initialize \/ C_Finalize
    BY <2>2, <2>4 DEF C_Initialize, C_Finalize
  <2>5. CASE Reset
    BY <2>2, <2>5 DEF Reset, Idle
  <2>6. ASSUME NEW u \in Tasks, u # t, Step(u) PROVE FALSE
    BY <2>1, <2>2, <2>6, OwnCall DEF ListInv, Typed
  <2>7. CASE Step(t)
    <3>1. ASSUME NEW c, call' = [call EXCEPT ![t] = c] PROVE call'[t] = c
      BY <2>1, <3>1 DEF ListInv, Typed
    <3>2. \A rv : Idle(rv).at = rv
      BY DEF Idle
    <3>3. FindOpen(t) \/ ImportObject(t) \/ AddObjectToList(t)
      BY <2>2, <2>7 DEF Step, C_OpenSession, C_CloseSession, C_FindObjectsInit, C_FindObjects,
         C_FindObjectsFinal, C_CreateObject, C_GenerateKeyPair, GenerateExport, GeneratePublic,
         C_DestroyObject, DestroyRemove, DestroyClear, DeleteObjectFromList,
         C_GetAttributeValue, C_DigestInit, C_DigestUpdate, C_DigestFinal, C_SignInit,
         SignAttributes, C_Sign, C_VerifyInit, VerifyAttributes, C_Verify, Calls
    <3>4. ASSUME NEW rv, Return(t, rv) PROVE rv = "notfound"
      BY <2>2, <3>1, <3>2, <3>4 DEF Return
    <3>5. call[t] \in Records
      BY <2>1, Standing
    <3>6. ASSUME NEW c, Goto(t, c) PROVE c.op = "idle"
      BY <2>2, <3>1, <3>6 DEF Goto
    <3>7. CASE FindOpen(t)
      <4>1. psa[call[t].kind] # None
        BY <2>1, <2>2, <3>7 DEF FindOpen, ListInv, Sound, SoundFind
      <4>2. \A at, k : Busy("find", at, k, k).op = "find"
        BY DEF Busy
      <4>3. QED
        BY <3>4, <3>6, <3>7, <4>1, <4>2 DEF FindOpen
    <3>8. CASE ImportObject(t)
      <4>1. [call[t] EXCEPT !.at = "list"].op = "find"
        BY <2>2, <3>5 DEF Records
      <4>2. QED
        BY <3>4, <3>6, <3>8, <4>1 DEF ImportObject
    <3>9. CASE AddObjectToList(t)
      <4>1. [call[t] EXCEPT !.at = "import"].op = "find"
        BY <2>2, <3>5 DEF Records
      <4>2. Return(t, "failed") \/ Return(t, "ok") \/ Goto(t, [call[t] EXCEPT !.at = "import"])
        BY <2>2, <3>9 DEF AddObjectToList
      <4>3. QED
        BY <3>4, <3>6, <4>1, <4>2
    <3>10. QED
      BY <3>3, <3>7, <3>8, <3>9
  <2>8. QED
    BY <2>1, <2>3, <2>4, <2>5, <2>6, <2>7 DEF Next
<1>2. P11Inv /\ [Next]_vars =>
        [\A t \in Tasks :
           call[t].op = "find" /\ call'[t].op = "idle" /\ call'[t].at = "notfound"
             => call[t].kind \notin stored]_vars
  BY <1>1
<1>3. QED
  BY <1>2, P11Invariant, PTL DEF Spec, StoredIsFound

=============================================================================
