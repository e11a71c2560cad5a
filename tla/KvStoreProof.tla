---------------------------- MODULE KvStoreProof ----------------------------
(***************************************************************************)
(* Proofs about the key-value store, for any number of keys and any values *)
(* and lengths: its invariants, and that it implements KvContract.         *)
(***************************************************************************)
EXTENDS KvStore, TLAPS

(* While a commit walks over the keys without a failure, the keys behind   *)
(* it are stored; the message is only printed at its end.                  *)
CommitProgress ==
  mode = "cli" =>
    /\ commitAt > 0 => message = "none"
    /\ commitAt > 0 /\ xSuccess => \A k \in 1..(commitAt - 1) : val[k] \in {None, nv[k]}

(* The inductive invariant.                                                *)
KvInv == TypeOK /\ BufferFits /\ UnmarkedIsStored /\ CommitProgress /\ SavedIsDurable
           /\ DemoIsProvisioned

(* What start-up finds in the cache.                                       *)
LEMMA Loaded ==
  ASSUME TypeOK, KVStore_init
  PROVE  /\ val' = [k \in Keys |-> val'[k]]
         /\ \A k \in Keys : val'[k] \in {None, nv[k]}
         /\ val' \in [Keys -> Values \cup {None}]
         /\ buf' = [k \in Keys |-> IF val'[k] = None THEN 0 ELSE HeapSize(Bytes[val'[k]])]
         /\ pending' = [k \in Keys |-> FALSE]
         /\ lost' \in BOOLEAN
<1>1. PICK unread \in SUBSET Keys :
        /\ val' = [k \in Keys |-> IF k \in unread THEN None ELSE nv[k]]
        /\ buf' = [k \in Keys |-> IF val'[k] = None THEN 0 ELSE HeapSize(Bytes[val'[k]])]
        /\ pending' = [k \in Keys |-> FALSE]
        /\ lost' \in IF \E k \in unread : nv[k] # None /\ HeapSize(Bytes[nv[k]]) > 0
                    THEN BOOLEAN ELSE {FALSE}
  BY DEF KVStore_init, xprvReadValueFromImpl
<1>2. lost' \in BOOLEAN
  BY <1>1
<1>3. val' \in [Keys -> Values \cup {None}]
  BY <1>1 DEF TypeOK
<1>4. QED
  BY <1>1, <1>2, <1>3

LEMMA KvTypes == TypeOK /\ [Next]_vars => TypeOK'
<1> SUFFICES ASSUME TypeOK, [Next]_vars PROVE TypeOK'
  OBVIOUS
<1> USE KvAssumption DEF TypeOK
<1>1. CASE app_main
  <2>1. StartMode \subseteq {"demo", "cli"}
    BY DEF StartMode
  <2>2. buf' \in [Keys -> Nat]
    BY <1>1, Loaded DEF app_main, HeapSize
  <2>3. val' \in [Keys -> Values \cup {None}] /\ pending' \in [Keys -> BOOLEAN]
          /\ lost' \in BOOLEAN
    BY <1>1, Loaded DEF app_main
  <2>4. commitAt' \in 0..NumKeys
    BY <1>1 DEF app_main
  <2>5. QED
    BY <1>1, <2>1, <2>2, <2>3, <2>4 DEF app_main
<1>2. ASSUME NEW k \in Keys, NEW v \in Values, vSubCommand_SetConfig(k, v)
      PROVE  TypeOK'
  <2>1. pending' \in [Keys -> BOOLEAN] /\ val' \in [Keys -> Values \cup {None}]
    BY <1>2 DEF vSubCommand_SetConfig, KVStore_set, xprvWriteCacheEntry, Changes
  <2>2. HeapSize(Bytes[v]) \in Nat
    BY DEF HeapSize
  <2>3. buf' \in [Keys -> Nat] /\ lost' \in BOOLEAN
    <3>1. \/ buf' = [buf EXCEPT ![k] = HeapSize(Bytes[v])] /\ lost' = lost
          \/ buf' = [buf EXCEPT ![k] = 0] /\ lost' = TRUE
          \/ buf' = buf /\ lost' = lost
      BY <1>2 DEF vSubCommand_SetConfig, KVStore_set, xprvWriteCacheEntry, Realloc
    <3>2. CASE buf' = [buf EXCEPT ![k] = HeapSize(Bytes[v])] /\ lost' = lost
      BY <2>2, <3>2
    <3>3. CASE buf' = [buf EXCEPT ![k] = 0] /\ lost' = TRUE
      BY <3>3
    <3>4. QED
      BY <3>1, <3>2, <3>3
  <2>4. QED
    BY <1>2, <2>1, <2>3 DEF vSubCommand_SetConfig, KVStore_set
<1>3. CASE AssertionFails
  BY <1>3 DEF AssertionFails, cacheVars, commitVars
<1>4. CASE vSubCommand_CommitConfig
  BY <1>4 DEF vSubCommand_CommitConfig, cacheVars
<1>5. CASE CommitKey
  <2>1. nv' \in [Keys -> Values \cup {None}] /\ xSuccess' \in BOOLEAN
    BY <1>5 DEF CommitKey, xprvWriteValueToImpl, CommitResult, Keys
  <2>2. commitAt' \in 0..NumKeys /\ message' \in {"none", "saved", "error"}
    BY <1>5 DEF CommitKey, LastKey
  <2>3. QED
    BY <1>5, <2>1, <2>2 DEF CommitKey, cacheVars
<1>6. CASE ProvisionKeys
  BY <1>6 DEF ProvisionKeys, cacheVars, commitVars
<1>7. CASE Reset
  BY <1>7 DEF Reset, cacheVars, commitVars
<1>8. CASE UNCHANGED vars
  BY <1>8 DEF vars, cacheVars, commitVars
<1>9. QED
  BY <1>1, <1>2, <1>3, <1>4, <1>5, <1>6, <1>7, <1>8 DEF Next

(* What setting a value does to the entry.                                 *)
LEMMA SetEntry ==
  ASSUME TypeOK, BufferFits, NEW k \in Keys, NEW v \in Values,
         vSubCommand_SetConfig(k, v)
  PROVE  /\ val' = [val EXCEPT ![k] = v]
         /\ pending' = [pending EXCEPT ![k] = pending[k] \/ val[k] # v]
         /\ buf' = [buf EXCEPT ![k] = buf'[k]]
         /\ Bytes[v] > WordSize => buf'[k] >= Bytes[v]
<1> USE KvAssumption DEF TypeOK
<1>1. /\ pending' = [pending EXCEPT ![k] = pending[k] \/ val[k] # v]
      /\ val' = IF pending'[k] THEN [val EXCEPT ![k] = v] ELSE val
  BY DEF vSubCommand_SetConfig, KVStore_set, xprvWriteCacheEntry, Changes
<1>2. val' = [val EXCEPT ![k] = v]
  BY <1>1
<1>3. buf' = [buf EXCEPT ![k] = buf'[k]]
  BY DEF vSubCommand_SetConfig, KVStore_set, xprvWriteCacheEntry, Realloc
<1>4. Bytes[v] > WordSize => buf'[k] >= Bytes[v]
  BY DEF vSubCommand_SetConfig, KVStore_set, xprvWriteCacheEntry, Realloc, BufferFits, Cli, Length,
         HeapSize
<1>5. QED
  BY <1>1, <1>2, <1>3, <1>4

LEMMA KvStep == KvInv /\ [Next]_vars => KvInv'
<1> SUFFICES ASSUME KvInv, [Next]_vars PROVE KvInv'
  OBVIOUS
<1>0. TypeOK'
  BY KvTypes DEF KvInv
<1> USE KvAssumption DEF KvInv
<1>1. CASE app_main
  <2> USE <1>1 DEF app_main
  <2>0. /\ \A k \in Keys : val'[k] \in {None, nv[k]}
        /\ buf' = [k \in Keys |-> IF val'[k] = None THEN 0 ELSE HeapSize(Bytes[val'[k]])]
    BY Loaded
  <2>1. mode' \in {"demo", "cli"} /\ nv' = nv /\ pki' = pki /\ commitAt' = 0
          /\ message' = "none"
    BY DEF StartMode
  <2>2. BufferFits'
    BY <2>0, <1>0 DEF BufferFits, Length, HeapSize, TypeOK
  <2>3. UnmarkedIsStored' /\ CommitProgress' /\ SavedIsDurable'
    BY <2>0, <2>1, <1>0 DEF UnmarkedIsStored, CommitProgress, SavedIsDurable, TypeOK
  <2>4. DemoIsProvisioned'
    <3>1. SUFFICES ASSUME mode' = "demo"
                   PROVE  pki' /\ \A k \in Required : Durable(k)' \notin Blank
      BY DEF DemoIsProvisioned
    <3>2. pki' /\ \A k \in Required : View(k)' \notin Blank
      BY <3>1 DEF StartMode, Provisioned, KVStore_getString
    <3>3. \A k \in Required : Durable(k)' \notin Blank
      BY <3>2, <2>0, <2>1 DEF View, Durable
    <3>4. QED
      BY <3>2, <3>3
  <2>5. QED
    BY <1>0, <2>2, <2>3, <2>4
<1>2. ASSUME NEW k \in Keys, NEW v \in Values, vSubCommand_SetConfig(k, v)
      PROVE  KvInv'
  <2>1. /\ mode = "cli" /\ mode' = "cli" /\ commitAt = 0 /\ commitAt' = 0
        /\ message' = "none" /\ nv' = nv
    BY <1>2 DEF vSubCommand_SetConfig, KVStore_set, Cli
  <2>2. /\ val' = [val EXCEPT ![k] = v]
        /\ pending' = [pending EXCEPT ![k] = pending[k] \/ val[k] # v]
        /\ buf' = [buf EXCEPT ![k] = buf'[k]]
        /\ Bytes[v] > WordSize => buf'[k] >= Bytes[v]
    BY <1>2, SetEntry
  <2>3. BufferFits'
    BY <2>1, <2>2, <1>0 DEF BufferFits, Length, TypeOK
  <2>4. UnmarkedIsStored'
    BY <2>1, <2>2 DEF UnmarkedIsStored, TypeOK
  <2>5. CommitProgress' /\ SavedIsDurable' /\ DemoIsProvisioned'
    BY <2>1, <1>0 DEF CommitProgress, SavedIsDurable, DemoIsProvisioned
  <2>6. QED
    BY <1>0, <2>3, <2>4, <2>5
<1>3. CASE AssertionFails
  BY <1>0, <1>3 DEF AssertionFails, BufferFits, UnmarkedIsStored, CommitProgress,
                    SavedIsDurable, DemoIsProvisioned
<1>4. CASE vSubCommand_CommitConfig
  BY <1>0, <1>4 DEF vSubCommand_CommitConfig, Cli, BufferFits, Length, UnmarkedIsStored,
                    CommitProgress, SavedIsDurable, DemoIsProvisioned, cacheVars
<1>5. CASE CommitKey
  <2> DEFINE c == commitAt
  <2>1. /\ mode = "cli" /\ mode' = "cli" /\ c \in Keys /\ message = "none"
        /\ UNCHANGED cacheVars
    BY <1>5 DEF CommitKey, CommitProgress, TypeOK, Keys
  <2>2. /\ \A k \in Keys \ {c} : nv'[k] = nv[k]
        /\ nv'[c] = nv[c] \/ nv'[c] = val[c]
    BY <1>5, <2>1 DEF CommitKey, xprvWriteValueToImpl, TypeOK
  <2>3. xSuccess' => xSuccess /\ val[c] \in {None, nv'[c]}
    BY <1>5, <2>1 DEF CommitKey, xprvWriteValueToImpl, CommitResult, UnmarkedIsStored, TypeOK
  <2>4. BufferFits' /\ UnmarkedIsStored' /\ DemoIsProvisioned'
    BY <2>1, <2>2 DEF BufferFits, Length, UnmarkedIsStored, DemoIsProvisioned, cacheVars
  <2>5. xSuccess' => \A k \in 1..c : val'[k] \in {None, nv'[k]}
    <3>1. SUFFICES ASSUME xSuccess', NEW k \in 1..c PROVE val[k] \in {None, nv'[k]}
      BY <2>1 DEF cacheVars
    <3>2. CASE k = c
      BY <3>1, <3>2, <2>3
    <3>3. CASE k # c
      <4>1. k \in 1..(c - 1) /\ k \in Keys \ {c} /\ c > 0
        BY <3>3, <2>1 DEF Keys
      <4>2. QED
        BY <4>1, <3>1, <2>1, <2>2, <2>3 DEF CommitProgress
    <3>4. QED
      BY <3>2, <3>3
  <2>6. CASE c = NumKeys
    <3>1. commitAt' = 0 /\ (message' = "saved" => xSuccess')
      BY <1>5, <2>6 DEF CommitKey, LastKey
    <3>2. CommitProgress' /\ SavedIsDurable'
      BY <2>5, <2>6, <3>1 DEF CommitProgress, SavedIsDurable, Keys
    <3>3. QED
      BY <1>0, <2>4, <3>2
  <2>7. CASE c # NumKeys
    <3>1. commitAt' = c + 1 /\ message' = "none"
      BY <1>5, <2>1, <2>7 DEF CommitKey, LastKey
    <3>2. commitAt' - 1 = c
      BY <3>1, <2>1 DEF Keys
    <3>3. CommitProgress' /\ SavedIsDurable'
      BY <2>5, <3>1, <3>2 DEF CommitProgress, SavedIsDurable
    <3>4. QED
      BY <1>0, <2>4, <3>3
  <2>8. QED
    BY <2>6, <2>7
<1>6. CASE ProvisionKeys
  BY <1>0, <1>6 DEF ProvisionKeys, Cli, BufferFits, Length, UnmarkedIsStored,
                    CommitProgress, SavedIsDurable, DemoIsProvisioned, cacheVars, commitVars
<1>7. CASE Reset
  BY <1>0, <1>7 DEF Reset, BufferFits, UnmarkedIsStored, CommitProgress,
                    SavedIsDurable, DemoIsProvisioned
<1>8. CASE UNCHANGED vars
  BY <1>0, <1>8 DEF vars, cacheVars, commitVars, BufferFits, Length, UnmarkedIsStored,
                    CommitProgress, SavedIsDurable, DemoIsProvisioned, Durable
<1>9. QED
  BY <1>1, <1>2, <1>3, <1>4, <1>5, <1>6, <1>7, <1>8 DEF Next

LEMMA KvInitial == Init => KvInv
<1> SUFFICES ASSUME Init PROVE KvInv
  OBVIOUS
<1>1. TypeOK
  <2>1. commitAt \in 0..NumKeys
    BY KvAssumption DEF Init
  <2>2. /\ nv \in [Keys -> Values \cup {None}] /\ val \in [Keys -> Values \cup {None}]
        /\ buf \in [Keys -> Nat] /\ pending \in [Keys -> BOOLEAN]
    BY DEF Init
  <2>3. QED
    BY <2>1, <2>2 DEF Init, TypeOK
<1>2. mode = "off"
  BY DEF Init
<1>3. QED
  BY <1>1, <1>2 DEF KvInv, BufferFits, UnmarkedIsStored, CommitProgress, SavedIsDurable,
                    DemoIsProvisioned

(* The heap buffer of an entry is as long as the value that is copied into *)
(* it, whatever longer and shorter values were set and read before.        *)
THEOREM KvBufferFits == Spec => []BufferFits
<1>1. KvInv => BufferFits
  BY DEF KvInv
<1>2. QED
  BY <1>1, KvInitial, KvStep, PTL DEF Spec

(* No sequence of sets, failed or interrupted commits and resets makes the *)
(* store overrun a buffer, skip a change, report a save that did not       *)
(* happen, or start the demos on a configuration that is not stored.       *)
THEOREM KvCorrect ==
  Spec => [](TypeOK /\ BufferFits /\ UnmarkedIsStored /\ SavedIsDurable /\ DemoIsProvisioned)
<1>1. KvInv => TypeOK /\ BufferFits /\ UnmarkedIsStored /\ SavedIsDurable /\ DemoIsProvisioned
  BY DEF KvInv
<1>2. QED
  BY <1>1, KvInitial, KvStep, PTL DEF Spec

-----------------------------------------------------------------------------
(* Refinement *)

staged  == [k \in Keys |-> IF mode \in {"cli", "demo"} THEN View(k) ELSE Durable(k)]
durable == [k \in Keys |-> Durable(k)]

LEMMA ContractStep ==
  KvInv /\ KvInv' /\ [Next]_vars => [Contract!Next]_<<staged, durable>>
<1> SUFFICES ASSUME KvInv, KvInv', [Next]_vars
             PROVE  Contract!Next \/ UNCHANGED <<staged, durable>>
  BY DEF staged, durable
<1> USE KvAssumption DEF KvInv
<1>1. CASE app_main
  <2>1. mode' \in {"cli", "demo"} /\ nv' = nv /\ \A k \in Keys : val'[k] \in {None, nv[k]}
    BY <1>1, Loaded DEF app_main, StartMode
  <2> DEFINE unread == {k \in Keys : val'[k] = None}
  <2>2. durable' = durable
    BY <2>1 DEF durable, Durable
  <2>3. staged' = [k \in Keys |-> IF k \in unread THEN Default[k] ELSE durable[k]]
    BY <2>1 DEF staged, durable, View, Durable
  <2>4. Contract!Reset
    BY <2>2, <2>3 DEF Contract!Reset, staged, durable
  <2>5. QED
    BY <2>4 DEF Contract!Next
<1>2. ASSUME NEW k \in Keys, NEW v \in Values, vSubCommand_SetConfig(k, v)
      PROVE  Contract!Next
  <2>1. mode = "cli" /\ mode' = "cli" /\ nv' = nv /\ val' = [val EXCEPT ![k] = v]
    BY <1>2, SetEntry DEF vSubCommand_SetConfig, KVStore_set, Cli
  <2>2. durable' = durable /\ staged' = [staged EXCEPT ![k] = v]
    BY <2>1 DEF staged, durable, View, Durable, TypeOK
  <2>3. Contract!Set(k, v)
    BY <2>2 DEF Contract!Set, staged, durable
  <2>4. QED
    BY <2>3 DEF Contract!Next
<1>3. CASE CommitKey
  <2>1. mode = "cli" /\ mode' = "cli" /\ val' = val /\ commitAt \in Keys
    BY <1>3 DEF CommitKey, cacheVars, TypeOK, Keys
  <2>2. staged' = staged
    BY <2>1 DEF staged, View
  <2>3. nv' = nv \/ nv' = [nv EXCEPT ![commitAt] = val[commitAt]]
    BY <1>3 DEF CommitKey, xprvWriteValueToImpl
  <2>4. CASE nv' = nv
    BY <2>2, <2>4 DEF durable, Durable
  <2>5. CASE nv' = [nv EXCEPT ![commitAt] = val[commitAt]]
    <3>1. durable' = [durable EXCEPT ![commitAt] = staged[commitAt]]
      BY <2>1, <2>5 DEF staged, durable, View, Durable, TypeOK
    <3>2. Contract!Save(commitAt)
      BY <2>2, <3>1 DEF Contract!Save, staged, durable
    <3>3. QED
      BY <2>1, <3>2 DEF Contract!Next
  <2>6. QED
    BY <2>3, <2>4, <2>5
<1>4. CASE AssertionFails \/ Reset
  <2>1. mode' \in {"off", "halted"} /\ nv' = nv
    BY <1>4 DEF AssertionFails, Reset
  <2>2. durable' = durable /\ staged' = durable
    BY <2>1 DEF staged, durable, Durable
  <2>3. \E unread \in SUBSET Keys :
          staged' = [k \in Keys |-> IF k \in unread THEN Default[k] ELSE durable[k]]
    <3>1. staged' = [k \in Keys |-> IF k \in {} THEN Default[k] ELSE durable[k]]
      BY <2>2 DEF durable
    <3>2. WITNESS {} \in SUBSET Keys
    <3>3. QED
      BY <3>1
  <2>4. Contract!Reset
    BY <2>2, <2>3 DEF Contract!Reset, staged, durable
  <2>5. QED
    BY <2>4 DEF Contract!Next
<1>5. CASE vSubCommand_CommitConfig \/ ProvisionKeys \/ UNCHANGED vars
  BY <1>5 DEF vSubCommand_CommitConfig, ProvisionKeys, vars, cacheVars, staged, durable,
              View, Durable
<1>6. QED
  BY <1>1, <1>2, <1>3, <1>4, <1>5 DEF Next

LEMMA ContractInitial == Init => Contract!Init
BY KvAssumption DEF Init, Contract!Init, View, Durable

(* The key-value store implements KvContract: every set is staged, every   *)
(* write of a commit makes exactly one staged value durable, and a reset   *)
(* returns to the durable values.                                          *)
THEOREM KvRefinement == Spec => ImplementsKvContract
<1>1. KvInv /\ KvInv' /\ [Next]_vars => [Contract!Next]_<<staged, durable>>
  BY ContractStep
<1>2. QED
  BY <1>1, KvInitial, KvStep, ContractInitial, PTL
  DEF Spec, ImplementsKvContract, Contract!Spec, staged, durable
=============================================================================
