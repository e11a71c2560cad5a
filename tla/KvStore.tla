------------------------------ MODULE KvStore -------------------------------
(***************************************************************************)
(* The key-value store (kvstore.c, kvstore_cache.c, kvstore_nv_psa_its.c)  *)
(* with its only clients: the application's main thread, which reads the   *)
(* configuration at start-up and decides between the demos and the command *)
(* line, and the conf command of the command line.  The two never run at   *)
(* the same time.  The device may be reset between any two steps; writing  *)
(* one entry of the secure storage (psa_its_set) is atomic, and may fail,  *)
(* as may reading one.                                                     *)
(*                                                                         *)
(* A value stands for its type, length and data; Bytes gives its length.   *)
(***************************************************************************)
EXTENDS Integers, FiniteSets

CONSTANTS
  NumKeys,   \* CS_NUM_KEYS
  Values,
  Bytes,     \* the length of each value, in bytes
  Default,   \* kvStoreDefaults
  Blank,     \* the values whose first character is 0
  Required,  \* the keys app_main wants to be set
  WordSize,  \* sizeof( void * ): longer values are on the heap
  None       \* KV_TYPE_NONE, no such entry

Keys == 1..NumKeys

ASSUME KvAssumption ==
  /\ NumKeys \in Nat \ {0}
  /\ Bytes \in [Values -> Nat]
  /\ Default \in [Keys -> Values]
  /\ Blank \subseteq Values
  /\ Required \subseteq Keys
  /\ \A k \in Required : Default[k] \in Blank
  /\ WordSize \in Nat \ {0}
  /\ None \notin Values

VARIABLES
  mode,      \* "off", "cli", "demo", or "halted" in a failed assertion
  nv,        \* the entries in the secure storage
  val,       \* kvStoreCache[k]: type, length and data
  buf,       \* size of the heap buffer pvData points to, 0 when inline
  pending,   \* xChangePending
  lost,      \* TRUE if a heap buffer is allocated that nothing points to
  commitAt,  \* the next key of a running KVStore_xCommitChanges, or 0
  xSuccess,  \* its result so far
  message,   \* what conf commit printed last: "none", "saved" or "error"
  pki        \* TRUE if FindPKCS11Keys finds the device's keys

cacheVars  == <<val, buf, pending, lost>>
commitVars == <<commitAt, xSuccess, message>>
vars == <<mode, nv, cacheVars, commitVars, pki>>

TypeOK ==
  /\ mode \in {"off", "cli", "demo", "halted"}
  /\ nv \in [Keys -> Values \cup {None}]
  /\ val \in [Keys -> Values \cup {None}]
  /\ buf \in [Keys -> Nat]
  /\ pending \in [Keys -> BOOLEAN]
  /\ lost \in BOOLEAN
  /\ commitAt \in 0..NumKeys
  /\ xSuccess \in BOOLEAN
  /\ message \in {"none", "saved", "error"}
  /\ pki \in BOOLEAN

-----------------------------------------------------------------------------
(* The cache *)

(* The KVStore_get functions: the entry of the cache, or the default.      *)
View(k) == IF val[k] = None THEN Default[k] ELSE val[k]

Length(k) == IF val[k] = None THEN 0 ELSE Bytes[val[k]]

(* What a buffer of length n takes from the heap.                          *)
HeapSize(n) == IF n > WordSize THEN n ELSE 0

(* Mutant of Realloc: the buffer is only replaced when the old value was   *)
(* inline.                                                                 *)
Realloc_KeepsHeap(k, n) ==
  IF n > Length(k) /\ Length(k) <= WordSize
  THEN buf' = [buf EXCEPT ![k] = HeapSize(n)] /\ UNCHANGED lost
  ELSE UNCHANGED <<buf, lost>>

(* vReallocDataBuffer: a longer value gets a new buffer and the old one is *)
(* freed; a shorter one keeps it.  A value that now fits into the entry    *)
(* itself is copied over the pointer to the buffer.                        *)
Realloc(k, n) ==
  IF n > Length(k)
  THEN buf' = [buf EXCEPT ![k] = HeapSize(n)] /\ UNCHANGED lost
  ELSE IF n <= WordSize /\ buf[k] > 0
       THEN buf' = [buf EXCEPT ![k] = 0] /\ lost' = TRUE
       ELSE UNCHANGED <<buf, lost>>

(* What sets xChangePending: no entry yet, another length, other data.     *)
Changes(k, v) == val[k] # v

(* xprvWriteCacheEntry, through the KVStore_set functions.                 *)
xprvWriteCacheEntry(k, v) ==
  /\ pending' = [pending EXCEPT ![k] = @ \/ Changes(k, v)]
  /\ val' = IF pending'[k] THEN [val EXCEPT ![k] = v] ELSE val
  /\ IF Length(k) # Bytes[v] THEN Realloc(k, Bytes[v]) ELSE UNCHANGED <<buf, lost>>

(* The KVStore_set functions of all types: an empty value is refused.      *)
KVStore_set(k, v) == Bytes[v] > 0 /\ xprvWriteCacheEntry(k, v)

-----------------------------------------------------------------------------
(* Start-up *)

(* KVStore_getString copies a string; the buffers of app_main are large    *)
(* enough for the first character of any.                                  *)
KVStore_getString(k) == View(k)

Provisioned == pki /\ \A k \in Required : KVStore_getString(k) \notin Blank

(* xprvReadValueFromImpl: what is stored, or nothing when its length, the  *)
(* memory for it or its header cannot be had.  A header without its value  *)
(* stops the device in an assertion: it is not started then.               *)
xprvReadValueFromImpl(k, fails) == IF fails THEN None ELSE nv[k]

(* KVStore_init loads every entry of the secure storage.  One that cannot  *)
(* be read is left empty; a buffer allocated for it is forgotten, unless   *)
(* already its length could not be read.                                   *)
KVStore_init ==
  \E unread \in SUBSET Keys :
    /\ val' = [k \in Keys |-> xprvReadValueFromImpl(k, k \in unread)]
    /\ buf' = [k \in Keys |-> IF val'[k] = None THEN 0 ELSE HeapSize(Bytes[val'[k]])]
    /\ pending' = [k \in Keys |-> FALSE]
    /\ lost' \in IF \E k \in unread : nv[k] # None /\ HeapSize(Bytes[nv[k]]) > 0
                THEN BOOLEAN ELSE {FALSE}

(* A device that is not provisioned stays in the command line; so does one *)
(* whose button is pressed.                                                *)
StartMode == IF Provisioned' THEN {"demo", "cli"} ELSE {"cli"}

app_main ==
  /\ mode = "off"
  /\ KVStore_init
  /\ commitAt' = 0 /\ xSuccess' = TRUE /\ message' = "none"
  /\ UNCHANGED <<nv, pki>>
  /\ mode' \in StartMode

-----------------------------------------------------------------------------
(* The conf command *)

Cli == mode = "cli" /\ commitAt = 0

(* conf set with a value that is valid for the key.                        *)
vSubCommand_SetConfig(k, v) ==
  /\ Cli
  /\ KVStore_set(k, v)
  /\ message' = "none"
  /\ UNCHANGED <<mode, nv, commitAt, xSuccess, pki>>

(* The allocation for a longer value fails, or at start-up the data after  *)
(* the header of an entry cannot be read: an assertion stops the device.   *)
AssertionFails ==
  /\ \/ /\ Cli
        /\ \E k \in Keys, v \in Values : Bytes[v] > WordSize /\ Bytes[v] > Length(k)
     \/ /\ mode = "off"
        /\ \E k \in Keys : nv[k] # None
  /\ mode' = "halted"
  /\ UNCHANGED <<nv, cacheVars, commitVars, pki>>

(* conf commit: KVStore_xCommitChanges walks over the keys.                *)
vSubCommand_CommitConfig ==
  /\ Cli
  /\ commitAt' = 1
  /\ xSuccess' = TRUE
  /\ message' = "none"
  /\ UNCHANGED <<mode, nv, cacheVars, pki>>

(* Mutant of CommitResult: the last write decides.                         *)
CommitResult_Last(ok) == ok

CommitResult(ok) == xSuccess /\ ok

LastKey(k) == k = NumKeys

(* Mutant of xprvWriteValueToImpl: the old entry is removed first.         *)
xprvWriteValueToImpl_Removes(k, ok) == [nv EXCEPT ![k] = IF ok THEN val[k] ELSE None]

(* The secure storage after writing an entry, or failing to.               *)
xprvWriteValueToImpl(k, ok) == IF ok THEN [nv EXCEPT ![k] = val[k]] ELSE nv

(* One iteration: only pending entries are written.  After the last key    *)
(* the result is printed.                                                  *)
CommitKey ==
  /\ mode = "cli" /\ commitAt > 0
  /\ \/ /\ pending[commitAt]
        /\ \E ok \in BOOLEAN :
             /\ nv' = xprvWriteValueToImpl(commitAt, ok)
             /\ xSuccess' = CommitResult(ok)
     \/ /\ ~pending[commitAt]
        /\ UNCHANGED <<nv, xSuccess>>
  /\ IF LastKey(commitAt)
     THEN commitAt' = 0 /\ message' = IF xSuccess' THEN "saved" ELSE "error"
     ELSE commitAt' = commitAt + 1 /\ UNCHANGED message
  /\ UNCHANGED <<mode, cacheVars, pki>>

(* The pki commands import or generate the keys and certificates.          *)
ProvisionKeys ==
  /\ Cli
  /\ pki' = TRUE
  /\ UNCHANGED <<mode, nv, cacheVars, commitVars>>

(* Power failure or reset button.                                          *)
Reset ==
  /\ mode # "off"
  /\ mode' = "off"
  /\ UNCHANGED <<nv, cacheVars, commitVars, pki>>

-----------------------------------------------------------------------------
(* The specification *)

Init ==
  /\ mode = "off"
  /\ nv = [k \in Keys |-> None]
  /\ val = [k \in Keys |-> None]
  /\ buf = [k \in Keys |-> 0]
  /\ pending = [k \in Keys |-> FALSE]
  /\ lost = FALSE
  /\ commitAt = 0 /\ xSuccess = TRUE /\ message = "none"
  /\ pki = FALSE

Next ==
  \/ app_main
  \/ \E k \in Keys, v \in Values : vSubCommand_SetConfig(k, v)
  \/ AssertionFails
  \/ vSubCommand_CommitConfig
  \/ CommitKey
  \/ ProvisionKeys
  \/ Reset

Spec == Init /\ [][Next]_vars

-----------------------------------------------------------------------------
(* Properties *)

(* What a restart will read.                                               *)
Durable(k) == IF nv[k] = None THEN Default[k] ELSE nv[k]

(* The buffer of a long value is large enough for it whatever sequence of  *)
(* longer and shorter values came before, so copying never overruns it.    *)
BufferFits ==
  mode = "cli" => \A k \in Keys : Length(k) > WordSize => buf[k] >= Length(k)

(* An entry that is not marked as changed is the one in secure storage, or *)
(* empty because it could not be read: a commit skips nothing that was     *)
(* set, although equal values are not copied and the mark is never taken   *)
(* back.                                                                   *)
UnmarkedIsStored ==
  mode \in {"cli", "demo"} => \A k \in Keys : ~pending[k] => val[k] \in {None, nv[k]}

(* "Configuration saved to NVM" is printed only if every value in the      *)
(* cache is the one a restart will load, even if writing one of several    *)
(* keys failed or an earlier commit was cut off by a reset.                *)
SavedIsDurable ==
  mode = "cli" /\ message = "saved" => \A k \in Keys : val[k] \in {None, nv[k]}

(* The demos run only on keys and a configuration that survive a restart.  *)
DemoIsProvisioned ==
  mode = "demo" => pki /\ \A k \in Required : Durable(k) \notin Blank

(* What a comment of vReallocDataBuffer says: a shorter value re-uses the  *)
(* buffer that is already allocated, so no buffer is lost.                 *)
BufferReused == ~lost

Contract == INSTANCE KvContract WITH
  staged  <- [k \in Keys |-> IF mode \in {"cli", "demo"} THEN View(k) ELSE Durable(k)],
  durable <- [k \in Keys |-> Durable(k)]

(* The store implements the contract of staged and durable values.         *)
ImplementsKvContract == Contract!Spec
=============================================================================
