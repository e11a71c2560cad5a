----------------------------- MODULE PsaClient -----------------------------
(***************************************************************************)
(* The non-secure side of the PSA services (tfm/interface): the functions  *)
(* that pack a request into vectors and call the secure side, the mutex    *)
(* around the veneers (tfm_ns_interface.c), the connections of the         *)
(* services that need one, and the handles of multi-part operations.       *)
(*                                                                         *)
(* A function of the interface is a record: its input and output vectors,  *)
(* the lengths it reports from the output vectors, what it does to a       *)
(* multi-part operation and to keys, whether it opens a connection of its  *)
(* own.  The data of a vector is left out; a buffer is its name.           *)
(*                                                                         *)
(* The secure side is external, modelled by what the functions hand it and *)
(* take from it: it keeps a slot for every multi-part operation, gives its *)
(* number out as the handle, and writes an output vector only if it got    *)
(* one.                                                                    *)
(***************************************************************************)
EXTENDS Integers, Sequences, FiniteSets

CONSTANTS
    Tasks,        \* tasks that call the interface
    Operations,   \* operation structures of the tasks
    UserOf,       \* the task of an operation structure
    Slots,        \* handles of the operation slots of the crypto service
    Connections   \* handles of connections

ASSUME PsaAssumption ==
    /\ Slots \subseteq Nat \ {0}
    /\ UserOf \in [Operations -> Tasks]
    /\ "none" \notin Operations \cup Connections

VARIABLES
    at,       \* where a task stands: idle, lock, secure
    call,     \* what a task is calling
    op,       \* handle and kind of an operation structure
    slots,    \* secure side: the kind of operation in a slot, or None
    open      \* secure side: open connections

vars == <<at, call, op, slots, open>>

None == "none"

Kinds == {"hash", "mac", "cipher", "aead", "derivation"}

(***************************************************************************)
(* Shapes of functions.                                                    *)
(***************************************************************************)

\* The output vector that is the handle in the caller's operation structure.
Handle == "handle"

\* lengths pairs a length the caller asked for with the index of the output
\* vector the code reads it from.
Function(kind, does, ins, outs, lengths) ==
    [kind |-> kind, does |-> does, ins |-> ins, outs |-> outs,
     lengths |-> lengths, type |-> 0, connects |-> FALSE]

OneShot(ins, outs, lengths) == Function(None, "nothing", ins, outs, lengths)

\* A service with a handle of its own takes the request in the type.
Service(type, ins, outs, lengths) ==
    [OneShot(ins, outs, lengths) EXCEPT !.type = type]

Connected(ins, outs) == [OneShot(ins, outs, {}) EXCEPT !.connects = TRUE]

\* An optional buffer: its vector is left out when it is NULL.
Optional(given, buffer) == IF given THEN <<buffer>> ELSE <<>>

(***************************************************************************)
(* tfm_crypto_ipc_api.c.                                                   *)
(***************************************************************************)
psa_open_key == OneShot(<<"iov", "id">>, <<"key">>, {})
psa_close_key == OneShot(<<"iov">>, <<>>, {})
psa_import_key == OneShot(<<"iov", "attributes", "data">>, <<"key">>, {})
psa_destroy_key == OneShot(<<"iov">>, <<>>, {})
psa_get_key_attributes == OneShot(<<"iov">>, <<"attributes">>, {})
psa_reset_key_attributes == OneShot(<<"iov">>, <<"attributes">>, {})
psa_export_key == OneShot(<<"iov">>, <<"data">>, {<<"data", 1>>})
psa_export_public_key == OneShot(<<"iov">>, <<"data">>, {<<"data", 1>>})
psa_purge_key == OneShot(<<"iov">>, <<>>, {})
psa_copy_key == OneShot(<<"iov", "attributes">>, <<"key">>, {})
psa_generate_key == OneShot(<<"iov", "attributes">>, <<"key">>, {})
psa_generate_random == OneShot(<<"iov">>, <<"output">>, {})

psa_cipher_generate_iv ==
    Function("cipher", "update", <<"iov">>, <<Handle, "iv">>, {<<"iv", 2>>})
psa_cipher_set_iv ==
    Function("cipher", "update", <<"iov", "iv">>, <<Handle>>, {})
psa_cipher_encrypt_setup ==
    Function("cipher", "setup", <<"iov">>, <<Handle>>, {})
psa_cipher_decrypt_setup ==
    Function("cipher", "setup", <<"iov">>, <<Handle>>, {})
psa_cipher_update ==
    Function("cipher", "update", <<"iov", "input">>, <<Handle, "output">>,
             {<<"output", 2>>})
psa_cipher_abort == Function("cipher", "abort", <<"iov">>, <<Handle>>, {})
psa_cipher_finish ==
    Function("cipher", "finish", <<"iov">>, <<Handle, "output">>,
             {<<"output", 2>>})

psa_hash_setup == Function("hash", "setup", <<"iov">>, <<Handle>>, {})
psa_hash_update == Function("hash", "update", <<"iov", "input">>, <<Handle>>, {})

psa_hash_finish_NoHandle ==
    Function("hash", "finish", <<"iov">>, <<"hash">>, {<<"hash", 1>>})

psa_hash_finish ==
    Function("hash", "finish", <<"iov">>, <<Handle, "hash">>, {<<"hash", 2>>})
psa_hash_verify == Function("hash", "finish", <<"iov", "hash">>, <<Handle>>, {})
psa_hash_abort == Function("hash", "abort", <<"iov">>, <<Handle>>, {})

\* The request carries the handle of the source, the vector is the target.
psa_hash_clone == Function("hash", "clone", <<"iov">>, <<Handle>>, {})
psa_hash_compute ==
    OneShot(<<"iov", "input">>, <<"hash">>, {<<"hash", 1>>})
psa_hash_compare == OneShot(<<"iov", "input", "hash">>, <<>>, {})

psa_mac_sign_setup == Function("mac", "setup", <<"iov">>, <<Handle>>, {})
psa_mac_verify_setup == Function("mac", "setup", <<"iov">>, <<Handle>>, {})
psa_mac_update == Function("mac", "update", <<"iov", "input">>, <<Handle>>, {})
psa_mac_sign_finish ==
    Function("mac", "finish", <<"iov">>, <<Handle, "mac">>, {<<"mac", 2>>})
psa_mac_verify_finish ==
    Function("mac", "finish", <<"iov", "mac">>, <<Handle>>, {})
psa_mac_abort == Function("mac", "abort", <<"iov">>, <<Handle>>, {})
psa_mac_compute == OneShot(<<"iov", "input">>, <<"mac">>, {<<"mac", 1>>})
psa_mac_verify == OneShot(<<"iov", "input", "mac">>, <<>>, {})

psa_aead_encrypt(given) ==
    OneShot(<<"iov", "plaintext">> \o Optional(given, "additional_data"),
            <<"ciphertext">>, {<<"ciphertext", 1>>})
psa_aead_decrypt(given) ==
    OneShot(<<"iov", "ciphertext">> \o Optional(given, "additional_data"),
            <<"plaintext">>, {<<"plaintext", 1>>})
psa_aead_encrypt_setup == Function("aead", "setup", <<"iov">>, <<Handle>>, {})
psa_aead_decrypt_setup == Function("aead", "setup", <<"iov">>, <<Handle>>, {})
psa_aead_generate_nonce ==
    Function("aead", "update", <<"iov">>, <<Handle, "nonce">>, {<<"nonce", 2>>})
psa_aead_set_nonce ==
    Function("aead", "update", <<"iov", "nonce">>, <<Handle>>, {})
psa_aead_set_lengths == Function("aead", "update", <<"iov">>, <<Handle>>, {})
psa_aead_update_ad(given) ==
    Function("aead", "update", <<"iov">> \o Optional(given, "input"), <<Handle>>,
             {})
psa_aead_update(given) ==
    Function("aead", "update", <<"iov">> \o Optional(given, "input"),
             <<Handle, "output">>, {<<"output", 2>>})

psa_aead_finish(given) ==
    Function("aead", "finish", <<"iov">>,
             <<Handle, "tag">> \o Optional(given, "ciphertext"),
             {<<"tag", 2>>} \cup IF given THEN {<<"ciphertext", 3>>} ELSE {})
psa_aead_verify(given) ==
    Function("aead", "finish", <<"iov", "tag">>,
             <<Handle>> \o Optional(given, "plaintext"),
             IF given THEN {<<"plaintext", 2>>} ELSE {})
psa_aead_abort == Function("aead", "abort", <<"iov">>, <<Handle>>, {})

psa_sign_message ==
    OneShot(<<"iov", "input">>, <<"signature">>, {<<"signature", 1>>})
psa_verify_message == OneShot(<<"iov", "input", "signature">>, <<>>, {})
psa_sign_hash ==
    OneShot(<<"iov", "hash">>, <<"signature">>, {<<"signature", 1>>})
psa_verify_hash == OneShot(<<"iov", "hash", "signature">>, <<>>, {})
psa_asymmetric_encrypt(given) ==
    OneShot(<<"iov", "input">> \o Optional(given, "salt"), <<"output">>,
            {<<"output", 1>>})
psa_asymmetric_decrypt(given) ==
    OneShot(<<"iov", "input">> \o Optional(given, "salt"), <<"output">>,
            {<<"output", 1>>})
psa_cipher_encrypt ==
    OneShot(<<"iov", "input">>, <<"output">>, {<<"output", 1>>})
psa_cipher_decrypt ==
    OneShot(<<"iov", "input">>, <<"output">>, {<<"output", 1>>})
psa_raw_key_agreement ==
    OneShot(<<"iov", "peer_key">>, <<"output">>, {<<"output", 1>>})

\* Key derivation hands the handle back only where it changes.
Derivation(does, ins, outs) == Function("derivation", does, ins, outs, {})

psa_key_derivation_setup == Derivation("setup", <<"iov">>, <<Handle>>)
psa_key_derivation_get_capacity == Derivation("update", <<"iov">>, <<"capacity">>)
psa_key_derivation_set_capacity == Derivation("update", <<"iov">>, <<>>)
psa_key_derivation_input_bytes == Derivation("update", <<"iov", "data">>, <<>>)
psa_key_derivation_input_key == Derivation("update", <<"iov">>, <<>>)
psa_key_derivation_key_agreement ==
    Derivation("update", <<"iov", "peer_key">>, <<>>)
psa_key_derivation_output_bytes == Derivation("update", <<"iov">>, <<"output">>)
psa_key_derivation_output_key ==
    Derivation("update", <<"iov", "attributes">>, <<"key">>)
psa_key_derivation_abort == Derivation("abort", <<"iov">>, <<Handle>>)

(***************************************************************************)
(* The other services: internal trusted storage, protected storage,        *)
(* attestation, firmware update, platform.                                 *)
(***************************************************************************)
psa_its_set == Service(1001, <<"uid", "data", "flags">>, <<>>, {})
psa_its_get == Service(1002, <<"uid", "offset">>, <<"data">>, {<<"data", 1>>})
psa_its_get_info == Service(1003, <<"uid">>, <<"info">>, {})
psa_its_remove == Service(1004, <<"uid">>, <<>>, {})
psa_ps_set == Service(1001, <<"uid", "data", "flags">>, <<>>, {})
psa_ps_get == Service(1002, <<"uid", "offset">>, <<"data">>, {<<"data", 1>>})
psa_ps_get_info == Service(1003, <<"uid">>, <<"info">>, {})
psa_ps_remove == Service(1004, <<"uid">>, <<>>, {})
psa_ps_get_support == Service(1005, <<>>, <<"flags">>, {})
psa_initial_attest_get_token ==
    Service(1001, <<"challenge">>, <<"token">>, {<<"token", 1>>})
psa_initial_attest_get_token_size ==
    Service(1002, <<"challenge_size">>, <<"token_size">>, {})

psa_fwu_write == Connected(<<"image", "offset", "block">>, <<>>)
psa_fwu_install == Connected(<<"image">>, <<"uuid", "version">>)
psa_fwu_abort == Connected(<<"image">>, <<>>)
psa_fwu_query == Connected(<<"image">>, <<"info">>)
psa_fwu_request_reboot == Connected(<<>>, <<>>)
psa_fwu_accept == Connected(<<"image">>, <<>>)
tfm_platform_system_reset == Connected(<<>>, <<>>)
tfm_platform_ioctl(input, output) ==
    Connected(<<"request">> \o Optional(input, "input"),
              Optional(output, "output"))

KeyFunctions ==
    {psa_open_key, psa_close_key, psa_import_key, psa_destroy_key,
     psa_get_key_attributes, psa_reset_key_attributes, psa_export_key,
     psa_export_public_key, psa_purge_key, psa_copy_key, psa_generate_key,
     psa_generate_random}

CipherFunctions ==
    {psa_cipher_generate_iv, psa_cipher_set_iv, psa_cipher_encrypt_setup,
     psa_cipher_decrypt_setup, psa_cipher_update, psa_cipher_abort,
     psa_cipher_finish, psa_cipher_encrypt, psa_cipher_decrypt}

HashFunctions ==
    {psa_hash_setup, psa_hash_update, psa_hash_finish, psa_hash_verify,
     psa_hash_abort, psa_hash_clone, psa_hash_compute, psa_hash_compare}

MacFunctions ==
    {psa_mac_sign_setup, psa_mac_verify_setup, psa_mac_update,
     psa_mac_sign_finish, psa_mac_verify_finish, psa_mac_abort,
     psa_mac_compute, psa_mac_verify}

AeadFunctions ==
    {psa_aead_encrypt_setup, psa_aead_decrypt_setup, psa_aead_generate_nonce,
     psa_aead_set_nonce, psa_aead_set_lengths, psa_aead_abort}
    \cup UNION {{psa_aead_encrypt(g), psa_aead_decrypt(g),
                  psa_aead_update_ad(g), psa_aead_update(g),
                  psa_aead_finish(g), psa_aead_verify(g)} : g \in BOOLEAN}

AsymmetricFunctions ==
    {psa_sign_message, psa_verify_message, psa_sign_hash, psa_verify_hash,
     psa_raw_key_agreement}
    \cup UNION {{psa_asymmetric_encrypt(g), psa_asymmetric_decrypt(g)} : g \in BOOLEAN}

DerivationFunctions ==
    {psa_key_derivation_setup, psa_key_derivation_get_capacity,
     psa_key_derivation_set_capacity, psa_key_derivation_input_bytes,
     psa_key_derivation_input_key, psa_key_derivation_key_agreement,
     psa_key_derivation_output_bytes, psa_key_derivation_output_key,
     psa_key_derivation_abort}

StorageFunctions ==
    {psa_its_set, psa_its_get, psa_its_get_info, psa_its_remove, psa_ps_set,
     psa_ps_get, psa_ps_get_info, psa_ps_remove, psa_ps_get_support,
     psa_initial_attest_get_token, psa_initial_attest_get_token_size}

ConnectedFunctions ==
    {psa_fwu_write, psa_fwu_install, psa_fwu_abort, psa_fwu_query,
     psa_fwu_request_reboot, psa_fwu_accept, tfm_platform_system_reset}
    \cup {tfm_platform_ioctl(i, o) : i, o \in BOOLEAN}

Functions ==
    KeyFunctions \cup CipherFunctions \cup HashFunctions \cup MacFunctions
    \cup AeadFunctions \cup AsymmetricFunctions \cup DerivationFunctions
    \cup StorageFunctions \cup ConnectedFunctions

(***************************************************************************)
(* psa_call packs the type and the numbers of vectors into one word, which *)
(* the secure side takes apart.                                            *)
(***************************************************************************)
PARAM_PACK(type, in_len, out_len) ==
    (type % 2 ^ 16) * 2 ^ 16 + (in_len % 2 ^ 8) * 2 ^ 8 + (out_len % 2 ^ 8)

Word(f) == PARAM_PACK(f.type, Len(f.ins), Len(f.outs))

Unpacked(w) == <<w \div 2 ^ 16, (w \div 2 ^ 8) % 2 ^ 8, w % 2 ^ 8>>

(***************************************************************************)
(* State.                                                                  *)
(***************************************************************************)
NoOp == [handle |-> 0, kind |-> None]

NoRequest == OneShot(<<>>, <<>>, {})

NoCall == [f |-> NoRequest, phase |-> None, conn |-> None, op |-> None]

Phases == {"connect", "call", "close"}

\* Every variable has its type.
TypeOK ==
    /\ at \in [Tasks -> {"idle", "lock", "secure"}]
    /\ \A t \in Tasks :
          \/ call[t].phase = None
          \/ /\ call[t].f \in Functions \cup {NoRequest}
             /\ call[t].phase \in Phases
             /\ call[t].conn \in Connections \cup {None}
             /\ call[t].op \in Operations \cup {None}
    /\ op \in [Operations -> [handle : Slots \cup {0}, kind : Kinds \cup {None}]]
    /\ slots \in [Slots -> Kinds \cup {None}]
    /\ open \subseteq Connections

Init ==
    /\ at = [t \in Tasks |-> "idle"]
    /\ call = [t \in Tasks |-> NoCall]
    /\ op = [o \in Operations |-> NoOp]
    /\ slots = [s \in Slots |-> None]
    /\ open = {}

(***************************************************************************)
(* A call and the lock.                                                    *)
(***************************************************************************)

\* A caller keeps to the life cycle of its operation structures: it sets one
\* up, or clones into one, that is not in use, and goes on with one of the
\* same kind.
LegalFor(f, o) ==
    CASE f.does = "setup" -> op[o].handle = 0
      [] f.does = "clone" -> op[o].handle # 0 /\ op[o].kind = f.kind
      [] OTHER            -> op[o].kind = f.kind

\* A task enters the interface.  It packs the request from data of its own;
\* what it asks for shows when it has the lock.
Call(t) ==
    /\ at[t] = "idle"
    /\ at' = [at EXCEPT ![t] = "lock"]
    /\ UNCHANGED <<call, op, slots, open>>

Inside(t) == at[t] = "secure"

MutexFree_NoMutex == TRUE

\* ns_lock_mutex_id has no owner.
MutexFree == \A t \in Tasks : ~Inside(t)

\* osMutexAcquire returns and the veneer is entered: for a request without an
\* operation structure, for one on a structure of the task, or for one of the
\* three calls of a function that connects.
Dispatch(t) ==
    /\ at[t] = "lock"
    /\ MutexFree
    /\ at' = [at EXCEPT ![t] = "secure"]
    /\ \/ /\ call[t].phase = None
          /\ \E f \in Functions :
                /\ f.kind = None /\ ~f.connects
                /\ call' = [call EXCEPT ![t].f = f, ![t].phase = "call"]
       \/ /\ call[t].phase = None
          /\ \E f \in Functions, o \in Operations :
                /\ f.kind # None
                /\ UserOf[o] = t
                /\ LegalFor(f, o)
                /\ call' = [call EXCEPT ![t].f = f, ![t].phase = "call",
                                       ![t].op = o]
       \/ /\ call[t].phase = None
          /\ call' = [call EXCEPT ![t].phase = "connect"]
       \/ /\ call[t].phase = "call"
          /\ \E f \in Functions :
                /\ f.connects
                /\ call' = [call EXCEPT ![t].f = f]
       \/ /\ call[t].phase = "close"
          /\ UNCHANGED call
    /\ UNCHANGED <<op, slots, open>>

(***************************************************************************)
(* The veneer returns and the lock is released.                            *)
(***************************************************************************)
Returns(t) ==
    /\ at' = [at EXCEPT ![t] = "idle"]
    /\ call' = [call EXCEPT ![t] = NoCall]

\* The handle the secure side writes reaches the structure o only through an
\* output vector.
WriteHandle(f, o, handle, kind) ==
    op' = IF \E i \in DOMAIN f.outs : f.outs[i] = Handle
          THEN [op EXCEPT ![o] = [handle |-> handle, kind |-> kind]]
          ELSE op

InCall(t) == Inside(t) /\ call[t].phase = "call"

\* A request without an operation structure, or one that leaves it as it is.
psa_call(t) ==
    /\ InCall(t)
    /\ ~call[t].f.connects
    /\ Returns(t)
    /\ UNCHANGED <<op, slots, open>>

\* The secure side takes a slot: for the set-up of the structure, or for the
\* target of a clone.
OperationStarts(t) ==
    /\ InCall(t)
    /\ \E s \in Slots :
          /\ slots[s] = None
          /\ slots' = [slots EXCEPT ![s] = call[t].f.kind]
          /\ \/ /\ call[t].f.does = "setup"
                /\ WriteHandle(call[t].f, call[t].op, s, call[t].f.kind)
             \/ /\ call[t].f.does = "clone"
                /\ \E target \in Operations :
                      /\ UserOf[target] = t
                      /\ op[target].handle = 0
                      /\ WriteHandle(call[t].f, target, s, call[t].f.kind)
    /\ Returns(t)
    /\ UNCHANGED open

\* The secure side gives the slot up: the operation is complete or aborted, or
\* a step of it failed and the caller is told by the handle.
OperationEnds(t) ==
    /\ InCall(t)
    /\ call[t].op # None
    /\ op[call[t].op].handle # 0
    /\ \/ call[t].f.does \in {"finish", "abort"}
       \/ call[t].f.does = "update" /\ Handle \in {call[t].f.outs[i] :
                                           i \in DOMAIN call[t].f.outs}
    /\ slots' = [slots EXCEPT ![op[call[t].op].handle] = None]
    /\ WriteHandle(call[t].f, call[t].op, 0, None)
    /\ Returns(t)
    /\ UNCHANGED open

psa_connect_Retries(t) ==
    /\ Inside(t)
    /\ call[t].phase = "connect"
    /\ at' = [at EXCEPT ![t] = "lock"]
    /\ \/ \E c \in Connections \ open :
             /\ open' = open \cup {c}
             /\ call' = [call EXCEPT ![t].conn = c, ![t].phase = "call"]
       \/ /\ call' = [call EXCEPT ![t] = NoCall]
          /\ UNCHANGED open
    /\ UNCHANGED <<op, slots>>

\* The three calls of a function that connects.
psa_connect(t) ==
    /\ Inside(t)
    /\ call[t].phase = "connect"
    /\ \/ \E c \in Connections \ open :
             /\ open' = open \cup {c}
             /\ at' = [at EXCEPT ![t] = "lock"]
             /\ call' = [call EXCEPT ![t].conn = c, ![t].phase = "call"]
       \/ /\ Returns(t)
          /\ UNCHANGED open
    /\ UNCHANGED <<op, slots>>

ConnectedCall(t) ==
    /\ InCall(t)
    /\ call[t].f.connects
    /\ at' = [at EXCEPT ![t] = "lock"]
    /\ call' = [call EXCEPT ![t].f = NoRequest, ![t].phase = "close"]
    /\ UNCHANGED <<op, slots, open>>

psa_close(t) ==
    /\ Inside(t)
    /\ call[t].phase = "close"
    /\ open' = open \ {call[t].conn}
    /\ Returns(t)
    /\ UNCHANGED <<op, slots>>

SecureReturn(t) ==
    \/ psa_call(t)
    \/ OperationStarts(t)
    \/ OperationEnds(t)
    \/ psa_connect(t)
    \/ ConnectedCall(t)
    \/ psa_close(t)

Next == \E t \in Tasks : Call(t) \/ Dispatch(t) \/ SecureReturn(t)

\* The secure side ends every request; a task that waits for the mutex is in
\* the queue of the kernel and gets it after the tasks before it.
Spec ==
    /\ Init /\ [][Next]_vars
    /\ \A t \in Tasks : WF_vars(SecureReturn(t)) /\ SF_vars(Dispatch(t))

(***************************************************************************)
(* Properties.                                                             *)
(***************************************************************************)

\* At most one task is on the secure side: a second veneer call while one is
\* under way is what the mutex of tfm_ns_interface_dispatch prevents.
OneVeneerAtATime == \A t, u \in Tasks : Inside(t) /\ Inside(u) => t = u

\* The structures of the callers and the slots of the secure side agree
\* whenever nobody is inside: every slot in use is that of exactly one
\* structure, of its kind, and every handle is that of a slot in use.  No
\* function leaves a structure with a handle whose slot is gone, to be used on
\* the operation of another task, or a slot nobody can release.
HandlesMatchSlots ==
    /\ \A o \in Operations : op[o].handle # 0 => slots[op[o].handle] = op[o].kind
    /\ \A s \in Slots : slots[s] # None =>
          Cardinality({o \in Operations : op[o].handle = s}) = 1

\* Every connection that is open is that of a function under way, and two
\* functions never share one.
ConnectionsAreHeld ==
    /\ open = {call[t].conn : t \in Tasks} \ {None}
    /\ \A t, u \in Tasks : t # u /\ call[t].conn # None =>
          call[t].conn # call[u].conn

\* The secure side sees the type and the vectors of the request, and every
\* length the caller asked for is taken from the vector of the buffer it is
\* the length of, whichever optional buffers were given.
RequestsAndLengthsIntact ==
    \A t \in Tasks : InCall(t) =>
       LET f == call[t].f
       IN  /\ Unpacked(Word(f)) = <<f.type, Len(f.ins), Len(f.outs)>>
           /\ \A l \in f.lengths : l[2] \in DOMAIN f.outs /\ f.outs[l[2]] = l[1]

\* What a task holds on the secure side is exactly what is allocated there:
\* operation slots through handles, connections through calls under way.
SlotsAreHeld == HandlesMatchSlots /\ ConnectionsAreHeld

\* The calls of two tasks do not disturb each other: one veneer at a time, and
\* the secure side unpacks the very request its caller packed.
CallsAreIsolated == OneVeneerAtATime /\ RequestsAndLengthsIntact

\* Every call returns to its caller.
CallsReturn == \A t \in Tasks : at[t] = "lock" ~> at[t] = "idle"
=============================================================================
