------------------------------ MODULE PsaProof ------------------------------
(***************************************************************************)
(* Proofs about the non-secure side of the PSA services, for any tasks,    *)
(* operation structures, slots and connections, and about the key          *)
(* attributes it hands over, for any identifiers, types, sizes, hashes and *)
(* lengths.                                                                *)
(***************************************************************************)
EXTENDS PsaClient, KeyAttributes, FiniteSetTheorems, TLAPS

WritesHandle(f) == \E i \in DOMAIN f.outs : f.outs[i] = Handle

(* What the code of every function has in common.                          *)
Shape(f) ==
    /\ f.type \in Nat /\ f.type < 65536
    /\ Len(f.ins) \in Nat /\ Len(f.ins) < 256
    /\ Len(f.outs) \in Nat /\ Len(f.outs) < 256
    /\ \A l \in f.lengths : l[2] \in DOMAIN f.outs /\ f.outs[l[2]] = l[1]
    /\ f.connects \in BOOLEAN
    /\ \/ f.kind = None /\ f.does = "nothing"
       \/ /\ f.kind \in Kinds /\ ~f.connects
          /\ \/ f.does = "update"
             \/ f.does \in {"setup", "clone", "finish", "abort"} /\ WritesHandle(f)

-----------------------------------------------------------------------------
(* The functions of the interface *)

LEMMA KeysShapes == \A f \in KeyFunctions : Shape(f)
<1> USE DEF Shape, WritesHandle, Handle, None, Kinds, Function, OneShot
<1>1. Shape(psa_open_key)
  BY DEF psa_open_key
<1>2. Shape(psa_close_key)
  BY DEF psa_close_key
<1>3. Shape(psa_import_key)
  BY DEF psa_import_key
<1>4. Shape(psa_destroy_key)
  BY DEF psa_destroy_key
<1>5. Shape(psa_get_key_attributes)
  BY DEF psa_get_key_attributes
<1>6. Shape(psa_reset_key_attributes)
  BY DEF psa_reset_key_attributes
<1>7. Shape(psa_export_key)
  BY DEF psa_export_key
<1>8. Shape(psa_export_public_key)
  BY DEF psa_export_public_key
<1>9. Shape(psa_purge_key)
  BY DEF psa_purge_key
<1>10. Shape(psa_copy_key)
  BY DEF psa_copy_key
<1>11. Shape(psa_generate_key)
  BY DEF psa_generate_key
<1>12. Shape(psa_generate_random)
  BY DEF psa_generate_random
<1> HIDE DEF Shape
<1>13. QED
  BY <1>1, <1>2, <1>3, <1>4, <1>5, <1>6, <1>7, <1>8, <1>9, <1>10, <1>11, <1>12 DEF KeyFunctions

LEMMA CipherShapes == \A f \in CipherFunctions : Shape(f)
<1> USE DEF Shape, WritesHandle, Handle, None, Kinds, Function, OneShot
<1>1. Shape(psa_cipher_generate_iv)
  BY DEF psa_cipher_generate_iv
<1>2. Shape(psa_cipher_set_iv)
  BY DEF psa_cipher_set_iv
<1>3. Shape(psa_cipher_encrypt_setup)
  BY DEF psa_cipher_encrypt_setup
<1>4. Shape(psa_cipher_decrypt_setup)
  BY DEF psa_cipher_decrypt_setup
<1>5. Shape(psa_cipher_update)
  BY DEF psa_cipher_update
<1>6. Shape(psa_cipher_abort)
  BY DEF psa_cipher_abort
<1>7. Shape(psa_cipher_finish)
  BY DEF psa_cipher_finish
<1>8. Shape(psa_cipher_encrypt)
  BY DEF psa_cipher_encrypt
<1>9. Shape(psa_cipher_decrypt)
  BY DEF psa_cipher_decrypt
<1> HIDE DEF Shape
<1>10. QED
  BY <1>1, <1>2, <1>3, <1>4, <1>5, <1>6, <1>7, <1>8, <1>9 DEF CipherFunctions

LEMMA HashShapes == \A f \in HashFunctions : Shape(f)
<1> USE DEF Shape, WritesHandle, Handle, None, Kinds, Function, OneShot
<1>1. Shape(psa_hash_setup)
  BY DEF psa_hash_setup
<1>2. Shape(psa_hash_update)
  BY DEF psa_hash_update
<1>3. Shape(psa_hash_finish)
  BY DEF psa_hash_finish
<1>4. Shape(psa_hash_verify)
  BY DEF psa_hash_verify
<1>5. Shape(psa_hash_abort)
  BY DEF psa_hash_abort
<1>6. Shape(psa_hash_clone)
  BY DEF psa_hash_clone
<1>7. Shape(psa_hash_compute)
  BY DEF psa_hash_compute
<1>8. Shape(psa_hash_compare)
  BY DEF psa_hash_compare
<1> HIDE DEF Shape
<1>9. QED
  BY <1>1, <1>2, <1>3, <1>4, <1>5, <1>6, <1>7, <1>8 DEF HashFunctions

LEMMA MacShapes == \A f \in MacFunctions : Shape(f)
<1> USE DEF Shape, WritesHandle, Handle, None, Kinds, Function, OneShot
<1>1. Shape(psa_mac_sign_setup)
  BY DEF psa_mac_sign_setup
<1>2. Shape(psa_mac_verify_setup)
  BY DEF psa_mac_verify_setup
<1>3. Shape(psa_mac_update)
  BY DEF psa_mac_update
<1>4. Shape(psa_mac_sign_finish)
  BY DEF psa_mac_sign_finish
<1>5. Shape(psa_mac_verify_finish)
  BY DEF psa_mac_verify_finish
<1>6. Shape(psa_mac_abort)
  BY DEF psa_mac_abort
<1>7. Shape(psa_mac_compute)
  BY DEF psa_mac_compute
<1>8. Shape(psa_mac_verify)
  BY DEF psa_mac_verify
<1> HIDE DEF Shape
<1>9. QED
  BY <1>1, <1>2, <1>3, <1>4, <1>5, <1>6, <1>7, <1>8 DEF MacFunctions

LEMMA AeadShapes == \A f \in AeadFunctions : Shape(f)
<1> USE DEF Shape, WritesHandle, Handle, None, Kinds, Function, OneShot, Optional
<1>1. Shape(psa_aead_encrypt_setup)
  BY DEF psa_aead_encrypt_setup
<1>2. Shape(psa_aead_decrypt_setup)
  BY DEF psa_aead_decrypt_setup
<1>3. Shape(psa_aead_generate_nonce)
  BY DEF psa_aead_generate_nonce
<1>4. Shape(psa_aead_set_nonce)
  BY DEF psa_aead_set_nonce
<1>5. Shape(psa_aead_set_lengths)
  BY DEF psa_aead_set_lengths
<1>6. Shape(psa_aead_abort)
  BY DEF psa_aead_abort
<1>7. \A g \in BOOLEAN : Shape(psa_aead_encrypt(g))
  BY DEF psa_aead_encrypt
<1>8. \A g \in BOOLEAN : Shape(psa_aead_decrypt(g))
  BY DEF psa_aead_decrypt
<1>9. \A g \in BOOLEAN : Shape(psa_aead_update_ad(g))
  BY DEF psa_aead_update_ad
<1>10. \A g \in BOOLEAN : Shape(psa_aead_update(g))
  BY DEF psa_aead_update
<1>11. \A g \in BOOLEAN : Shape(psa_aead_finish(g))
  BY DEF psa_aead_finish
<1>12. \A g \in BOOLEAN : Shape(psa_aead_verify(g))
  BY DEF psa_aead_verify
<1> HIDE DEF Shape
<1>13. QED
  BY <1>1, <1>2, <1>3, <1>4, <1>5, <1>6, <1>7, <1>8, <1>9, <1>10, <1>11, <1>12 DEF AeadFunctions

LEMMA AsymmetricShapes == \A f \in AsymmetricFunctions : Shape(f)
<1> USE DEF Shape, WritesHandle, Handle, None, Kinds, Function, OneShot, Optional
<1>1. Shape(psa_sign_message)
  BY DEF psa_sign_message
<1>2. Shape(psa_verify_message)
  BY DEF psa_verify_message
<1>3. Shape(psa_sign_hash)
  BY DEF psa_sign_hash
<1>4. Shape(psa_verify_hash)
  BY DEF psa_verify_hash
<1>5. Shape(psa_raw_key_agreement)
  BY DEF psa_raw_key_agreement
<1>6. \A g \in BOOLEAN : Shape(psa_asymmetric_encrypt(g))
  BY DEF psa_asymmetric_encrypt
<1>7. \A g \in BOOLEAN : Shape(psa_asymmetric_decrypt(g))
  BY DEF psa_asymmetric_decrypt
<1> HIDE DEF Shape
<1>8. QED
  BY <1>1, <1>2, <1>3, <1>4, <1>5, <1>6, <1>7 DEF AsymmetricFunctions

LEMMA DerivationShapes == \A f \in DerivationFunctions : Shape(f)
<1> USE DEF Shape, WritesHandle, Handle, None, Kinds, Function, OneShot, Derivation
<1>1. Shape(psa_key_derivation_setup)
  BY DEF psa_key_derivation_setup
<1>2. Shape(psa_key_derivation_get_capacity)
  BY DEF psa_key_derivation_get_capacity
<1>3. Shape(psa_key_derivation_set_capacity)
  BY DEF psa_key_derivation_set_capacity
<1>4. Shape(psa_key_derivation_input_bytes)
  BY DEF psa_key_derivation_input_bytes
<1>5. Shape(psa_key_derivation_input_key)
  BY DEF psa_key_derivation_input_key
<1>6. Shape(psa_key_derivation_key_agreement)
  BY DEF psa_key_derivation_key_agreement
<1>7. Shape(psa_key_derivation_output_bytes)
  BY DEF psa_key_derivation_output_bytes
<1>8. Shape(psa_key_derivation_output_key)
  BY DEF psa_key_derivation_output_key
<1>9. Shape(psa_key_derivation_abort)
  BY DEF psa_key_derivation_abort
<1> HIDE DEF Shape
<1>10. QED
  BY <1>1, <1>2, <1>3, <1>4, <1>5, <1>6, <1>7, <1>8, <1>9 DEF DerivationFunctions

LEMMA StorageShapes == \A f \in StorageFunctions : Shape(f)
<1> USE DEF Shape, WritesHandle, Handle, None, Kinds, Function, OneShot, Service
<1>1. Shape(psa_its_set)
  BY DEF psa_its_set
<1>2. Shape(psa_its_get)
  BY DEF psa_its_get
<1>3. Shape(psa_its_get_info)
  BY DEF psa_its_get_info
<1>4. Shape(psa_its_remove)
  BY DEF psa_its_remove
<1>5. Shape(psa_ps_set)
  BY DEF psa_ps_set
<1>6. Shape(psa_ps_get)
  BY DEF psa_ps_get
<1>7. Shape(psa_ps_get_info)
  BY DEF psa_ps_get_info
<1>8. Shape(psa_ps_remove)
  BY DEF psa_ps_remove
<1>9. Shape(psa_ps_get_support)
  BY DEF psa_ps_get_support
<1>10. Shape(psa_initial_attest_get_token)
  BY DEF psa_initial_attest_get_token
<1>11. Shape(psa_initial_attest_get_token_size)
  BY DEF psa_initial_attest_get_token_size
<1> HIDE DEF Shape
<1>12. QED
  BY <1>1, <1>2, <1>3, <1>4, <1>5, <1>6, <1>7, <1>8, <1>9, <1>10, <1>11 DEF StorageFunctions

LEMMA ConnectedShapes == \A f \in ConnectedFunctions : Shape(f)
<1> USE DEF Shape, WritesHandle, Handle, None, Kinds, Function, OneShot, Connected, Optional
<1>1. Shape(psa_fwu_write)
  BY DEF psa_fwu_write
<1>2. Shape(psa_fwu_install)
  BY DEF psa_fwu_install
<1>3. Shape(psa_fwu_abort)
  BY DEF psa_fwu_abort
<1>4. Shape(psa_fwu_query)
  BY DEF psa_fwu_query
<1>5. Shape(psa_fwu_request_reboot)
  BY DEF psa_fwu_request_reboot
<1>6. Shape(psa_fwu_accept)
  BY DEF psa_fwu_accept
<1>7. Shape(tfm_platform_system_reset)
  BY DEF tfm_platform_system_reset
<1>8. \A i, o \in BOOLEAN : Shape(tfm_platform_ioctl(i, o))
  BY DEF tfm_platform_ioctl
<1> HIDE DEF Shape
<1>9. QED
  BY <1>1, <1>2, <1>3, <1>4, <1>5, <1>6, <1>7, <1>8 DEF ConnectedFunctions

LEMMA FunctionShapes == \A f \in Functions : Shape(f)
  BY KeysShapes, CipherShapes, HashShapes, MacShapes, AeadShapes,
     AsymmetricShapes, DerivationShapes, StorageShapes, ConnectedShapes DEF Functions

LEMMA NoRequestShape == Shape(NoRequest)
  BY DEF NoRequest, OneShot, Function, Shape, None, Kinds

(* The word psa_call packs, for what fits its fields.                      *)
LEMMA Bytes == 2 ^ 8 = 256 /\ 2 ^ 16 = 65536
  BY SMT

LEMMA FieldFits == \A n \in Nat : (n < 65536 => n % 65536 = n) /\ (n < 256 => n % 256 = n)
  BY Z3T(10)

LEMMA LowByte ==
    ASSUME NEW q \in Nat, NEW r \in Nat, r < 256, NEW x \in Nat, x = q * 256 + r
    PROVE  x % 256 = r /\ x \div 256 = q
<1>1. x \div 256 = q
  BY Z3T(10)
<1>2. x % 256 = r
  BY Z3T(10)
<1>3. QED
  BY <1>1, <1>2, Z3T(10)

LEMMA FieldsUnpack ==
    ASSUME NEW t \in Nat, NEW i \in Nat, NEW o \in Nat, t < 65536, i < 256, o < 256
    PROVE  Unpacked(PARAM_PACK(t, i, o)) = <<t, i, o>>
<1>1. PICK q \in Nat : q = t * 256 + i
  BY Z3T(10)
<1>2. PICK w \in Nat : w = q * 256 + o
  BY Z3T(10)
<1>3. PARAM_PACK(t, i, o) = w
  <2>1. t % 65536 = t /\ i % 256 = i /\ o % 256 = o
    BY FieldFits, Z3T(10)
  <2>2. t * 65536 + i * 256 + o = w
    BY <1>1, <1>2, Z3T(10)
  <2>3. QED
    BY <2>1, <2>2, Bytes, Z3T(10) DEF PARAM_PACK
<1>4. w % 256 = o /\ w \div 256 = q
  BY <1>2, LowByte, Z3T(10)
<1>5. q % 256 = i
  BY <1>1, LowByte, Z3T(10)
<1>6. w \div 65536 = t
  BY <1>1, <1>2, Z3T(10)
<1>7. QED
  BY <1>3, <1>4, <1>5, <1>6, Bytes, Z3T(10) DEF Unpacked

LEMMA WordUnpacks ==
    ASSUME NEW f, Shape(f)
    PROVE  Unpacked(Word(f)) = <<f.type, Len(f.ins), Len(f.outs)>>
<1>1. /\ f.type \in Nat /\ f.type < 65536
      /\ Len(f.ins) \in Nat /\ Len(f.ins) < 256
      /\ Len(f.outs) \in Nat /\ Len(f.outs) < 256
  BY SMT DEF Shape
<1> DEFINE t == f.type
           i == Len(f.ins)
           o == Len(f.outs)
<1>2. t \in Nat /\ i \in Nat /\ o \in Nat /\ t < 65536 /\ i < 256 /\ o < 256
  BY <1>1, SMT
<1> HIDE DEF t, i, o
<1>3. Unpacked(PARAM_PACK(t, i, o)) = <<t, i, o>>
  BY <1>2, FieldsUnpack, SMT
<1>4. QED
  BY <1>3, SMT DEF Word, t, i, o

-----------------------------------------------------------------------------
(* The invariant *)

Calls == [f : Functions \cup {NoRequest}, phase : Phases \cup {None},
          conn : Connections \cup {None}, op : Operations \cup {None}]

Typed ==
    /\ at \in [Tasks -> {"idle", "lock", "secure"}]
    /\ call \in [Tasks -> Calls]
    /\ op \in [Operations -> [handle : Slots \cup {0}, kind : Kinds \cup {None}]]
    /\ slots \in [Slots -> Kinds \cup {None}]
    /\ open \subseteq Connections

(* What a task has asked for by the time it is inside: a request on an     *)
(* operation structure is on one of its own that allows it, and only a     *)
(* function that connects has a connection.                                *)
RequestIsLegal(t) ==
    /\ call[t].phase \in {None, "connect"} => call[t].conn = None
    /\ InCall(t) /\ ~call[t].f.connects => call[t].conn = None
    /\ InCall(t) /\ call[t].f.kind # None =>
          call[t].op \in Operations /\ LegalFor(call[t].f, call[t].op)

(* Handles and slots, without counting.                                    *)
HandlesAreExact ==
    /\ \A o \in Operations : op[o].handle # 0 =>
          slots[op[o].handle] = op[o].kind /\ op[o].kind \in Kinds
    /\ \A o, p \in Operations : op[o].handle = op[p].handle /\ op[o].handle # 0 => o = p
    /\ \A s \in Slots : slots[s] # None => \E o \in Operations : op[o].handle = s

(* The inductive invariant.                                                *)
PsaInv ==
    /\ Typed
    /\ OneVeneerAtATime
    /\ \A t \in Tasks : RequestIsLegal(t)
    /\ HandlesAreExact
    /\ ConnectionsAreHeld

LEMMA PsaInit == Init => PsaInv
<1> SUFFICES ASSUME Init PROVE PsaInv
  OBVIOUS
<1> USE PsaAssumption DEF Init
<1>1. NoCall \in Calls
  BY DEF NoCall, Calls
<1>2. Typed
  BY <1>1 DEF Typed, NoOp
<1>3. OneVeneerAtATime
  BY DEF OneVeneerAtATime, Inside
<1>4. \A t \in Tasks : RequestIsLegal(t)
  BY DEF RequestIsLegal, InCall, Inside, NoCall
<1>5. HandlesAreExact
  BY DEF HandlesAreExact, NoOp
<1>6. ConnectionsAreHeld
  BY DEF ConnectionsAreHeld, NoCall
<1>7. QED
  BY <1>2, <1>3, <1>4, <1>5, <1>6 DEF PsaInv

(* A function whose step changes an operation structure is not one that    *)
(* connects, writes the handle, and is of a kind.                          *)
LEMMA Acts ==
    ASSUME Typed, NEW t \in Tasks,
           \/ call[t].f.does \in {"setup", "clone", "finish", "abort"}
           \/ call[t].f.does = "update" /\ Handle \in {call[t].f.outs[i] :
                                                  i \in DOMAIN call[t].f.outs}
    PROVE  call[t].f.kind \in Kinds /\ ~call[t].f.connects /\ WritesHandle(call[t].f)
<1>1. Shape(call[t].f)
  BY FunctionShapes, NoRequestShape DEF Typed, Calls
<1>2. QED
  BY <1>1 DEF Shape, WritesHandle

(* The step of one task leaves the calls of the others.                    *)
Alone(t) == \A u \in Tasks : u # t => at'[u] = at[u] /\ call'[u] = call[u]

LEMMA OthersLegal ==
    ASSUME PsaInv, NEW t \in Tasks, Alone(t), op' = op \/ Inside(t), RequestIsLegal(t)'
    PROVE  \A u \in Tasks : RequestIsLegal(u)'
<1> SUFFICES ASSUME NEW u \in Tasks, u # t PROVE RequestIsLegal(u)'
  OBVIOUS
<1>1. RequestIsLegal(u) /\ at'[u] = at[u] /\ call'[u] = call[u]
  BY DEF PsaInv, Alone
<1>2. CASE op' = op
  BY <1>1, <1>2 DEF RequestIsLegal, InCall, Inside, LegalFor
<1>3. CASE Inside(t)
  <2>1. ~Inside(u)
    BY <1>3 DEF PsaInv, OneVeneerAtATime
  <2>2. QED
    BY <1>1, <2>1 DEF RequestIsLegal, InCall, Inside
<1>4. QED
  BY <1>2, <1>3

LEMMA VeneerLeft ==
    ASSUME PsaInv, NEW t \in Tasks, Alone(t), at'[t] # "secure"
    PROVE  OneVeneerAtATime'
  BY DEF PsaInv, OneVeneerAtATime, Inside, Alone

LEMMA SameConnections ==
    ASSUME PsaInv, NEW t \in Tasks, Alone(t), call'[t].conn = call[t].conn, open' = open
    PROVE  ConnectionsAreHeld'
<1>1. \A u \in Tasks : call'[u].conn = call[u].conn
  BY DEF Alone
<1>2. QED
  BY <1>1 DEF PsaInv, ConnectionsAreHeld

(* What returning to the caller does.                                      *)
LEMMA Returned ==
    ASSUME Typed, NEW t \in Tasks, Returns(t)
    PROVE  /\ Alone(t)
           /\ at'[t] = "idle" /\ call'[t].conn = None
           /\ at' \in [Tasks -> {"idle", "lock", "secure"}]
           /\ call' \in [Tasks -> Calls]
           /\ RequestIsLegal(t)'
<1>1. NoCall \in Calls /\ NoCall.conn = None
  BY DEF NoCall, Calls
<1>2. at'[t] = "idle" /\ call'[t] = NoCall /\ Alone(t)
  BY DEF Returns, Typed, Alone
<1>3. at' \in [Tasks -> {"idle", "lock", "secure"}] /\ call' \in [Tasks -> Calls]
  BY <1>1 DEF Returns, Typed
<1>4. RequestIsLegal(t)'
  BY <1>1, <1>2 DEF RequestIsLegal, InCall, Inside
<1>5. QED
  BY <1>1, <1>2, <1>3, <1>4

(* A call that ends and leaves operations and connections alone.           *)
LEMMA PlainReturn ==
    ASSUME PsaInv, NEW t \in Tasks, Returns(t), call[t].conn = None,
           UNCHANGED <<op, slots, open>>
    PROVE  PsaInv'
<1>1. Typed
  BY DEF PsaInv
<1>2. Typed'
  BY <1>1, Returned DEF Typed
<1>3. OneVeneerAtATime' /\ ConnectionsAreHeld'
  BY <1>1, Returned, VeneerLeft, SameConnections
<1>4. \A u \in Tasks : RequestIsLegal(u)'
  BY <1>1, Returned, OthersLegal
<1>5. HandlesAreExact'
  BY DEF PsaInv, HandlesAreExact
<1>6. QED
  BY <1>2, <1>3, <1>4, <1>5 DEF PsaInv

(* The steps of a call, one lemma each.                                    *)
LEMMA CallStep ==
    ASSUME PsaInv, NEW t \in Tasks, Call(t)
    PROVE  PsaInv'
<1>1. Typed'
  BY DEF PsaInv, Typed, Call
<1>2. Alone(t) /\ at'[t] = "lock" /\ call' = call /\ op' = op /\ open' = open
  BY DEF PsaInv, Typed, Call, Alone
<1>3. OneVeneerAtATime' /\ ConnectionsAreHeld'
  BY <1>2, VeneerLeft, SameConnections
<1>4. RequestIsLegal(t)'
  BY <1>2 DEF PsaInv, RequestIsLegal, InCall, Inside
<1>5. \A u \in Tasks : RequestIsLegal(u)'
  BY <1>2, <1>4, OthersLegal
<1>6. HandlesAreExact'
  BY DEF PsaInv, HandlesAreExact, Call
<1>7. QED
  BY <1>1, <1>3, <1>5, <1>6 DEF PsaInv

(* The mutex lets one task in, with a request that its operation structure *)
(* allows.                                                                 *)
LEMMA DispatchStep ==
    ASSUME PsaInv, NEW t \in Tasks, Dispatch(t)
    PROVE  PsaInv'
<1>1. Typed /\ MutexFree /\ call[t] \in Calls
  BY DEF PsaInv, Typed, Dispatch
<1>2. /\ at' \in [Tasks -> {"idle", "lock", "secure"}]
      /\ at'[t] = "secure"
      /\ \A u \in Tasks : u # t => at'[u] = at[u]
      /\ op' = op /\ slots' = slots /\ open' = open
  BY <1>1 DEF Dispatch, Typed
<1>3. /\ call' \in [Tasks -> Calls]
      /\ \A u \in Tasks : u # t => call'[u] = call[u]
      /\ call'[t].conn = call[t].conn
      /\ RequestIsLegal(t)'
  <2>1. call \in [Tasks -> Calls] /\ RequestIsLegal(t)
    BY DEF PsaInv, Typed
  <2>2. CASE /\ call[t].phase = None
             /\ \E f \in Functions :
                   /\ f.kind = None /\ ~f.connects
                   /\ call' = [call EXCEPT ![t].f = f, ![t].phase = "call"]
    <3>1. PICK f \in Functions :
             /\ f.kind = None /\ ~f.connects
             /\ call' = [call EXCEPT ![t].f = f, ![t].phase = "call"]
      BY <2>2
    <3>2. call'[t] = [call[t] EXCEPT !.f = f, !.phase = "call"]
      BY <2>1, <3>1
    <3>3. /\ call'[t] \in Calls /\ call'[t].f = f /\ call'[t].phase = "call"
          /\ call'[t].conn = call[t].conn
      BY <1>1, <3>2 DEF Calls, Phases
    <3>4. call' \in [Tasks -> Calls] /\ \A u \in Tasks : u # t => call'[u] = call[u]
      BY <2>1, <3>1, <3>3
    <3>5. QED
      BY <2>1, <2>2, <3>1, <3>3, <3>4 DEF RequestIsLegal, None
  <2>3. CASE /\ call[t].phase = None
             /\ \E f \in Functions, o \in Operations :
                   /\ f.kind # None
                   /\ UserOf[o] = t
                   /\ LegalFor(f, o)
                   /\ call' = [call EXCEPT ![t].f = f, ![t].phase = "call", ![t].op = o]
    <3>1. PICK f \in Functions, o \in Operations :
             /\ f.kind # None
             /\ LegalFor(f, o)
             /\ call' = [call EXCEPT ![t].f = f, ![t].phase = "call", ![t].op = o]
      BY <2>3
    <3>2. call'[t] = [call[t] EXCEPT !.f = f, !.phase = "call", !.op = o]
      BY <2>1, <3>1
    <3>3. /\ call'[t] \in Calls /\ call'[t].f = f /\ call'[t].phase = "call"
          /\ call'[t].op = o /\ call'[t].conn = call[t].conn
      BY <1>1, <3>2 DEF Calls, Phases
    <3>4. call' \in [Tasks -> Calls] /\ \A u \in Tasks : u # t => call'[u] = call[u]
      BY <2>1, <3>1, <3>3
    <3>5. LegalFor(f, o)'
      BY <1>2, <3>1 DEF LegalFor
    <3>6. QED
      BY <2>1, <2>3, <3>3, <3>4, <3>5 DEF RequestIsLegal, None, LegalFor
  <2>4. CASE /\ call[t].phase = None
             /\ call' = [call EXCEPT ![t].phase = "connect"]
    <3>1. call'[t] = [call[t] EXCEPT !.phase = "connect"]
      BY <2>1, <2>4
    <3>2. /\ call'[t] \in Calls /\ call'[t].phase = "connect"
          /\ call'[t].conn = call[t].conn
      BY <1>1, <3>1 DEF Calls, Phases
    <3>3. call' \in [Tasks -> Calls] /\ \A u \in Tasks : u # t => call'[u] = call[u]
      BY <2>1, <2>4, <3>2
    <3>4. QED
      BY <2>1, <2>4, <3>2, <3>3 DEF RequestIsLegal, InCall, None
  <2>5. CASE /\ call[t].phase = "call"
             /\ \E f \in Functions :
                   /\ f.connects
                   /\ call' = [call EXCEPT ![t].f = f]
    <3>1. PICK f \in Functions : f.connects /\ call' = [call EXCEPT ![t].f = f]
      BY <2>5
    <3>2. call'[t] = [call[t] EXCEPT !.f = f]
      BY <2>1, <3>1
    <3>3. /\ call'[t] \in Calls /\ call'[t].f = f /\ call'[t].phase = "call"
          /\ call'[t].conn = call[t].conn
      BY <1>1, <2>5, <3>2 DEF Calls, Phases
    <3>4. call' \in [Tasks -> Calls] /\ \A u \in Tasks : u # t => call'[u] = call[u]
      BY <2>1, <3>1, <3>3
    <3>5. f.kind = None
      BY <3>1, FunctionShapes DEF Shape
    <3>6. QED
      BY <3>1, <3>3, <3>4, <3>5 DEF RequestIsLegal, None
  <2>6. CASE call[t].phase = "close" /\ UNCHANGED call
    BY <2>1, <2>6 DEF RequestIsLegal, InCall, None
  <2>7. QED
    BY <2>2, <2>3, <2>4, <2>5, <2>6 DEF Dispatch
<1>4. Alone(t)
  BY <1>2, <1>3 DEF Alone
<1>5. Typed'
  BY <1>1, <1>2, <1>3 DEF Typed
<1>6. OneVeneerAtATime'
  BY <1>1, <1>2 DEF OneVeneerAtATime, MutexFree, Inside
<1>7. \A u \in Tasks : RequestIsLegal(u)'
  BY <1>2, <1>3, <1>4, OthersLegal
<1>8. ConnectionsAreHeld'
  BY <1>2, <1>3, <1>4, SameConnections
<1>9. HandlesAreExact'
  BY <1>2 DEF PsaInv, HandlesAreExact
<1>10. QED
  BY <1>5, <1>6, <1>7, <1>8, <1>9 DEF PsaInv

LEMMA PsaCallStep ==
    ASSUME PsaInv, NEW t \in Tasks, psa_call(t)
    PROVE  PsaInv'
<1>1. call[t].conn = None
  BY DEF PsaInv, RequestIsLegal, psa_call
<1>2. QED
  BY <1>1, PlainReturn DEF psa_call

(* A request that changes an operation returns, with the handles and slots *)
(* still exact.                                                            *)
LEMMA ActingReturn ==
    ASSUME PsaInv, NEW t \in Tasks, InCall(t), Returns(t), UNCHANGED open,
           \/ call[t].f.does \in {"setup", "clone", "finish", "abort"}
           \/ call[t].f.does = "update" /\ Handle \in {call[t].f.outs[i] :
                                                  i \in DOMAIN call[t].f.outs},
           op' \in [Operations -> [handle : Slots \cup {0}, kind : Kinds \cup {None}]],
           slots' \in [Slots -> Kinds \cup {None}],
           HandlesAreExact'
    PROVE  PsaInv'
<1>1. Typed /\ Inside(t)
  BY DEF PsaInv, InCall
<1>2. ~call[t].f.connects
  BY <1>1, Acts
<1>3. call[t].conn = None
  BY <1>2 DEF PsaInv, RequestIsLegal
<1>4. Typed'
  BY <1>1, Returned DEF Typed
<1>5. OneVeneerAtATime' /\ ConnectionsAreHeld'
  BY <1>1, <1>3, Returned, VeneerLeft, SameConnections
<1>6. \A u \in Tasks : RequestIsLegal(u)'
  BY <1>1, Returned, OthersLegal
<1>7. QED
  BY <1>4, <1>5, <1>6 DEF PsaInv

(* A structure not in use gets the handle of a slot not in use.            *)
LEMMA SlotTaken ==
    ASSUME Typed, HandlesAreExact, NEW s \in Slots, slots[s] = None,
           NEW o \in Operations, op[o].handle = 0, NEW k \in Kinds,
           slots' = [slots EXCEPT ![s] = k],
           op' = [op EXCEPT ![o] = [handle |-> s, kind |-> k]]
    PROVE  /\ op' \in [Operations -> [handle : Slots \cup {0}, kind : Kinds \cup {None}]]
           /\ slots' \in [Slots -> Kinds \cup {None}]
           /\ HandlesAreExact'
<1>1. s # 0 /\ k # None
  BY PsaAssumption DEF Kinds, None
<1>2. op'[o].handle = s /\ op'[o].kind = k /\ slots'[s] = k
  BY DEF Typed
<1>3. \A p \in Operations : p # o => op'[p] = op[p]
  BY DEF Typed
<1>4. \A r \in Slots : r # s => slots'[r] = slots[r]
  BY DEF Typed
<1>5. \A p \in Operations : op[p].handle \in Slots \cup {0}
  BY DEF Typed
<1>6. \A p \in Operations : op[p].handle # s
  <2>1. \A k1 \in Kinds : k1 # None
    BY DEF Kinds, None
  <2>2. QED
    BY <1>1, <2>1 DEF HandlesAreExact
<1>7. \A p \in Operations : op'[p].handle # 0 =>
         slots'[op'[p].handle] = op'[p].kind /\ op'[p].kind \in Kinds
  BY <1>2, <1>3, <1>4, <1>5, <1>6 DEF HandlesAreExact
<1>8. \A p, q \in Operations :
         op'[p].handle = op'[q].handle /\ op'[p].handle # 0 => p = q
  BY <1>2, <1>3, <1>6 DEF HandlesAreExact
<1>9. \A r \in Slots : slots'[r] # None => \E p \in Operations : op'[p].handle = r
  <2>1. SUFFICES ASSUME NEW r \in Slots, slots'[r] # None, r # s
                 PROVE  \E p \in Operations : op'[p].handle = r
    BY <1>2
  <2>2. PICK p \in Operations : op[p].handle = r
    BY <1>4, <2>1 DEF HandlesAreExact
  <2>3. p # o
    BY <2>2, PsaAssumption
  <2>4. QED
    BY <1>3, <2>2, <2>3
<1>10. op' \in [Operations -> [handle : Slots \cup {0}, kind : Kinds \cup {None}]]
  BY DEF Typed
<1>11. slots' \in [Slots -> Kinds \cup {None}]
  BY DEF Typed
<1>12. QED
  BY <1>7, <1>8, <1>9, <1>10, <1>11 DEF HandlesAreExact

LEMMA StartStep ==
    ASSUME PsaInv, NEW t \in Tasks, OperationStarts(t)
    PROVE  PsaInv'
<1>1. Typed /\ HandlesAreExact /\ InCall(t) /\ Returns(t) /\ open' = open
  BY DEF PsaInv, OperationStarts
<1>2. PICK s \in Slots :
         /\ slots[s] = None
         /\ slots' = [slots EXCEPT ![s] = call[t].f.kind]
         /\ \/ /\ call[t].f.does = "setup"
               /\ WriteHandle(call[t].f, call[t].op, s, call[t].f.kind)
            \/ /\ call[t].f.does = "clone"
               /\ \E target \in Operations :
                     /\ UserOf[target] = t
                     /\ op[target].handle = 0
                     /\ WriteHandle(call[t].f, target, s, call[t].f.kind)
  BY DEF OperationStarts
<1>3. call[t].f.kind \in Kinds /\ WritesHandle(call[t].f)
  BY <1>1, <1>2, Acts
<1>4. PICK o \in Operations :
         op[o].handle = 0 /\ WriteHandle(call[t].f, o, s, call[t].f.kind)
  <2>1. CASE call[t].f.does = "setup" /\ WriteHandle(call[t].f, call[t].op, s, call[t].f.kind)
    <3>1. call[t].f.kind # None
      BY <1>3 DEF Kinds, None
    <3>2. call[t].op \in Operations /\ LegalFor(call[t].f, call[t].op)
      BY <1>1, <3>1 DEF PsaInv, RequestIsLegal
    <3>3. op[call[t].op].handle = 0
      BY <2>1, <3>2 DEF LegalFor
    <3>4. QED
      BY <2>1, <3>2, <3>3
  <2>2. CASE \E target \in Operations :
                /\ op[target].handle = 0
                /\ WriteHandle(call[t].f, target, s, call[t].f.kind)
    BY <2>2
  <2>3. QED
    BY <1>2, <2>1, <2>2
<1>5. op' = [op EXCEPT ![o] = [handle |-> s, kind |-> call[t].f.kind]]
  BY <1>3, <1>4 DEF WriteHandle, WritesHandle
<1>6. /\ op' \in [Operations -> [handle : Slots \cup {0}, kind : Kinds \cup {None}]]
      /\ slots' \in [Slots -> Kinds \cup {None}]
      /\ HandlesAreExact'
  BY <1>1, <1>2, <1>3, <1>4, <1>5, SlotTaken
<1>7. QED
  BY <1>1, <1>2, <1>6, ActingReturn

(* The structure of an operation loses its handle as the slot is freed.    *)
LEMMA SlotFreed ==
    ASSUME Typed, HandlesAreExact, NEW o \in Operations, op[o].handle # 0,
           slots' = [slots EXCEPT ![op[o].handle] = None],
           op' = [op EXCEPT ![o] = [handle |-> 0, kind |-> None]]
    PROVE  /\ op' \in [Operations -> [handle : Slots \cup {0}, kind : Kinds \cup {None}]]
           /\ slots' \in [Slots -> Kinds \cup {None}]
           /\ HandlesAreExact'
<1> DEFINE s == op[o].handle
<1>1. s \in Slots
  BY DEF Typed
<1>2. op'[o].handle = 0 /\ slots'[s] = None
  BY <1>1 DEF Typed
<1>3. \A p \in Operations : p # o => op'[p] = op[p] /\ op'[p].handle # s
  <2>1. \A p \in Operations : p # o => op'[p] = op[p]
    BY DEF Typed
  <2>2. \A p \in Operations : p # o => op[p].handle # s
    BY DEF HandlesAreExact
  <2>3. QED
    BY <2>1, <2>2
<1>4. \A r \in Slots : r # s => slots'[r] = slots[r]
  BY <1>1 DEF Typed
<1>5. op' \in [Operations -> [handle : Slots \cup {0}, kind : Kinds \cup {None}]]
  BY DEF Typed
<1>6. slots' \in [Slots -> Kinds \cup {None}]
  BY <1>1 DEF Typed
<1> HIDE DEF s
<1>7. \A p \in Operations : op'[p].handle # 0 =>
         slots'[op'[p].handle] = op'[p].kind /\ op'[p].kind \in Kinds
  <2>1. SUFFICES ASSUME NEW p \in Operations, op'[p].handle # 0
                 PROVE  slots'[op'[p].handle] = op'[p].kind /\ op'[p].kind \in Kinds
    OBVIOUS
  <2>2. p # o /\ op'[p] = op[p] /\ op[p].handle # s
    BY <1>2, <1>3, <2>1
  <2>3. op[p].handle \in Slots
    BY <2>1, <2>2 DEF Typed
  <2>4. QED
    BY <1>4, <2>1, <2>2, <2>3 DEF HandlesAreExact
<1>8. \A p, q \in Operations :
         op'[p].handle = op'[q].handle /\ op'[p].handle # 0 => p = q
  BY <1>2, <1>3 DEF HandlesAreExact
<1>9. \A r \in Slots : slots'[r] # None => \E p \in Operations : op'[p].handle = r
  <2>1. SUFFICES ASSUME NEW r \in Slots, slots'[r] # None
                 PROVE  \E p \in Operations : op'[p].handle = r
    OBVIOUS
  <2>2. r # s
    BY <1>2, <2>1
  <2>3. PICK p \in Operations : op[p].handle = r
    BY <1>4, <2>1, <2>2 DEF HandlesAreExact
  <2>4. p # o
    BY <2>2, <2>3 DEF s
  <2>5. QED
    BY <1>3, <2>3, <2>4
<1>10. QED
  BY <1>5, <1>6, <1>7, <1>8, <1>9 DEF HandlesAreExact

LEMMA EndStep ==
    ASSUME PsaInv, NEW t \in Tasks, OperationEnds(t)
    PROVE  PsaInv'
<1> DEFINE o == call[t].op
<1>1. /\ Typed /\ HandlesAreExact /\ InCall(t) /\ Returns(t) /\ open' = open
      /\ slots' = [slots EXCEPT ![op[o].handle] = None]
      /\ op[o].handle # 0
      /\ WriteHandle(call[t].f, o, 0, None)
  BY DEF PsaInv, OperationEnds
<1>2. \/ call[t].f.does \in {"setup", "clone", "finish", "abort"}
      \/ call[t].f.does = "update" /\ Handle \in {call[t].f.outs[i] :
                                             i \in DOMAIN call[t].f.outs}
  BY DEF OperationEnds
<1>3. call[t].f.kind \in Kinds /\ WritesHandle(call[t].f)
  BY <1>1, <1>2, Acts
<1>4. o \in Operations
  <2>1. call[t].f.kind # None
    BY <1>3 DEF Kinds, None
  <2>2. QED
    BY <1>1, <2>1 DEF PsaInv, RequestIsLegal
<1>5. op' = [op EXCEPT ![o] = [handle |-> 0, kind |-> None]]
  BY <1>1, <1>3 DEF WriteHandle, WritesHandle
<1> HIDE DEF o
<1>6. /\ op' \in [Operations -> [handle : Slots \cup {0}, kind : Kinds \cup {None}]]
      /\ slots' \in [Slots -> Kinds \cup {None}]
      /\ HandlesAreExact'
  BY <1>1, <1>4, <1>5, SlotFreed
<1>7. QED
  BY <1>1, <1>2, <1>6, ActingReturn

(* A new connection is that of the task it was opened for alone.           *)
LEMMA ConnectStep ==
    ASSUME PsaInv, NEW t \in Tasks, psa_connect(t)
    PROVE  PsaInv'
<1>1. /\ Typed /\ call[t] \in Calls /\ Inside(t) /\ call[t].conn = None
      /\ UNCHANGED <<op, slots>>
  BY DEF PsaInv, Typed, RequestIsLegal, psa_connect
<1>2. CASE Returns(t) /\ UNCHANGED open
  BY <1>1, <1>2, PlainReturn
<1>3. CASE \E c \in Connections \ open :
             /\ open' = open \cup {c}
             /\ at' = [at EXCEPT ![t] = "lock"]
             /\ call' = [call EXCEPT ![t].conn = c, ![t].phase = "call"]
  <2>1. PICK c \in Connections \ open :
             /\ open' = open \cup {c}
             /\ at' = [at EXCEPT ![t] = "lock"]
             /\ call' = [call EXCEPT ![t].conn = c, ![t].phase = "call"]
    BY <1>3
  <2>2. call'[t] = [call[t] EXCEPT !.conn = c, !.phase = "call"]
    BY <1>1, <2>1 DEF Typed
  <2>3. call'[t] \in Calls /\ call'[t].conn = c /\ call'[t].phase = "call"
    BY <1>1, <2>2 DEF Calls, Phases
  <2>4. call' \in [Tasks -> Calls] /\ Alone(t) /\ at'[t] = "lock"
        /\ at' \in [Tasks -> {"idle", "lock", "secure"}]
    BY <1>1, <2>1, <2>3 DEF Typed, Alone
  <2>5. Typed'
    BY <1>1, <2>1, <2>4 DEF Typed
  <2>6. OneVeneerAtATime'
    BY <2>4, VeneerLeft
  <2>7. RequestIsLegal(t)'
    BY <2>3, <2>4 DEF RequestIsLegal, InCall, Inside, None
  <2>8. \A u \in Tasks : RequestIsLegal(u)'
    BY <1>1, <2>4, <2>7, OthersLegal
  <2>9. c # None
    BY PsaAssumption DEF None
  <2>10. \A u \in Tasks : u # t => call'[u].conn = call[u].conn /\ call[u].conn # c
    BY <2>1, <2>4, <2>9 DEF PsaInv, ConnectionsAreHeld, Alone
  <2>11. open' = {call'[u].conn : u \in Tasks} \ {None}
    <3>1. open = {call[u].conn : u \in Tasks} \ {None}
      BY DEF PsaInv, ConnectionsAreHeld
    <3>2. \A d \in open' : d # None /\ \E u \in Tasks : call'[u].conn = d
      <4>1. \A d \in open : \E u \in Tasks : call[u].conn = d /\ u # t
        BY <1>1, <3>1
      <4>2. QED
        BY <2>1, <2>3, <2>9, <2>10, <3>1, <4>1, ZenonT(40)
    <3>3. \A u \in Tasks : call'[u].conn # None => call'[u].conn \in open'
      <4>1. call'[t].conn \in open'
        BY <2>1, <2>3
      <4>2. \A u \in Tasks : u # t /\ call'[u].conn # None => call'[u].conn \in open
        BY <2>10, <3>1
      <4>3. open \subseteq open'
        BY <2>1
      <4>4. QED
        BY <4>1, <4>2, <4>3, Zenon
    <3>4. QED
      BY <3>2, <3>3
  <2>12. \A u, v \in Tasks : u # v /\ call'[u].conn # None => call'[u].conn # call'[v].conn
    BY <2>3, <2>10 DEF PsaInv, ConnectionsAreHeld
  <2>13. HandlesAreExact'
    BY <1>1 DEF PsaInv, HandlesAreExact
  <2>14. QED
    BY <2>5, <2>6, <2>8, <2>11, <2>12, <2>13 DEF PsaInv, ConnectionsAreHeld
<1>4. QED
  BY <1>2, <1>3 DEF psa_connect

LEMMA ConnectedCallStep ==
    ASSUME PsaInv, NEW t \in Tasks, ConnectedCall(t)
    PROVE  PsaInv'
<1>1. Typed /\ call[t] \in Calls /\ Inside(t) /\ UNCHANGED <<op, slots, open>>
  BY DEF PsaInv, Typed, ConnectedCall, InCall
<1>2. call'[t] = [call[t] EXCEPT !.f = NoRequest, !.phase = "close"]
  BY <1>1 DEF Typed, ConnectedCall
<1>3. call'[t] \in Calls /\ call'[t].conn = call[t].conn /\ call'[t].phase = "close"
  BY <1>1, <1>2 DEF Calls, Phases
<1>4. call' \in [Tasks -> Calls] /\ Alone(t) /\ at'[t] = "lock"
      /\ at' \in [Tasks -> {"idle", "lock", "secure"}]
  BY <1>1, <1>3 DEF Typed, Alone, ConnectedCall
<1>5. Typed'
  BY <1>1, <1>4 DEF Typed
<1>6. OneVeneerAtATime' /\ ConnectionsAreHeld'
  BY <1>1, <1>3, <1>4, VeneerLeft, SameConnections
<1>7. RequestIsLegal(t)'
  BY <1>3, <1>4 DEF RequestIsLegal, InCall, Inside, None
<1>8. \A u \in Tasks : RequestIsLegal(u)'
  BY <1>1, <1>4, <1>7, OthersLegal
<1>9. HandlesAreExact'
  BY <1>1 DEF PsaInv, HandlesAreExact
<1>10. QED
  BY <1>5, <1>6, <1>8, <1>9 DEF PsaInv

(* Closing takes the connection of the task and of no other.               *)
LEMMA CloseStep ==
    ASSUME PsaInv, NEW t \in Tasks, psa_close(t)
    PROVE  PsaInv'
<1>1. Typed /\ Inside(t) /\ Returns(t) /\ op' = op /\ slots' = slots
      /\ open' = open \ {call[t].conn}
  BY DEF PsaInv, psa_close
<1>2. Alone(t) /\ at'[t] = "idle" /\ call'[t].conn = None /\ RequestIsLegal(t)'
  BY <1>1, Returned
<1>3. Typed'
  BY <1>1, Returned DEF Typed
<1>4. OneVeneerAtATime'
  BY <1>2, VeneerLeft
<1>5. \A u \in Tasks : RequestIsLegal(u)'
  BY <1>1, <1>2, OthersLegal
<1>6. \A u \in Tasks : u # t => call'[u].conn = call[u].conn
  BY <1>2 DEF Alone
<1>7. open' = {call'[u].conn : u \in Tasks} \ {None}
  <2>1. open = {call[u].conn : u \in Tasks} \ {None}
    BY DEF PsaInv, ConnectionsAreHeld
  <2>2. \A u \in Tasks : u # t /\ call[u].conn # None => call[u].conn # call[t].conn
    BY DEF PsaInv, ConnectionsAreHeld
  <2>3. ASSUME NEW d PROVE d \in open' <=> d \in {call'[u].conn : u \in Tasks} \ {None}
    BY <1>1, <1>2, <1>6, <2>1, <2>2
  <2>4. QED
    BY <2>3
<1>8. \A u, v \in Tasks : u # v /\ call'[u].conn # None => call'[u].conn # call'[v].conn
  BY <1>2, <1>6 DEF PsaInv, ConnectionsAreHeld
<1>9. HandlesAreExact'
  BY <1>1 DEF PsaInv, HandlesAreExact
<1>10. QED
  BY <1>3, <1>4, <1>5, <1>7, <1>8, <1>9 DEF PsaInv, ConnectionsAreHeld

LEMMA PsaStep == PsaInv /\ [Next]_vars => PsaInv'
<1> SUFFICES ASSUME PsaInv, [Next]_vars PROVE PsaInv'
  OBVIOUS
<1>1. CASE Next
  <2>1. PICK t \in Tasks : Call(t) \/ Dispatch(t) \/ SecureReturn(t)
    BY <1>1 DEF Next
  <2>2. CASE Call(t)
    BY <2>2, CallStep
  <2>3. CASE Dispatch(t)
    BY <2>3, DispatchStep
  <2>4. CASE psa_call(t)
    BY <2>4, PsaCallStep
  <2>5. CASE OperationStarts(t)
    BY <2>5, StartStep
  <2>6. CASE OperationEnds(t)
    BY <2>6, EndStep
  <2>7. CASE psa_connect(t)
    BY <2>7, ConnectStep
  <2>8. CASE ConnectedCall(t)
    BY <2>8, ConnectedCallStep
  <2>9. CASE psa_close(t)
    BY <2>9, CloseStep
  <2>10. QED
    BY <2>1, <2>2, <2>3, <2>4, <2>5, <2>6, <2>7, <2>8, <2>9 DEF SecureReturn
<1>2. CASE UNCHANGED vars
  BY <1>2 DEF vars, PsaInv, Typed, OneVeneerAtATime, RequestIsLegal, InCall,
              Inside, LegalFor, HandlesAreExact, ConnectionsAreHeld
<1>3. QED
  BY <1>1, <1>2

LEMMA PsaAlways == Spec => []PsaInv
  BY PsaInit, PsaStep, PTL DEF Spec

-----------------------------------------------------------------------------
(* Theorems *)

(* Every variable keeps its type, whatever tasks call the interface.       *)
THEOREM PsaTypeCorrect == Spec => []TypeOK
<1>1. PsaInv => TypeOK
  BY DEF PsaInv, Typed, TypeOK, Calls
<1>2. QED
  BY <1>1, PsaAlways, PTL

(* However the calls of any number of tasks interleave and whichever of    *)
(* them fail, a slot of the crypto service is that of exactly one          *)
(* operation structure, of its kind, and a connection that of one call.    *)
THEOREM PsaSlotsHeld == Spec => []SlotsAreHeld
<1>1. PsaInv => SlotsAreHeld
  <2> SUFFICES ASSUME PsaInv PROVE SlotsAreHeld
    OBVIOUS
  <2>1. HandlesAreExact /\ ConnectionsAreHeld
    BY DEF PsaInv
  <2>2. ASSUME NEW s \in Slots, slots[s] # None
        PROVE  Cardinality({o \in Operations : op[o].handle = s}) = 1
    <3>1. PICK o \in Operations : op[o].handle = s
      BY <2>1, <2>2 DEF HandlesAreExact
    <3>2. s # 0
      BY PsaAssumption
    <3>3. {p \in Operations : op[p].handle = s} = {o}
      BY <2>1, <3>1, <3>2 DEF HandlesAreExact
    <3>4. QED
      BY <3>3, FS_Singleton
  <2>3. HandlesMatchSlots
    BY <2>1, <2>2 DEF HandlesMatchSlots, HandlesAreExact
  <2>4. QED
    BY <2>1, <2>3 DEF SlotsAreHeld
<1>2. QED
  BY <1>1, PsaAlways, PTL

(* The mutex keeps the tasks apart, and every function of the interface    *)
(* packs a word that unpacks to its type and numbers of vectors and reads  *)
(* every length from the vector it belongs to.                             *)
THEOREM PsaCallsIsolated == Spec => []CallsAreIsolated
<1>1. PsaInv => CallsAreIsolated
  <2> SUFFICES ASSUME PsaInv PROVE CallsAreIsolated
    OBVIOUS
  <2>1. ASSUME NEW t \in Tasks
        PROVE  LET f == call[t].f
               IN  /\ Unpacked(Word(f)) = <<f.type, Len(f.ins), Len(f.outs)>>
                   /\ \A l \in f.lengths : l[2] \in DOMAIN f.outs /\ f.outs[l[2]] = l[1]
    <3>1. Shape(call[t].f)
      BY FunctionShapes, NoRequestShape DEF PsaInv, Typed, Calls
    <3>2. Unpacked(Word(call[t].f)) = <<call[t].f.type, Len(call[t].f.ins), Len(call[t].f.outs)>>
      BY <3>1, WordUnpacks
    <3>3. QED
      BY <3>1, <3>2, SMT DEF Shape
  <2>2. QED
    BY <2>1, Zenon DEF PsaInv, CallsAreIsolated, RequestsAndLengthsIntact
<1>2. QED
  BY <1>1, PsaAlways, PTL

-----------------------------------------------------------------------------
(* Key attributes, encodings and sizes *)

(* The values of an algorithm, field by field *)

Algs == [cat : Nat, sub : Nat, len : Nat, least : Nat, mid : Nat, hash : Nat]

(* Algorithms are the same when all their fields are.                      *)
LEMMA SameFields ==
  ASSUME NEW a \in Algs, NEW b \in Algs
  PROVE  a = b <=> /\ a.cat = b.cat /\ a.sub = b.sub /\ a.len = b.len
                   /\ a.least = b.least /\ a.mid = b.mid /\ a.hash = b.hash
<1>1. ASSUME /\ a.cat = b.cat /\ a.sub = b.sub /\ a.len = b.len
             /\ a.least = b.least /\ a.mid = b.mid /\ a.hash = b.hash
      PROVE  a = b
  BY <1>1 DEF Algs
<1>2. QED
  BY <1>1

(* What each recogniser looks at. *)
LEMMA RecognisersDecide ==
  ASSUME NEW a \in Algs
  PROVE  /\ PSA_ALG_IS_HMAC(a) <=> a.cat = 3 /\ a.sub = 2
         /\ PSA_ALG_IS_BLOCK_CIPHER_MAC(a) <=> a.cat = 3 /\ a.sub = 3
         /\ PSA_ALG_IS_STREAM_CIPHER(a) <=> a.cat = 4 /\ a.sub >= 2
         /\ PSA_ALG_IS_AEAD_ON_BLOCK_CIPHER(a) <=> a.cat = 5 /\ a.sub % 2 = 1
         /\ PSA_ALG_IS_KEY_DERIVATION_STRETCHING(a) <=> a.cat = 8 /\ a.sub >= 2
BY DEF PSA_ALG_IS_HMAC, PSA_ALG_IS_BLOCK_CIPHER_MAC, PSA_ALG_IS_STREAM_CIPHER,
       PSA_ALG_IS_AEAD_ON_BLOCK_CIPHER, PSA_ALG_IS_KEY_DERIVATION_STRETCHING,
       PSA_ALG_IS_MAC, PSA_ALG_IS_CIPHER, PSA_ALG_IS_AEAD, PSA_ALG_IS_KEY_DERIVATION,
       PSA_ALG_CATEGORY_MAC, PSA_ALG_CATEGORY_CIPHER, PSA_ALG_CATEGORY_AEAD,
       PSA_ALG_CATEGORY_KEY_DERIVATION

(* The comparisons of an algorithm without its hash with a base.           *)
LEMMA SchemeIs ==
  ASSUME NEW a \in Algs, NEW cat \in Nat, NEW mid \in Nat
  PROVE  Scheme(a) = Algorithm(cat, 0, 0, 0, mid, 0)
           <=> a.cat = cat /\ a.sub = 0 /\ a.len = 0 /\ a.least = 0 /\ a.mid = mid
<1>1. PICK b : b = Scheme(a)
  OBVIOUS
<1>2. /\ b \in Algs /\ b.cat = a.cat /\ b.sub = a.sub /\ b.len = a.len
      /\ b.least = a.least /\ b.mid = a.mid /\ b.hash = 0
  BY <1>1 DEF Scheme, Algs
<1>3. PICK c : c = Algorithm(cat, 0, 0, 0, mid, 0)
  OBVIOUS
<1>4. /\ c \in Algs /\ c.cat = cat /\ c.sub = 0 /\ c.len = 0
      /\ c.least = 0 /\ c.mid = mid /\ c.hash = 0
  BY <1>3 DEF Algorithm, Algs
<1>5. QED
  BY <1>1, <1>2, <1>3, <1>4, SameFields

LEMMA SchemesDecide ==
  ASSUME NEW a \in Algs
  PROVE  LET Is(cat, mid) == a.cat = cat /\ a.sub = 0 /\ a.len = 0 /\ a.least = 0 /\ a.mid = mid
         IN  /\ PSA_ALG_IS_RSA_PKCS1V15_SIGN(a) <=> Is(6, 2)
             /\ PSA_ALG_IS_RSA_PSS_STANDARD_SALT(a) <=> Is(6, 3)
             /\ PSA_ALG_IS_RSA_PSS_ANY_SALT(a) <=> Is(6, 19)
             /\ PSA_ALG_IS_HASH_EDDSA(a) <=> Is(6, 9)
             /\ PSA_ALG_IS_RSA_OAEP(a) <=> Is(7, 3)
             /\ PSA_ALG_IS_HKDF(a) <=> Is(8, 1)
             /\ PSA_ALG_IS_TLS12_PRF(a) <=> Is(8, 2)
             /\ PSA_ALG_IS_TLS12_PSK_TO_MS(a) <=> Is(8, 3)
BY SchemeIs
DEF PSA_ALG_IS_RSA_PKCS1V15_SIGN, PSA_ALG_IS_RSA_PSS_STANDARD_SALT,
    PSA_ALG_IS_RSA_PSS_ANY_SALT, PSA_ALG_IS_HASH_EDDSA, PSA_ALG_IS_RSA_OAEP,
    PSA_ALG_IS_HKDF, PSA_ALG_IS_TLS12_PRF, PSA_ALG_IS_TLS12_PSK_TO_MS,
    PSA_ALG_RSA_PKCS1V15_SIGN_BASE, PSA_ALG_RSA_PSS_BASE, PSA_ALG_RSA_PSS_ANY_SALT_BASE,
    PSA_ALG_HASH_EDDSA_BASE, PSA_ALG_RSA_OAEP_BASE, PSA_ALG_HKDF_BASE,
    PSA_ALG_TLS12_PRF_BASE, PSA_ALG_TLS12_PSK_TO_MS_BASE, PSA_ALG_CATEGORY_SIGN,
    PSA_ALG_CATEGORY_ASYMMETRIC_ENCRYPTION, PSA_ALG_CATEGORY_KEY_DERIVATION

LEMMA Pbkdf2Decides ==
  ASSUME NEW a \in Algs
  PROVE  PSA_ALG_IS_PBKDF2_HMAC(a)
           <=> a.cat = 8 /\ a.sub = 2 /\ a.len = 0 /\ a.least = 0 /\ a.mid = 1
<1>1. PICK b, c : b = Scheme(a) /\ c = PSA_ALG_PBKDF2_HMAC_BASE
  OBVIOUS
<1>2. /\ b \in Algs /\ b.cat = a.cat /\ b.sub = a.sub /\ b.len = a.len
      /\ b.least = a.least /\ b.mid = a.mid /\ b.hash = 0
  BY <1>1 DEF Scheme, Algs
<1>3. /\ c \in Algs /\ c.cat = 8 /\ c.sub = 2 /\ c.len = 0
      /\ c.least = 0 /\ c.mid = 1 /\ c.hash = 0
  BY <1>1 DEF PSA_ALG_PBKDF2_HMAC_BASE, PSA_ALG_CATEGORY_KEY_DERIVATION, Algorithm, Algs
<1>4. QED
  BY <1>1, <1>2, <1>3, SameFields DEF PSA_ALG_IS_PBKDF2_HMAC

LEMMA EcdsaDecides ==
  ASSUME NEW a \in Algs
  PROVE  /\ PSA_ALG_IS_ECDSA(a)
              <=> a.cat = 6 /\ a.sub = 0 /\ a.len = 0 /\ a.least = 0 /\ a.mid \in {6, 7}
         /\ PSA_ALG_IS_RANDOMIZED_ECDSA(a)
              <=> a.cat = 6 /\ a.sub = 0 /\ a.len = 0 /\ a.least = 0 /\ a.mid = 6
         /\ PSA_ALG_IS_DETERMINISTIC_ECDSA(a)
              <=> a.cat = 6 /\ a.sub = 0 /\ a.len = 0 /\ a.least = 0 /\ a.mid = 7
<1>1. PICK b, c : b = [Scheme(a) EXCEPT !.mid = @ - (@ % 2)] /\ c = PSA_ALG_ECDSA_BASE
  OBVIOUS
<1>2. /\ b \in Algs /\ b.cat = a.cat /\ b.sub = a.sub /\ b.len = a.len
      /\ b.least = a.least /\ b.mid = a.mid - (a.mid % 2) /\ b.hash = 0
  <2>1. a.mid - (a.mid % 2) \in Nat
    BY DEF Algs
  <2>2. QED
    BY <1>1, <2>1 DEF Scheme, Algs
<1>3. /\ c \in Algs /\ c.cat = 6 /\ c.sub = 0 /\ c.len = 0
      /\ c.least = 0 /\ c.mid = 6 /\ c.hash = 0
  BY <1>1 DEF PSA_ALG_ECDSA_BASE, PSA_ALG_CATEGORY_SIGN, Algorithm, Algs
<1>4. PSA_ALG_IS_ECDSA(a) <=> b = c
  BY <1>1 DEF PSA_ALG_IS_ECDSA
<1>5. a.mid \in Nat /\ (a.mid - (a.mid % 2) = 6 <=> a.mid \in {6, 7})
  <2>1. a.mid \in Nat
    BY DEF Algs
  <2>2. QED
    BY <2>1
<1>6. PSA_ALG_IS_ECDSA(a)
        <=> a.cat = 6 /\ a.sub = 0 /\ a.len = 0 /\ a.least = 0 /\ a.mid \in {6, 7}
  BY <1>2, <1>3, <1>4, <1>5, SameFields
<1>7. QED
  BY <1>5, <1>6 DEF PSA_ALG_IS_RANDOMIZED_ECDSA, PSA_ALG_IS_DETERMINISTIC_ECDSA,
                    PSA_ALG_ECDSA_IS_DETERMINISTIC

(* The category of the base of a key agreement.                            *)
BaseCat(cat) == Raised(Raised(cat, 1), 8)

LEMMA AgreementsDecide ==
  ASSUME NEW a \in Algs
  PROVE  /\ PSA_ALG_IS_FFDH(a) <=> BaseCat(a.cat) = 9 /\ a.sub = 0 /\ a.len = 1
         /\ PSA_ALG_IS_ECDH(a) <=> BaseCat(a.cat) = 9 /\ a.sub = 0 /\ a.len = 2
         /\ PSA_ALG_IS_RAW_KEY_AGREEMENT(a)
              <=> a.cat = 9 /\ a.least = 0 /\ a.mid = 0 /\ a.hash = 0
<1>1. PICK b, k : b = PSA_ALG_KEY_AGREEMENT_GET_BASE(a) /\ k = PSA_ALG_KEY_AGREEMENT_GET_KDF(a)
  OBVIOUS
<1>2. /\ BaseCat(a.cat) \in Nat /\ Raised(a.cat - (a.cat % 2), 8) \in Nat
      /\ a.cat = 9 => Raised(a.cat - (a.cat % 2), 8) = 8
  <2>1. a.cat \in Nat
    BY DEF Algs
  <2>2. QED
    BY <2>1 DEF BaseCat, Raised
<1>3. /\ b \in Algs /\ b.cat = BaseCat(a.cat) /\ b.sub = a.sub /\ b.len = a.len
      /\ b.least = 0 /\ b.mid = 0 /\ b.hash = 0
  BY <1>1, <1>2 DEF PSA_ALG_KEY_AGREEMENT_GET_BASE, BaseCat, Algs
<1>4. /\ k \in Algs /\ k.cat = Raised(a.cat - (a.cat % 2), 8) /\ k.sub = 0 /\ k.len = 0
      /\ k.least = a.least /\ k.mid = a.mid /\ k.hash = a.hash
  BY <1>1, <1>2 DEF PSA_ALG_KEY_AGREEMENT_GET_KDF, Algs
<1>5. PICK f, e, d : /\ f = PSA_ALG_FFDH /\ e = PSA_ALG_ECDH
                     /\ d = Algorithm(PSA_ALG_CATEGORY_KEY_DERIVATION, 0, 0, 0, 0, 0)
  OBVIOUS
<1>6. /\ f \in Algs /\ f.cat = 9 /\ f.sub = 0 /\ f.len = 1
      /\ f.least = 0 /\ f.mid = 0 /\ f.hash = 0
      /\ e \in Algs /\ e.cat = 9 /\ e.sub = 0 /\ e.len = 2
      /\ e.least = 0 /\ e.mid = 0 /\ e.hash = 0
      /\ d \in Algs /\ d.cat = 8 /\ d.sub = 0 /\ d.len = 0
      /\ d.least = 0 /\ d.mid = 0 /\ d.hash = 0
  BY <1>5 DEF Algorithm, Algs, PSA_ALG_FFDH, PSA_ALG_ECDH, PSA_ALG_CATEGORY_KEY_AGREEMENT,
                               PSA_ALG_CATEGORY_KEY_DERIVATION
<1>7. b = f <=> BaseCat(a.cat) = 9 /\ a.sub = 0 /\ a.len = 1
  BY <1>3, <1>6, SameFields
<1>8. b = e <=> BaseCat(a.cat) = 9 /\ a.sub = 0 /\ a.len = 2
  BY <1>3, <1>6, SameFields
<1>9. a.cat = 9 => (k = d <=> a.least = 0 /\ a.mid = 0 /\ a.hash = 0)
  BY <1>2, <1>4, <1>6, SameFields
<1>10. QED
  BY <1>1, <1>5, <1>7, <1>8, <1>9
  DEF PSA_ALG_IS_FFDH, PSA_ALG_IS_ECDH, PSA_ALG_IS_RAW_KEY_AGREEMENT,
      PSA_ALG_IS_KEY_AGREEMENT, PSA_ALG_CATEGORY_KEY_AGREEMENT

-----------------------------------------------------------------------------
(* What is built *)

Is(a, cat, sub, len, least, mid, hash) ==
    /\ a.cat = cat /\ a.sub = sub /\ a.len = len /\ a.least = least
    /\ a.mid = mid /\ a.hash = hash

(* An algorithm given as it was built.                                     *)
Plain(m, a, cat, sub, least, mids) ==
    /\ m.base = a /\ m.kdf = PSA_ALG_NONE /\ m.len = 0 /\ ~m.wild
    /\ a.cat = cat /\ a.sub = sub /\ a.len = 0 /\ a.least = least
    /\ a.mid \in mids /\ a.hash = m.hash

(* The algorithms that take no length, by the scheme they belong to.       *)
IsPlain(m, a) ==
    \/ m.scheme = "none" /\ Plain(m, a, 0, 0, 0, {0}) /\ m.hash = 0
    \/ m.scheme = "hash" /\ Plain(m, a, 2, 0, 0, {0}) /\ m.hash \in Hashes
    \/ /\ m.scheme = "stream" /\ m.hash = 0
       /\ Plain(m, a, 4, 2, 0, {1}) \/ Plain(m, a, 4, 3, 0, {16, 17, 18, 19})
    \/ /\ m.scheme = "block" /\ m.hash = 0
       /\ Plain(m, a, 4, 1, 0, {64, 65, 68}) \/ Plain(m, a, 4, 1, 1, {127})

(* A signature may leave its hash open (255).                              *)
IsSignature(m, a) ==
    \/ m.scheme = "pkcs1v15" /\ Plain(m, a, 6, 0, 0, {2})
    \/ m.scheme = "pss" /\ Plain(m, a, 6, 0, 0, {3})
    \/ m.scheme = "pss_any_salt" /\ Plain(m, a, 6, 0, 0, {19})
    \/ m.scheme = "ecdsa" /\ Plain(m, a, 6, 0, 0, {6})
    \/ m.scheme = "deterministic_ecdsa" /\ Plain(m, a, 6, 0, 0, {7})
    \/ m.scheme = "eddsa" /\ Plain(m, a, 6, 0, 0, {8}) /\ m.hash = 0
    \/ m.scheme = "hash_eddsa" /\ Plain(m, a, 6, 0, 0, {9})

IsKeyed(m, a) ==
    /\ m.hash # 255
    /\ \/ m.scheme = "oaep" /\ Plain(m, a, 7, 0, 0, {3})
       \/ m.scheme = "pkcs1v15_crypt" /\ Plain(m, a, 7, 0, 0, {2})
       \/ m.scheme = "hkdf" /\ Plain(m, a, 8, 0, 0, {1})
       \/ m.scheme = "tls12_prf" /\ Plain(m, a, 8, 0, 0, {2})
       \/ m.scheme = "tls12_psk_to_ms" /\ Plain(m, a, 8, 0, 0, {3})
       \/ m.scheme = "pbkdf2" /\ Plain(m, a, 8, 2, 0, {1})
       \/ m.scheme = "pbkdf2_cmac" /\ Plain(m, a, 8, 2, 0, {2})

(* A MAC: the base it was built with, whatever lengths were given since.   *)
(* A length of 64 bytes does not fit the six bits of the field: they are   *)
(* then 0, which says that a MAC of 64 bytes is not truncated.             *)
IsMac(m, a) ==
    /\ \/ m.scheme = "hmac" /\ Is(m.base, 3, 2, 0, 0, 0, m.hash) /\ m.hash \in Hashes
       \/ /\ m.scheme = "cipher_mac" /\ m.hash = 0
          /\ Is(m.base, 3, 3, 0, 0, 1, 0) \/ Is(m.base, 3, 3, 0, 0, 2, 0)
    /\ m.kdf = PSA_ALG_NONE
    /\ Is(a, 3, m.base.sub, m.len % 64, IF m.wild THEN 1 ELSE 0, m.base.mid, m.hash)
    /\ m.scheme = "hmac" => m.len <= HashLengths[m.hash]
    /\ m.scheme = "cipher_mac" => m.len <= 16

(* An AEAD: the length of the tag is that of the base unless one is given. *)
IsAead(m, a) ==
    /\ \/ m.scheme = "aead_block" /\ m.base \in {PSA_ALG_CCM, PSA_ALG_GCM}
       \/ m.scheme = "aead_stream" /\ m.base = PSA_ALG_CHACHA20_POLY1305
    /\ m.kdf = PSA_ALG_NONE /\ m.hash = 0 /\ m.len <= 16
    /\ Is(a, 5, m.base.sub, IF m.len = 0 THEN 16 ELSE m.len,
          IF m.wild THEN 1 ELSE 0, m.base.mid, 0)

(* A key agreement, alone or followed by a key derivation.                 *)
IsAgreement(m, a) ==
    /\ \/ m.scheme = "ffdh" /\ m.base = PSA_ALG_FFDH
       \/ m.scheme = "ecdh" /\ m.base = PSA_ALG_ECDH
    /\ m.len = 0 /\ ~m.wild
    /\ \/ m.kdf = PSA_ALG_NONE /\ a = m.base /\ m.hash = 0
       \/ /\ m.hash # 255
          /\ \E mid \in 1 .. 3 : /\ Is(m.kdf, 8, 0, 0, 0, mid, m.hash)
                                /\ Is(a, 9, 0, m.base.len, 0, mid, m.hash)

IsBuilt(m, a) ==
    \/ IsPlain(m, a)
    \/ IsSignature(m, a)
    \/ IsKeyed(m, a)
    \/ IsMac(m, a)
    \/ IsAead(m, a)
    \/ IsAgreement(m, a)

(* The types of what was asked for.                                        *)
Schemes ==
    {"none", "hash", "hmac", "cipher_mac", "stream", "block", "aead_block", "aead_stream",
     "pkcs1v15", "pss", "pss_any_salt", "ecdsa", "deterministic_ecdsa", "eddsa",
     "hash_eddsa", "oaep", "pkcs1v15_crypt", "hkdf", "tls12_prf", "tls12_psk_to_ms",
     "pbkdf2", "pbkdf2_cmac", "ffdh", "ecdh"}

Mades == [scheme : Schemes, base : Algs, hash : Nat, kdf : Algs, len : Nat, wild : BOOLEAN]

(* The numbers of the hash functions and the lengths of their results.     *)
LEMMA HashNumbersBound ==
  /\ Hashes \subseteq {3, 4, 5, 8, 9, 10, 11, 12, 13, 16, 17, 18, 19}
  /\ \A n \in Hashes : HashLengths[n] \in 16 .. 64
  /\ \A n \in DOMAIN HashLengths : HashLengths[n] \in 16 .. 64
<1>1. Hashes \subseteq {3, 4, 5, 8, 9, 10, 11, 12, 13, 16, 17, 18, 19}
  BY KeyAttributesAssumption DEF HashLengths
<1>2. ASSUME NEW n \in {3, 4, 5, 8, 9, 10, 11, 12, 13, 16, 17, 18, 19}
      PROVE  HashLengths[n] \in 16 .. 64
  <2>1. CASE n = 3
    BY <2>1 DEF HashLengths
  <2>2. CASE n \in {4, 5}
    BY <2>2 DEF HashLengths
  <2>3. CASE n \in {8, 12, 16}
    BY <2>3 DEF HashLengths
  <2>4. CASE n \in {9, 13, 17}
    BY <2>4 DEF HashLengths
  <2>5. CASE n \in {10, 18}
    BY <2>5 DEF HashLengths
  <2>6. CASE n \in {11, 19}
    BY <2>6 DEF HashLengths
  <2>7. QED
    BY <2>1, <2>2, <2>3, <2>4, <2>5, <2>6
<1>3. DOMAIN HashLengths = {3, 4, 5, 8, 9, 10, 11, 12, 13, 16, 17, 18, 19}
  BY DEF HashLengths
<1>4. QED
  BY <1>1, <1>2, <1>3

(* The rows of the table of algorithms a scheme allows.                    *)
Row(a, cat, sub, len, mids) ==
    a.cat = cat /\ a.sub = sub /\ a.len = len /\ a.mid \in mids

Table(scheme, a) ==
    \/ scheme \in {"none", "hash"} /\ a.cat \in {0, 2} /\ a.sub = 0 /\ a.len = 0
    \/ scheme \in {"stream"} /\ a.cat = 4 /\ a.sub \in {2, 3} /\ a.len = 0
    \/ scheme \in {"block"} /\ a.cat = 4 /\ a.sub = 1 /\ a.len = 0
    \/ scheme = "hmac" /\ a.cat = 3 /\ a.sub = 2
    \/ scheme = "cipher_mac" /\ a.cat = 3 /\ a.sub = 3
    \/ scheme = "aead_block" /\ a.cat = 5 /\ a.sub = 1
    \/ scheme = "aead_stream" /\ a.cat = 5 /\ a.sub = 0
    \/ scheme = "ffdh" /\ a.cat = 9 /\ a.sub = 0 /\ a.len = 1 /\ a.least = 0
    \/ scheme = "ecdh" /\ a.cat = 9 /\ a.sub = 0 /\ a.len = 2 /\ a.least = 0
    \/ /\ a.least = 0
       /\ \/ scheme = "pkcs1v15" /\ Row(a, 6, 0, 0, {2})
          \/ scheme = "pss" /\ Row(a, 6, 0, 0, {3})
          \/ scheme = "pss_any_salt" /\ Row(a, 6, 0, 0, {19})
          \/ scheme = "ecdsa" /\ Row(a, 6, 0, 0, {6})
          \/ scheme = "deterministic_ecdsa" /\ Row(a, 6, 0, 0, {7})
          \/ scheme = "eddsa" /\ Row(a, 6, 0, 0, {8})
          \/ scheme = "hash_eddsa" /\ Row(a, 6, 0, 0, {9})
          \/ scheme = "oaep" /\ Row(a, 7, 0, 0, {3})
          \/ scheme = "pkcs1v15_crypt" /\ Row(a, 7, 0, 0, {2})
          \/ scheme = "hkdf" /\ Row(a, 8, 0, 0, {1})
          \/ scheme = "tls12_prf" /\ Row(a, 8, 0, 0, {2})
          \/ scheme = "tls12_psk_to_ms" /\ Row(a, 8, 0, 0, {3})
          \/ scheme = "pbkdf2" /\ Row(a, 8, 2, 0, {1})
          \/ scheme = "pbkdf2_cmac" /\ Row(a, 8, 2, 0, {2})

LEMMA BuiltInTable ==
  ASSUME NEW m \in Mades, NEW a \in Algs, IsBuilt(m, a)
  PROVE  Table(m.scheme, a)
<1>1. CASE IsPlain(m, a)
  BY <1>1 DEF IsPlain, Plain, Table
<1>2. CASE IsSignature(m, a)
  BY <1>2 DEF IsSignature, Plain, Table, Row
<1>3. CASE IsKeyed(m, a)
  BY <1>3 DEF IsKeyed, Plain, Table, Row
<1>4. CASE IsMac(m, a)
  BY <1>4 DEF IsMac, Is, Table
<1>5. CASE IsAead(m, a)
  BY <1>5 DEF IsAead, Is, Table, PSA_ALG_CCM, PSA_ALG_GCM, PSA_ALG_CHACHA20_POLY1305, Algorithm
<1>6. CASE IsAgreement(m, a)
  BY <1>6 DEF IsAgreement, Is, Table, PSA_ALG_FFDH, PSA_ALG_ECDH, Algorithm,
              PSA_ALG_CATEGORY_KEY_AGREEMENT
<1>7. QED
  BY <1>1, <1>2, <1>3, <1>4, <1>5, <1>6 DEF IsBuilt

(* Raising the category of a key agreement to its base.                    *)
LEMMA BaseCategories ==
  ASSUME NEW cat \in {0, 2, 3, 4, 5, 6, 7, 8, 9}
  PROVE  BaseCat(cat) = 9 <=> cat \in {0, 8, 9}
BY DEF BaseCat, Raised

LEMMA TableRecognised ==
  ASSUME NEW scheme, NEW a \in Algs, Table(scheme, a)
  PROVE  /\ PSA_ALG_IS_HMAC(a) <=> scheme = "hmac"
         /\ PSA_ALG_IS_BLOCK_CIPHER_MAC(a) <=> scheme = "cipher_mac"
         /\ PSA_ALG_IS_STREAM_CIPHER(a) <=> scheme = "stream"
         /\ PSA_ALG_IS_AEAD_ON_BLOCK_CIPHER(a) <=> scheme = "aead_block"
         /\ PSA_ALG_IS_RSA_PKCS1V15_SIGN(a) <=> scheme = "pkcs1v15"
         /\ PSA_ALG_IS_RSA_PSS_STANDARD_SALT(a) <=> scheme = "pss"
         /\ PSA_ALG_IS_RSA_PSS_ANY_SALT(a) <=> scheme = "pss_any_salt"
         /\ PSA_ALG_IS_RANDOMIZED_ECDSA(a) <=> scheme = "ecdsa"
         /\ PSA_ALG_IS_DETERMINISTIC_ECDSA(a) <=> scheme = "deterministic_ecdsa"
         /\ PSA_ALG_IS_HASH_EDDSA(a) <=> scheme = "hash_eddsa"
         /\ PSA_ALG_IS_RSA_OAEP(a) <=> scheme = "oaep"
         /\ PSA_ALG_IS_HKDF(a) <=> scheme = "hkdf"
         /\ PSA_ALG_IS_TLS12_PRF(a) <=> scheme = "tls12_prf"
         /\ PSA_ALG_IS_TLS12_PSK_TO_MS(a) <=> scheme = "tls12_psk_to_ms"
         /\ PSA_ALG_IS_PBKDF2_HMAC(a) <=> scheme = "pbkdf2"
         /\ PSA_ALG_IS_FFDH(a) <=> scheme = "ffdh"
         /\ PSA_ALG_IS_ECDH(a) <=> scheme = "ecdh"
         /\ PSA_ALG_IS_KEY_DERIVATION_STRETCHING(a) <=> scheme \in {"pbkdf2", "pbkdf2_cmac"}
<1>1. a.cat \in {0, 2, 3, 4, 5, 6, 7, 8, 9}
  BY DEF Table, Row
<1>2. BaseCat(a.cat) = 9 <=> a.cat \in {0, 8, 9}
  BY <1>1, BaseCategories
<1> USE DEF Table, Row
<1>3. PSA_ALG_IS_HMAC(a) <=> scheme = "hmac"
  BY RecognisersDecide
<1>4. PSA_ALG_IS_BLOCK_CIPHER_MAC(a) <=> scheme = "cipher_mac"
  BY RecognisersDecide
<1>5. PSA_ALG_IS_STREAM_CIPHER(a) <=> scheme = "stream"
  BY RecognisersDecide
<1>6. PSA_ALG_IS_AEAD_ON_BLOCK_CIPHER(a) <=> scheme = "aead_block"
  BY RecognisersDecide
<1>7. PSA_ALG_IS_RSA_PKCS1V15_SIGN(a) <=> scheme = "pkcs1v15"
  BY SchemesDecide
<1>8. PSA_ALG_IS_RSA_PSS_STANDARD_SALT(a) <=> scheme = "pss"
  BY SchemesDecide
<1>9. PSA_ALG_IS_RSA_PSS_ANY_SALT(a) <=> scheme = "pss_any_salt"
  BY SchemesDecide
<1>10. PSA_ALG_IS_RANDOMIZED_ECDSA(a) <=> scheme = "ecdsa"
  BY EcdsaDecides
<1>11. PSA_ALG_IS_DETERMINISTIC_ECDSA(a) <=> scheme = "deterministic_ecdsa"
  BY EcdsaDecides
<1>12. PSA_ALG_IS_HASH_EDDSA(a) <=> scheme = "hash_eddsa"
  BY SchemesDecide
<1>13. PSA_ALG_IS_RSA_OAEP(a) <=> scheme = "oaep"
  BY SchemesDecide
<1>14. PSA_ALG_IS_HKDF(a) <=> scheme = "hkdf"
  BY SchemesDecide
<1>15. PSA_ALG_IS_TLS12_PRF(a) <=> scheme = "tls12_prf"
  BY SchemesDecide
<1>16. PSA_ALG_IS_TLS12_PSK_TO_MS(a) <=> scheme = "tls12_psk_to_ms"
  BY SchemesDecide
<1>17. PSA_ALG_IS_PBKDF2_HMAC(a) <=> scheme = "pbkdf2"
  BY Pbkdf2Decides
<1>18. PSA_ALG_IS_FFDH(a) <=> scheme = "ffdh"
  BY <1>2, AgreementsDecide
<1>19. PSA_ALG_IS_ECDH(a) <=> scheme = "ecdh"
  BY <1>2, AgreementsDecide
<1>20. PSA_ALG_IS_KEY_DERIVATION_STRETCHING(a) <=> scheme \in {"pbkdf2", "pbkdf2_cmac"}
  BY RecognisersDecide
<1> HIDE DEF Table, Row
<1>21. QED
  BY <1>3, <1>4, <1>5, <1>6, <1>7, <1>8, <1>9, <1>10, <1>11, <1>12, <1>13, <1>14, <1>15,
     <1>16, <1>17, <1>18, <1>19, <1>20

-----------------------------------------------------------------------------
(* What is recovered *)

LEMMA RawAgreementDecides ==
  ASSUME NEW m \in Mades, NEW a \in Algs, IsBuilt(m, a)
  PROVE  PSA_ALG_IS_RAW_KEY_AGREEMENT(a)
           <=> m.scheme \in {"ffdh", "ecdh"} /\ m.kdf = PSA_ALG_NONE
<1>1. PSA_ALG_IS_RAW_KEY_AGREEMENT(a)
        <=> a.cat = 9 /\ a.least = 0 /\ a.mid = 0 /\ a.hash = 0
  BY AgreementsDecide
<1>2. CASE IsAgreement(m, a)
  <2>1. m.scheme \in {"ffdh", "ecdh"}
    BY <1>2 DEF IsAgreement
  <2>2. CASE m.kdf = PSA_ALG_NONE /\ a = m.base /\ m.hash = 0
    BY <1>1, <1>2, <2>1, <2>2 DEF IsAgreement, PSA_ALG_FFDH, PSA_ALG_ECDH, Algorithm,
                           PSA_ALG_CATEGORY_KEY_AGREEMENT
  <2>3. CASE \E mid \in 1 .. 3 : /\ Is(m.kdf, 8, 0, 0, 0, mid, m.hash)
                               /\ Is(a, 9, 0, m.base.len, 0, mid, m.hash)
    <3>1. a.mid # 0 /\ m.kdf.cat = 8
      BY <2>3 DEF Is
    <3>2. PSA_ALG_NONE.cat = 0
      BY DEF PSA_ALG_NONE, Algorithm
    <3>3. QED
      BY <1>1, <3>1, <3>2
  <2>4. QED
    BY <1>2, <2>2, <2>3 DEF IsAgreement
<1>3. CASE ~IsAgreement(m, a)
  <2>1. a.cat # 9 /\ m.scheme \notin {"ffdh", "ecdh"}
    <3>1. CASE IsPlain(m, a)
      BY <3>1 DEF IsPlain, Plain
    <3>2. CASE IsSignature(m, a)
      BY <3>2 DEF IsSignature, Plain
    <3>3. CASE IsKeyed(m, a)
      BY <3>3 DEF IsKeyed, Plain
    <3>4. CASE IsMac(m, a)
      BY <3>4 DEF IsMac, Is
    <3>5. CASE IsAead(m, a)
      BY <3>5 DEF IsAead, Is
    <3>6. QED
      BY <1>3, <3>1, <3>2, <3>3, <3>4, <3>5 DEF IsBuilt
  <2>2. QED
    BY <1>1, <2>1
<1>4. QED
  BY <1>2, <1>3

LEMMA SignaturesDecide ==
  ASSUME NEW m \in Mades, NEW a \in Algs, IsBuilt(m, a)
  PROVE  /\ PSA_ALG_IS_SIGN_HASH(a) <=> m.scheme \in SignatureSchemes
         /\ PSA_ALG_IS_SIGN(a) <=> PSA_ALG_IS_SIGN_MESSAGE(a)
         /\ PSA_ALG_IS_SIGN(a) <=> m.scheme \in SignatureSchemes \cup {"eddsa"}
<1>1. Table(m.scheme, a)
  BY BuiltInTable
<1>2. PSA_ALG_IS_SIGN_HASH(a) <=> m.scheme \in SignatureSchemes
  <2>1. PSA_ALG_IS_ECDSA(a) <=> m.scheme \in {"ecdsa", "deterministic_ecdsa"}
    BY <1>1, TableRecognised DEF PSA_ALG_IS_RANDOMIZED_ECDSA, PSA_ALG_IS_DETERMINISTIC_ECDSA
  <2>2. /\ PSA_ALG_IS_RSA_PKCS1V15_SIGN(a) <=> m.scheme = "pkcs1v15"
        /\ PSA_ALG_IS_RSA_PSS_STANDARD_SALT(a) <=> m.scheme = "pss"
        /\ PSA_ALG_IS_RSA_PSS_ANY_SALT(a) <=> m.scheme = "pss_any_salt"
        /\ PSA_ALG_IS_HASH_EDDSA(a) <=> m.scheme = "hash_eddsa"
    BY <1>1, TableRecognised
  <2>3. QED
    BY <2>1, <2>2 DEF PSA_ALG_IS_SIGN_HASH, PSA_ALG_IS_RSA_PSS, SignatureSchemes
<1>3. PSA_ALG_IS_SIGN(a) <=> m.scheme \in SignatureSchemes \cup {"eddsa"}
  BY <1>1 DEF PSA_ALG_IS_SIGN, PSA_ALG_CATEGORY_SIGN, SignatureSchemes, Table, Row
<1>4. a = PSA_ALG_PURE_EDDSA <=> m.scheme = "eddsa"
  <2>1. PICK e : e = PSA_ALG_PURE_EDDSA
    OBVIOUS
  <2>2. e \in Algs /\ Is(e, 6, 0, 0, 0, 8, 0)
    BY <2>1 DEF PSA_ALG_PURE_EDDSA, Algorithm, Algs, Is, PSA_ALG_CATEGORY_SIGN
  <2>3. ASSUME m.scheme = "eddsa"
        PROVE  Is(a, 6, 0, 0, 0, 8, 0)
    BY <2>3 DEF IsBuilt, IsPlain, IsSignature, IsKeyed, IsMac, IsAead, IsAgreement, Plain, Is
  <2>4. ASSUME Is(a, 6, 0, 0, 0, 8, 0)
        PROVE  m.scheme = "eddsa"
    BY <1>1, <2>4 DEF Table, Row, Is
  <2>5. a = e <=> Is(a, 6, 0, 0, 0, 8, 0)
    BY <2>2, SameFields DEF Is
  <2>6. QED
    BY <2>1, <2>3, <2>4, <2>5
<1>5. QED
  BY <1>2, <1>3, <1>4 DEF PSA_ALG_IS_SIGN_MESSAGE

(* The hash that was built in.                                             *)
LEMMA HashIsKept ==
  ASSUME NEW m \in Mades, NEW a \in Algs, IsBuilt(m, a)
  PROVE  a.hash = m.hash
<1>1. CASE IsPlain(m, a)
  BY <1>1 DEF IsPlain, Plain
<1>2. CASE IsSignature(m, a)
  BY <1>2 DEF IsSignature, Plain
<1>3. CASE IsKeyed(m, a)
  BY <1>3 DEF IsKeyed, Plain
<1>4. CASE IsMac(m, a)
  BY <1>4 DEF IsMac, Is
<1>5. CASE IsAead(m, a)
  BY <1>5 DEF IsAead, Is
<1>6. CASE IsAgreement(m, a)
  <2>1. CASE m.kdf = PSA_ALG_NONE /\ a = m.base /\ m.hash = 0
    BY <1>6, <2>1 DEF IsAgreement, PSA_ALG_FFDH, PSA_ALG_ECDH, Algorithm
  <2>2. CASE \E mid \in 1 .. 3 : Is(a, 9, 0, m.base.len, 0, mid, m.hash)
    BY <2>2 DEF Is
  <2>3. QED
    BY <1>6, <2>1, <2>2 DEF IsAgreement
<1>7. QED
  BY <1>1, <1>2, <1>3, <1>4, <1>5, <1>6 DEF IsBuilt

(* Which hash a wildcard leaves open.                                      *)
LEMMA OpenHash ==
  ASSUME NEW a \in Algs
  PROVE  /\ a = PSA_ALG_ANY_HASH <=> Is(a, 2, 0, 0, 0, 0, 255)
         /\ PsaHash(a.hash) = PSA_ALG_ANY_HASH <=> a.hash = 255
         /\ PSA_ALG_ANY_HASH.hash = 255
<1>1. PICK h, w : h = PsaHash(a.hash) /\ w = PSA_ALG_ANY_HASH
  OBVIOUS
<1>2. /\ h \in Algs /\ Is(h, 2, 0, 0, 0, 0, a.hash)
      /\ w \in Algs /\ Is(w, 2, 0, 0, 0, 0, 255)
  BY <1>1 DEF PsaHash, PSA_ALG_ANY_HASH, Algorithm, Algs, Is, PSA_ALG_CATEGORY_HASH
<1>3. /\ a = w <=> Is(a, 2, 0, 0, 0, 0, 255)
      /\ h = w <=> a.hash = 255
  BY <1>2, SameFields DEF Is
<1>4. QED
  BY <1>1, <1>2, <1>3 DEF Is

LEMMA WildcardsDecide ==
  ASSUME NEW m \in Mades, NEW a \in Algs, IsBuilt(m, a)
  PROVE  PSA_ALG_IS_WILDCARD(a) <=> m.wild \/ m.hash = 255
<1>1. a.hash = m.hash /\ Table(m.scheme, a)
  BY HashIsKept, BuiltInTable
<1>2. PSA_ALG_IS_SIGN_HASH(a) <=> m.scheme \in SignatureSchemes
  BY SignaturesDecide
<1>3. CASE IsMac(m, a) \/ IsAead(m, a)
  <2>1. /\ a.cat \in {3, 5} /\ m.scheme \notin SignatureSchemes
        /\ a.least # 0 <=> m.wild
        /\ m.hash # 255
    BY <1>3, HashNumbersBound DEF IsMac, IsAead, Is, SignatureSchemes, Mades
  <2>2. QED
    BY <1>2, <2>1 DEF PSA_ALG_IS_WILDCARD, PSA_ALG_IS_HASH_AND_SIGN, PSA_ALG_IS_MAC,
              PSA_ALG_IS_AEAD, PSA_ALG_CATEGORY_MAC, PSA_ALG_CATEGORY_AEAD
<1>4. CASE IsSignature(m, a)
  <2>1. /\ a.cat = 6 /\ ~m.wild
        /\ m.scheme \in SignatureSchemes \/ m.hash = 0
    BY <1>4 DEF IsSignature, Plain, SignatureSchemes
  <2>2. a # PSA_ALG_ANY_HASH
    BY <2>1, OpenHash DEF Is
  <2>3. CASE m.scheme \in SignatureSchemes /\ a.hash # 0
    <3>1. PSA_ALG_IS_HASH_AND_SIGN(a) /\ PSA_ALG_SIGN_GET_HASH(a) = PsaHash(a.hash)
      BY <1>2, <2>3 DEF PSA_ALG_IS_HASH_AND_SIGN, PSA_ALG_SIGN_GET_HASH
    <3>2. PSA_ALG_IS_WILDCARD(a) <=> PsaHash(a.hash) = PSA_ALG_ANY_HASH
      BY <2>1, <3>1 DEF PSA_ALG_IS_WILDCARD, PSA_ALG_IS_MAC,
              PSA_ALG_IS_AEAD, PSA_ALG_CATEGORY_MAC, PSA_ALG_CATEGORY_AEAD
    <3>3. QED
      BY <1>1, <2>1, <3>2, OpenHash
  <2>4. CASE a.hash = 0
    BY <1>1, <2>1, <2>2, <2>4
    DEF PSA_ALG_IS_WILDCARD, PSA_ALG_IS_HASH_AND_SIGN, PSA_ALG_IS_MAC,
              PSA_ALG_IS_AEAD, PSA_ALG_CATEGORY_MAC, PSA_ALG_CATEGORY_AEAD
  <2>5. QED
    BY <1>1, <2>1, <2>3, <2>4
<1>5. CASE IsPlain(m, a) \/ IsKeyed(m, a) \/ IsAgreement(m, a)
  <2>1. /\ a.cat \notin {3, 5} /\ m.scheme \notin SignatureSchemes
        /\ m.hash # 255 /\ ~m.wild
    <3>1. CASE IsPlain(m, a)
      BY <3>1, HashNumbersBound DEF IsPlain, Plain, SignatureSchemes
    <3>2. CASE IsKeyed(m, a)
      BY <3>2 DEF IsKeyed, Plain, SignatureSchemes
    <3>3. CASE IsAgreement(m, a)
      BY <1>1, <3>3 DEF IsAgreement, SignatureSchemes, Table, Row
    <3>4. QED
      BY <1>5, <3>1, <3>2, <3>3
  <2>2. a # PSA_ALG_ANY_HASH
    BY <1>1, <2>1, OpenHash DEF Is
  <2>3. QED
    BY <1>2, <2>1, <2>2
    DEF PSA_ALG_IS_WILDCARD, PSA_ALG_IS_HASH_AND_SIGN, PSA_ALG_IS_MAC,
              PSA_ALG_IS_AEAD, PSA_ALG_CATEGORY_MAC, PSA_ALG_CATEGORY_AEAD
<1>6. QED
  BY <1>3, <1>4, <1>5 DEF IsBuilt

(* The length of a MAC as a function of the last length it was given.      *)
LEMMA MacRecovered ==
  ASSUME NEW m \in Mades, NEW a \in Algs, NEW type, IsMac(m, a)
  PROVE  /\ PSA_ALG_FULL_LENGTH_MAC(a) = m.base
         /\ m.len # 0 => PSA_MAC_LENGTH(type, a) = m.len
<1>1. /\ m.base \in Algs /\ m.len \in Nat /\ m.hash \in Nat
      /\ m.base.cat = 3 /\ m.base.len = 0 /\ m.base.least = 0 /\ m.base.hash = m.hash
      /\ a.cat = 3 /\ a.sub = m.base.sub /\ a.mid = m.base.mid /\ a.hash = m.hash
      /\ a.len = m.len % 64
  BY DEF IsMac, Is, Mades
<1>2. PSA_ALG_FULL_LENGTH_MAC(a) = m.base
  <2>1. PICK f : f = PSA_ALG_FULL_LENGTH_MAC(a)
    OBVIOUS
  <2>2. /\ f \in Algs /\ f.cat = a.cat /\ f.sub = a.sub /\ f.len = 0
        /\ f.least = 0 /\ f.mid = a.mid /\ f.hash = a.hash
    BY <2>1 DEF PSA_ALG_FULL_LENGTH_MAC, Algs
  <2>3. f = m.base
    BY <1>1, <2>2, SameFields
  <2>4. QED
    BY <2>1, <2>3
<1>3. ASSUME m.len # 0
      PROVE  PSA_MAC_LENGTH(type, a) = m.len
  <2>1. CASE m.len < 64
    <3>1. a.len = m.len
      BY <1>1, <2>1
    <3>2. QED
      BY <1>3, <3>1 DEF PSA_MAC_LENGTH, PSA_MAC_TRUNCATED_LENGTH
  <2>2. CASE m.len >= 64
    <3>1. m.scheme = "hmac" /\ m.hash \in Hashes /\ a.sub = 2
      BY <1>1, <2>2 DEF IsMac, Is
    <3>2. HashLengths[m.hash] \in 16 .. 64 /\ m.len <= HashLengths[m.hash]
      BY <3>1, HashNumbersBound DEF IsMac
    <3>3. m.len = 64 /\ HashLengths[m.hash] = 64
      BY <1>1, <2>2, <3>2
    <3>4. a.len = 0
      BY <1>1, <3>3
    <3>5. PSA_MAC_LENGTH(type, a) = PSA_HASH_LENGTH(PSA_ALG_HMAC_GET_HASH(a))
      BY <1>1, <3>1, <3>4 DEF PSA_MAC_LENGTH, PSA_MAC_TRUNCATED_LENGTH,
              PSA_ALG_IS_HMAC, PSA_ALG_IS_BLOCK_CIPHER_MAC, PSA_ALG_IS_MAC, PSA_ALG_CATEGORY_MAC
    <3>6. PSA_ALG_HMAC_GET_HASH(a).hash = m.hash
      BY <1>1 DEF PSA_ALG_HMAC_GET_HASH, PsaHash, Algorithm
    <3>7. m.hash \in DOMAIN HashLengths
      BY <3>1, KeyAttributesAssumption
    <3>8. QED
      BY <3>3, <3>5, <3>6, <3>7 DEF PSA_HASH_LENGTH
  <2>3. QED
    BY <1>1, <2>1, <2>2
<1>4. QED
  BY <1>2, <1>3

(* The three algorithms a tag of default length can belong to.             *)
LEMMA AeadBases ==
  /\ PSA_ALG_CCM \in Algs /\ Is(PSA_ALG_CCM, 5, 1, 16, 0, 1, 0)
  /\ PSA_ALG_GCM \in Algs /\ Is(PSA_ALG_GCM, 5, 1, 16, 0, 2, 0)
  /\ PSA_ALG_CHACHA20_POLY1305 \in Algs /\ Is(PSA_ALG_CHACHA20_POLY1305, 5, 0, 16, 0, 5, 0)
BY DEF PSA_ALG_CCM, PSA_ALG_GCM, PSA_ALG_CHACHA20_POLY1305, Algorithm, Algs, Is,
       PSA_ALG_CATEGORY_AEAD

LEMMA NoTag ==
  ASSUME NEW a \in Algs, NEW b \in Algs
  PROVE  PSA_ALG_AEAD_WITH_SHORTENED_TAG(a, 0) = PSA_ALG_AEAD_WITH_SHORTENED_TAG(b, 0)
           <=> a.cat = b.cat /\ a.sub = b.sub /\ a.mid = b.mid /\ a.hash = b.hash
<1>1. PICK c, d : /\ c = PSA_ALG_AEAD_WITH_SHORTENED_TAG(a, 0)
                  /\ d = PSA_ALG_AEAD_WITH_SHORTENED_TAG(b, 0)
  OBVIOUS
<1>2. /\ c \in Algs /\ Is(c, a.cat, a.sub, 0, 0, a.mid, a.hash)
      /\ d \in Algs /\ Is(d, b.cat, b.sub, 0, 0, b.mid, b.hash)
  <2>1. 0 % 64 = 0
    OBVIOUS
  <2>2. c = [a EXCEPT !.len = 0, !.least = 0] /\ d = [b EXCEPT !.len = 0, !.least = 0]
    BY ONLY <1>1, <2>1 DEF PSA_ALG_AEAD_WITH_SHORTENED_TAG
  <2>3. QED
    BY <2>2 DEF Algs, Is
<1>3. c = d <=> a.cat = b.cat /\ a.sub = b.sub /\ a.mid = b.mid /\ a.hash = b.hash
  BY <1>2, SameFields DEF Is
<1>4. QED
  BY <1>1, <1>3

LEMMA AeadRecovered ==
  ASSUME NEW m \in Mades, NEW a \in Algs, IsAead(m, a)
  PROVE  /\ PSA_ALG_AEAD_WITH_DEFAULT_LENGTH_TAG(a) = m.base
         /\ PSA_ALG_AEAD_GET_TAG_LENGTH(a)
               = IF m.len = 0 THEN PSA_AEAD_TAG_MAX_SIZE ELSE m.len
<1>1. /\ m.base \in {PSA_ALG_CCM, PSA_ALG_GCM, PSA_ALG_CHACHA20_POLY1305}
      /\ a.cat = 5 /\ a.sub = m.base.sub /\ a.mid = m.base.mid /\ a.hash = 0
      /\ a.len = IF m.len = 0 THEN 16 ELSE m.len
  BY DEF IsAead, Is
<1>2. ASSUME NEW r \in {PSA_ALG_CCM, PSA_ALG_GCM, PSA_ALG_CHACHA20_POLY1305}
      PROVE  PSA_ALG_AEAD_WITH_SHORTENED_TAG(a, 0) = PSA_ALG_AEAD_WITH_SHORTENED_TAG(r, 0)
               <=> r = m.base
  <2>1. r \in Algs /\ r.cat = 5 /\ r.hash = 0 /\ (r.sub = m.base.sub /\ r.mid = m.base.mid <=> r = m.base)
    BY <1>1, AeadBases DEF Is
  <2>2. QED
    BY <1>1, <2>1, NoTag
<1>3. PICK refs : refs = {r \in {PSA_ALG_CCM, PSA_ALG_GCM, PSA_ALG_CHACHA20_POLY1305} :
                    PSA_ALG_AEAD_WITH_SHORTENED_TAG(a, 0)
                        = PSA_ALG_AEAD_WITH_SHORTENED_TAG(r, 0)}
  OBVIOUS
<1>4. refs = {m.base}
  BY <1>1, <1>2, <1>3
<1>5. PSA_ALG_AEAD_WITH_DEFAULT_LENGTH_TAG(a)
        = IF refs = {} THEN PSA_ALG_NONE ELSE CHOOSE r \in refs : TRUE
  BY <1>3 DEF PSA_ALG_AEAD_WITH_DEFAULT_LENGTH_TAG
<1>6. PSA_ALG_AEAD_WITH_DEFAULT_LENGTH_TAG(a) = m.base
  BY <1>4, <1>5
<1>7. QED
  BY <1>1, <1>6 DEF PSA_ALG_AEAD_GET_TAG_LENGTH, PSA_AEAD_TAG_MAX_SIZE

LEMMA AgreementRecovered ==
  ASSUME NEW m \in Mades, NEW a \in Algs, IsAgreement(m, a)
  PROVE  /\ PSA_ALG_KEY_AGREEMENT_GET_BASE(a) = m.base
         /\ m.kdf # PSA_ALG_NONE => PSA_ALG_KEY_AGREEMENT_GET_KDF(a) = m.kdf
<1>1. m.base \in Algs /\ m.kdf \in Algs
  BY DEF Mades
<1>2. /\ m.base.cat = 9 /\ m.base.sub = 0 /\ m.base.least = 0 /\ m.base.mid = 0
      /\ m.base.hash = 0
  BY DEF IsAgreement, PSA_ALG_FFDH, PSA_ALG_ECDH, Algorithm, PSA_ALG_CATEGORY_KEY_AGREEMENT
<1>3. a.cat = 9 /\ a.sub = 0 /\ a.len = m.base.len /\ a.least = 0
  <2>1. CASE a = m.base
    BY <1>2, <2>1
  <2>2. CASE \E mid \in 1 .. 3 : Is(a, 9, 0, m.base.len, 0, mid, m.hash)
    BY <2>2 DEF Is
  <2>3. QED
    BY <2>1, <2>2 DEF IsAgreement
<1>4. Raised(Raised(a.cat, 1), 8) = 9 /\ Raised(a.cat - (a.cat % 2), 8) = 8
  BY <1>3 DEF Raised
<1>5. PSA_ALG_KEY_AGREEMENT_GET_BASE(a) = m.base
  <2>1. PICK b : b = PSA_ALG_KEY_AGREEMENT_GET_BASE(a)
    OBVIOUS
  <2>2. b \in Algs /\ Is(b, 9, 0, m.base.len, 0, 0, 0)
    BY <1>3, <1>4, <2>1 DEF PSA_ALG_KEY_AGREEMENT_GET_BASE, Algs, Is
  <2>3. b = m.base
    BY <1>1, <1>2, <2>2, SameFields DEF Is
  <2>4. QED
    BY <2>1, <2>3
<1>6. ASSUME m.kdf # PSA_ALG_NONE
      PROVE  PSA_ALG_KEY_AGREEMENT_GET_KDF(a) = m.kdf
  <2>1. PICK k : k = PSA_ALG_KEY_AGREEMENT_GET_KDF(a)
    OBVIOUS
  <2>2. k \in Algs /\ Is(k, 8, 0, 0, 0, a.mid, a.hash)
    <3>1. k = [a EXCEPT !.cat = 8, !.sub = 0, !.len = 0]
      BY ONLY <1>4, <2>1 DEF PSA_ALG_KEY_AGREEMENT_GET_KDF
    <3>2. QED
      BY <1>3, <3>1 DEF Algs, Is
  <2>3. PICK mid \in 1 .. 3 : /\ Is(m.kdf, 8, 0, 0, 0, mid, m.hash)
                              /\ Is(a, 9, 0, m.base.len, 0, mid, m.hash)
    BY <1>6 DEF IsAgreement
  <2>4. k = m.kdf
    BY <1>1, <2>2, <2>3, SameFields DEF Is
  <2>5. QED
    BY <2>1, <2>4
<1>7. QED
  BY <1>5, <1>6

-----------------------------------------------------------------------------
(* What the constructors build *)

Built(m) == m \in Mades /\ m.base \in Algs /\ IsBuilt(m, m.base)

LEMMA NoneIsAlg == PSA_ALG_NONE \in Algs /\ Is(PSA_ALG_NONE, 0, 0, 0, 0, 0, 0)
BY DEF PSA_ALG_NONE, Algorithm, Algs, Is

(* An algorithm of a scheme that takes a hash.                             *)
LEMMA WithHashMade ==
  ASSUME NEW scheme \in Schemes, NEW base \in Algs, NEW n \in Nat, NEW m,
         m = Made(scheme, WithHash(base, PsaHash(n)), n, PSA_ALG_NONE)
  PROVE  /\ m \in Mades
         /\ m.scheme = scheme /\ m.hash = n /\ m.kdf = PSA_ALG_NONE /\ m.len = 0 /\ ~m.wild
         /\ m.base \in Algs
         /\ Is(m.base, base.cat, base.sub, base.len, base.least, base.mid, n)
<1>1. PICK b : b = WithHash(base, PsaHash(n))
  OBVIOUS
<1>2. PsaHash(n).hash = n
  BY DEF PsaHash, Algorithm
<1>3. b = [base EXCEPT !.hash = n]
  BY ONLY <1>1, <1>2 DEF WithHash
<1>4. b \in Algs /\ Is(b, base.cat, base.sub, base.len, base.least, base.mid, n)
  BY <1>3 DEF Algs, Is
<1>5. m = Made(scheme, b, n, PSA_ALG_NONE)
  BY <1>1
<1>6. QED
  BY <1>4, <1>5, NoneIsAlg DEF Made, Mades

(* An algorithm given by its value.                                        *)
LEMMA FixedMade ==
  ASSUME NEW scheme \in Schemes, NEW a \in Algs, NEW n \in Nat, NEW m,
         m = Made(scheme, a, n, PSA_ALG_NONE)
  PROVE  /\ m \in Mades
         /\ m.scheme = scheme /\ m.hash = n /\ m.kdf = PSA_ALG_NONE /\ m.len = 0 /\ ~m.wild
         /\ m.base = a
BY NoneIsAlg DEF Made, Mades

LEMMA MacsBuilt == \A m \in Macs : Built(m) /\ IsMac(m, m.base)
<1>1. ASSUME NEW n \in Hashes, NEW m, m = Made("hmac", PSA_ALG_HMAC(PsaHash(n)), n, PSA_ALG_NONE)
      PROVE  Built(m) /\ IsMac(m, m.base)
  <2>1. PSA_ALG_HMAC_BASE \in Algs /\ Is(PSA_ALG_HMAC_BASE, 3, 2, 0, 0, 0, 0)
    BY DEF PSA_ALG_HMAC_BASE, Algorithm, Algs, Is, PSA_ALG_CATEGORY_MAC
  <2>2. m = Made("hmac", WithHash(PSA_ALG_HMAC_BASE, PsaHash(n)), n, PSA_ALG_NONE)
    BY <1>1 DEF PSA_ALG_HMAC
  <2>3. n \in Nat /\ HashLengths[n] \in 16 .. 64 /\ "hmac" \in Schemes
    BY HashNumbersBound DEF Schemes
  <2>4. /\ m \in Mades
        /\ m.scheme = "hmac" /\ m.hash = n /\ m.kdf = PSA_ALG_NONE /\ m.len = 0 /\ ~m.wild
        /\ m.base \in Algs
        /\ Is(m.base, 3, 2, 0, 0, 0, n)
    BY <2>1, <2>2, <2>3, WithHashMade DEF Is
  <2>5. 0 % 64 = 0
    OBVIOUS
  <2>6. IsMac(m, m.base)
    BY <2>3, <2>4, <2>5 DEF IsMac, Is
  <2>7. QED
    BY <2>4, <2>6 DEF Built, IsBuilt
<1>2. ASSUME NEW a \in {PSA_ALG_CBC_MAC, PSA_ALG_CMAC}, NEW m,
             m = Made("cipher_mac", a, 0, PSA_ALG_NONE)
      PROVE  Built(m) /\ IsMac(m, m.base)
  <2>1. a \in Algs /\ (Is(a, 3, 3, 0, 0, 1, 0) \/ Is(a, 3, 3, 0, 0, 2, 0))
    BY DEF PSA_ALG_CBC_MAC, PSA_ALG_CMAC, Algorithm, Algs, Is, PSA_ALG_CATEGORY_MAC
  <2>2. "cipher_mac" \in Schemes
    BY DEF Schemes
  <2>3. /\ m \in Mades
        /\ m.scheme = "cipher_mac" /\ m.hash = 0 /\ m.kdf = PSA_ALG_NONE /\ m.len = 0
        /\ ~m.wild /\ m.base = a
    BY <1>2, <2>1, <2>2, FixedMade
  <2>4. 0 % 64 = 0
    OBVIOUS
  <2>5. IsMac(m, m.base)
    BY <2>1, <2>3, <2>4 DEF IsMac, Is
  <2>6. QED
    BY <2>1, <2>3, <2>5 DEF Built, IsBuilt
<1>3. QED
  BY <1>1, <1>2 DEF Macs, Hashed, Fixed

HashedAs(m, scheme, cat, sub, mid, n) ==
    m = Made(scheme, WithHash(Algorithm(cat, sub, 0, 0, mid, 0), PsaHash(n)), n, PSA_ALG_NONE)

FixedAs(m, scheme, cat, sub, least, mid, hash) ==
    m = Made(scheme, Algorithm(cat, sub, 0, least, mid, hash), hash, PSA_ALG_NONE)

(* A scheme with the fields of its algorithm, no length given.             *)
Simple(m, scheme, cat, sub, least, mid, hash) ==
    /\ m \in Mades /\ m.base \in Algs /\ m.scheme = scheme /\ m.hash = hash
    /\ Plain(m, m.base, cat, sub, least, {mid})

LEMMA HashedPlain ==
  ASSUME NEW scheme \in Schemes, NEW cat \in Nat, NEW sub \in Nat, NEW mid \in Nat,
         NEW n \in Nat, NEW m, HashedAs(m, scheme, cat, sub, mid, n)
  PROVE  Simple(m, scheme, cat, sub, 0, mid, n)
<1>1. PICK b : b = Algorithm(cat, sub, 0, 0, mid, 0)
  OBVIOUS
<1>2. b \in Algs /\ Is(b, cat, sub, 0, 0, mid, 0)
  BY <1>1 DEF Algorithm, Algs, Is
<1>3. m = Made(scheme, WithHash(b, PsaHash(n)), n, PSA_ALG_NONE)
  BY <1>1 DEF HashedAs
<1>4. /\ m \in Mades
      /\ m.scheme = scheme /\ m.hash = n /\ m.kdf = PSA_ALG_NONE /\ m.len = 0 /\ ~m.wild
      /\ m.base \in Algs
      /\ Is(m.base, b.cat, b.sub, b.len, b.least, b.mid, n)
  BY ONLY <1>2, <1>3, WithHashMade, scheme \in Schemes, n \in Nat
<1>5. QED
  BY <1>2, <1>4 DEF Simple, Plain, Is

LEMMA FixedPlain ==
  ASSUME NEW scheme \in Schemes, NEW cat \in Nat, NEW sub \in Nat, NEW least \in Nat,
         NEW mid \in Nat, NEW hash \in Nat, NEW m,
         FixedAs(m, scheme, cat, sub, least, mid, hash)
  PROVE  Simple(m, scheme, cat, sub, least, mid, hash)
<1>1. PICK b : b = Algorithm(cat, sub, 0, least, mid, hash)
  OBVIOUS
<1>2. b \in Algs /\ Is(b, cat, sub, 0, least, mid, hash)
  BY <1>1 DEF Algorithm, Algs, Is
<1>3. m = Made(scheme, b, hash, PSA_ALG_NONE)
  BY <1>1 DEF FixedAs
<1>4. /\ m \in Mades
      /\ m.scheme = scheme /\ m.hash = hash /\ m.kdf = PSA_ALG_NONE /\ m.len = 0 /\ ~m.wild
      /\ m.base = b
  BY ONLY <1>2, <1>3, FixedMade, scheme \in Schemes, hash \in Nat
<1>5. QED
  BY <1>2, <1>4 DEF Simple, Plain, Is

LEMMA HashesBuilt == \A m \in Hashed("hash", LAMBDA h : h, Hashes) : Built(m)
<1>1. ASSUME NEW n \in Hashes, NEW m, m = Made("hash", PsaHash(n), n, PSA_ALG_NONE)
      PROVE  Built(m)
  <2>1. FixedAs(m, "hash", 2, 0, 0, 0, n)
    BY ONLY <1>1 DEF FixedAs, PsaHash, PSA_ALG_CATEGORY_HASH
  <2>2. "hash" \in Schemes /\ n \in Nat
    BY HashNumbersBound DEF Schemes
  <2>3. Simple(m, "hash", 2, 0, 0, 0, n)
    BY <2>1, <2>2, FixedPlain
  <2>4. QED
    BY <2>3 DEF Simple, Built, IsBuilt, IsPlain
<1>2. QED
  BY <1>1 DEF Hashed

LEMMA CiphersBuilt == \A m \in Ciphers : Built(m)
<1>1. ASSUME NEW m, m = Made("stream", PSA_ALG_STREAM_CIPHER, 0, PSA_ALG_NONE)
      PROVE  Built(m)
  <2>1. FixedAs(m, "stream", 4, 2, 0, 1, 0)
    BY ONLY <1>1 DEF FixedAs, PSA_ALG_STREAM_CIPHER, PSA_ALG_CATEGORY_CIPHER
  <2>2. "stream" \in Schemes
    BY DEF Schemes
  <2>3. Simple(m, "stream", 4, 2, 0, 1, 0)
    BY <2>1, <2>2, FixedPlain
  <2>4. QED
    BY <2>3 DEF Simple, Built, IsBuilt, IsPlain, Plain
<1>2. ASSUME NEW m, m = Made("stream", PSA_ALG_CTR, 0, PSA_ALG_NONE)
      PROVE  Built(m)
  <2>1. FixedAs(m, "stream", 4, 3, 0, 16, 0)
    BY ONLY <1>2 DEF FixedAs, PSA_ALG_CTR, PSA_ALG_CATEGORY_CIPHER
  <2>2. "stream" \in Schemes
    BY DEF Schemes
  <2>3. Simple(m, "stream", 4, 3, 0, 16, 0)
    BY <2>1, <2>2, FixedPlain
  <2>4. QED
    BY <2>3 DEF Simple, Built, IsBuilt, IsPlain, Plain
<1>3. ASSUME NEW m, m = Made("stream", PSA_ALG_CFB, 0, PSA_ALG_NONE)
      PROVE  Built(m)
  <2>1. FixedAs(m, "stream", 4, 3, 0, 17, 0)
    BY ONLY <1>3 DEF FixedAs, PSA_ALG_CFB, PSA_ALG_CATEGORY_CIPHER
  <2>2. "stream" \in Schemes
    BY DEF Schemes
  <2>3. Simple(m, "stream", 4, 3, 0, 17, 0)
    BY <2>1, <2>2, FixedPlain
  <2>4. QED
    BY <2>3 DEF Simple, Built, IsBuilt, IsPlain, Plain
<1>4. ASSUME NEW m, m = Made("stream", PSA_ALG_OFB, 0, PSA_ALG_NONE)
      PROVE  Built(m)
  <2>1. FixedAs(m, "stream", 4, 3, 0, 18, 0)
    BY ONLY <1>4 DEF FixedAs, PSA_ALG_OFB, PSA_ALG_CATEGORY_CIPHER
  <2>2. "stream" \in Schemes
    BY DEF Schemes
  <2>3. Simple(m, "stream", 4, 3, 0, 18, 0)
    BY <2>1, <2>2, FixedPlain
  <2>4. QED
    BY <2>3 DEF Simple, Built, IsBuilt, IsPlain, Plain
<1>5. ASSUME NEW m, m = Made("stream", PSA_ALG_CCM_STAR_NO_TAG, 0, PSA_ALG_NONE)
      PROVE  Built(m)
  <2>1. FixedAs(m, "stream", 4, 3, 0, 19, 0)
    BY ONLY <1>5 DEF FixedAs, PSA_ALG_CCM_STAR_NO_TAG, PSA_ALG_CATEGORY_CIPHER
  <2>2. "stream" \in Schemes
    BY DEF Schemes
  <2>3. Simple(m, "stream", 4, 3, 0, 19, 0)
    BY <2>1, <2>2, FixedPlain
  <2>4. QED
    BY <2>3 DEF Simple, Built, IsBuilt, IsPlain, Plain
<1>6. ASSUME NEW m, m = Made("block", PSA_ALG_XTS, 0, PSA_ALG_NONE)
      PROVE  Built(m)
  <2>1. FixedAs(m, "block", 4, 1, 1, 127, 0)
    BY ONLY <1>6 DEF FixedAs, PSA_ALG_XTS, PSA_ALG_CATEGORY_CIPHER
  <2>2. "block" \in Schemes
    BY DEF Schemes
  <2>3. Simple(m, "block", 4, 1, 1, 127, 0)
    BY <2>1, <2>2, FixedPlain
  <2>4. QED
    BY <2>3 DEF Simple, Built, IsBuilt, IsPlain, Plain
<1>7. ASSUME NEW m, m = Made("block", PSA_ALG_ECB_NO_PADDING, 0, PSA_ALG_NONE)
      PROVE  Built(m)
  <2>1. FixedAs(m, "block", 4, 1, 0, 68, 0)
    BY ONLY <1>7 DEF FixedAs, PSA_ALG_ECB_NO_PADDING, PSA_ALG_CATEGORY_CIPHER
  <2>2. "block" \in Schemes
    BY DEF Schemes
  <2>3. Simple(m, "block", 4, 1, 0, 68, 0)
    BY <2>1, <2>2, FixedPlain
  <2>4. QED
    BY <2>3 DEF Simple, Built, IsBuilt, IsPlain, Plain
<1>8. ASSUME NEW m, m = Made("block", PSA_ALG_CBC_NO_PADDING, 0, PSA_ALG_NONE)
      PROVE  Built(m)
  <2>1. FixedAs(m, "block", 4, 1, 0, 64, 0)
    BY ONLY <1>8 DEF FixedAs, PSA_ALG_CBC_NO_PADDING, PSA_ALG_CATEGORY_CIPHER
  <2>2. "block" \in Schemes
    BY DEF Schemes
  <2>3. Simple(m, "block", 4, 1, 0, 64, 0)
    BY <2>1, <2>2, FixedPlain
  <2>4. QED
    BY <2>3 DEF Simple, Built, IsBuilt, IsPlain, Plain
<1>9. ASSUME NEW m, m = Made("block", PSA_ALG_CBC_PKCS7, 0, PSA_ALG_NONE)
      PROVE  Built(m)
  <2>1. FixedAs(m, "block", 4, 1, 0, 65, 0)
    BY ONLY <1>9 DEF FixedAs, PSA_ALG_CBC_PKCS7, PSA_ALG_CATEGORY_CIPHER
  <2>2. "block" \in Schemes
    BY DEF Schemes
  <2>3. Simple(m, "block", 4, 1, 0, 65, 0)
    BY <2>1, <2>2, FixedPlain
  <2>4. QED
    BY <2>3 DEF Simple, Built, IsBuilt, IsPlain, Plain
<1>10. QED
  BY <1>1, <1>2, <1>3, <1>4, <1>5, <1>6, <1>7, <1>8, <1>9 DEF Ciphers, Fixed

LEMMA AeadsBuilt == \A m \in Aeads : Built(m) /\ IsAead(m, m.base)
<1>1. ASSUME NEW scheme \in {"aead_block", "aead_stream"}, NEW a, NEW m,
             \/ scheme = "aead_block" /\ a \in {PSA_ALG_CCM, PSA_ALG_GCM}
             \/ scheme = "aead_stream" /\ a = PSA_ALG_CHACHA20_POLY1305,
             m = Made(scheme, a, 0, PSA_ALG_NONE)
      PROVE  Built(m) /\ IsAead(m, m.base)
  <2>1. a \in Algs /\ Is(a, 5, a.sub, 16, 0, a.mid, 0)
    BY <1>1, AeadBases DEF Is
  <2>2. scheme \in Schemes
    BY DEF Schemes
  <2>3. /\ m \in Mades
        /\ m.scheme = scheme /\ m.hash = 0 /\ m.kdf = PSA_ALG_NONE /\ m.len = 0
        /\ ~m.wild /\ m.base = a
    BY <1>1, <2>1, <2>2, FixedMade
  <2>4. IsAead(m, m.base)
    BY <1>1, <2>1, <2>3 DEF IsAead, Is
  <2>5. QED
    BY <2>1, <2>3, <2>4 DEF Built, IsBuilt
<1>2. QED
  BY <1>1 DEF Aeads, Fixed

LEMMA SignaturesBuilt == \A m \in Signatures : Built(m)
<1> DEFINE hashes == Hashes \cup {PSA_ALG_ANY_HASH.hash}
<1>0. \A n \in hashes : n \in Nat
  BY HashNumbersBound, OpenHash, NoneIsAlg
<1> HIDE DEF hashes
<1>1. ASSUME NEW n \in hashes, NEW m, m = Made("pkcs1v15", PSA_ALG_RSA_PKCS1V15_SIGN(PsaHash(n)), n, PSA_ALG_NONE)
      PROVE  Built(m)
  <2>1. HashedAs(m, "pkcs1v15", 6, 0, 2, n)
    BY ONLY <1>1 DEF HashedAs, PSA_ALG_RSA_PKCS1V15_SIGN, PSA_ALG_RSA_PKCS1V15_SIGN_BASE, PSA_ALG_CATEGORY_SIGN
  <2>2. "pkcs1v15" \in Schemes
    BY DEF Schemes
  <2>3. Simple(m, "pkcs1v15", 6, 0, 0, 2, n)
    BY <1>0, <2>1, <2>2, HashedPlain
  <2>4. QED
    BY <1>0, <2>3 DEF Simple, Built, IsBuilt, IsSignature
<1>2. ASSUME NEW n \in hashes, NEW m, m = Made("pss", PSA_ALG_RSA_PSS(PsaHash(n)), n, PSA_ALG_NONE)
      PROVE  Built(m)
  <2>1. HashedAs(m, "pss", 6, 0, 3, n)
    BY ONLY <1>2 DEF HashedAs, PSA_ALG_RSA_PSS, PSA_ALG_RSA_PSS_BASE, PSA_ALG_CATEGORY_SIGN
  <2>2. "pss" \in Schemes
    BY DEF Schemes
  <2>3. Simple(m, "pss", 6, 0, 0, 3, n)
    BY <1>0, <2>1, <2>2, HashedPlain
  <2>4. QED
    BY <1>0, <2>3 DEF Simple, Built, IsBuilt, IsSignature
<1>3. ASSUME NEW n \in hashes, NEW m, m = Made("pss_any_salt", PSA_ALG_RSA_PSS_ANY_SALT(PsaHash(n)), n, PSA_ALG_NONE)
      PROVE  Built(m)
  <2>1. HashedAs(m, "pss_any_salt", 6, 0, 19, n)
    BY ONLY <1>3 DEF HashedAs, PSA_ALG_RSA_PSS_ANY_SALT, PSA_ALG_RSA_PSS_ANY_SALT_BASE, PSA_ALG_CATEGORY_SIGN
  <2>2. "pss_any_salt" \in Schemes
    BY DEF Schemes
  <2>3. Simple(m, "pss_any_salt", 6, 0, 0, 19, n)
    BY <1>0, <2>1, <2>2, HashedPlain
  <2>4. QED
    BY <1>0, <2>3 DEF Simple, Built, IsBuilt, IsSignature
<1>4. ASSUME NEW n \in hashes, NEW m, m = Made("ecdsa", PSA_ALG_ECDSA(PsaHash(n)), n, PSA_ALG_NONE)
      PROVE  Built(m)
  <2>1. HashedAs(m, "ecdsa", 6, 0, 6, n)
    BY ONLY <1>4 DEF HashedAs, PSA_ALG_ECDSA, PSA_ALG_ECDSA_BASE, PSA_ALG_CATEGORY_SIGN
  <2>2. "ecdsa" \in Schemes
    BY DEF Schemes
  <2>3. Simple(m, "ecdsa", 6, 0, 0, 6, n)
    BY <1>0, <2>1, <2>2, HashedPlain
  <2>4. QED
    BY <1>0, <2>3 DEF Simple, Built, IsBuilt, IsSignature
<1>5. ASSUME NEW n \in hashes, NEW m, m = Made("deterministic_ecdsa", PSA_ALG_DETERMINISTIC_ECDSA(PsaHash(n)), n, PSA_ALG_NONE)
      PROVE  Built(m)
  <2>1. HashedAs(m, "deterministic_ecdsa", 6, 0, 7, n)
    BY ONLY <1>5 DEF HashedAs, PSA_ALG_DETERMINISTIC_ECDSA, PSA_ALG_DETERMINISTIC_ECDSA_BASE, PSA_ALG_CATEGORY_SIGN
  <2>2. "deterministic_ecdsa" \in Schemes
    BY DEF Schemes
  <2>3. Simple(m, "deterministic_ecdsa", 6, 0, 0, 7, n)
    BY <1>0, <2>1, <2>2, HashedPlain
  <2>4. QED
    BY <1>0, <2>3 DEF Simple, Built, IsBuilt, IsSignature
<1>6. ASSUME NEW m, m = Made("pkcs1v15", PSA_ALG_RSA_PKCS1V15_SIGN_BASE, 0, PSA_ALG_NONE)
      PROVE  Built(m)
  <2>1. FixedAs(m, "pkcs1v15", 6, 0, 0, 2, 0)
    BY ONLY <1>6 DEF FixedAs, PSA_ALG_RSA_PKCS1V15_SIGN_BASE, PSA_ALG_CATEGORY_SIGN
  <2>2. "pkcs1v15" \in Schemes
    BY DEF Schemes
  <2>3. Simple(m, "pkcs1v15", 6, 0, 0, 2, 0)
    BY <2>1, <2>2, FixedPlain
  <2>4. QED
    BY <2>3 DEF Simple, Built, IsBuilt, IsSignature, Plain
<1>7. ASSUME NEW m, m = Made("ecdsa", PSA_ALG_ECDSA_BASE, 0, PSA_ALG_NONE)
      PROVE  Built(m)
  <2>1. FixedAs(m, "ecdsa", 6, 0, 0, 6, 0)
    BY ONLY <1>7 DEF FixedAs, PSA_ALG_ECDSA_BASE, PSA_ALG_CATEGORY_SIGN
  <2>2. "ecdsa" \in Schemes
    BY DEF Schemes
  <2>3. Simple(m, "ecdsa", 6, 0, 0, 6, 0)
    BY <2>1, <2>2, FixedPlain
  <2>4. QED
    BY <2>3 DEF Simple, Built, IsBuilt, IsSignature, Plain
<1>8. ASSUME NEW m, m = Made("eddsa", PSA_ALG_PURE_EDDSA, 0, PSA_ALG_NONE)
      PROVE  Built(m)
  <2>1. FixedAs(m, "eddsa", 6, 0, 0, 8, 0)
    BY ONLY <1>8 DEF FixedAs, PSA_ALG_PURE_EDDSA, PSA_ALG_CATEGORY_SIGN
  <2>2. "eddsa" \in Schemes
    BY DEF Schemes
  <2>3. Simple(m, "eddsa", 6, 0, 0, 8, 0)
    BY <2>1, <2>2, FixedPlain
  <2>4. QED
    BY <2>3 DEF Simple, Built, IsBuilt, IsSignature, Plain
<1>9. ASSUME NEW a \in {PSA_ALG_ED25519PH, PSA_ALG_ED448PH}, NEW m,
             m = Made("hash_eddsa", a, a.hash, PSA_ALG_NONE)
      PROVE  Built(m)
  <2>1. PICK n \in {11, 21} : a = WithHash(Algorithm(6, 0, 0, 0, 9, 0), PsaHash(n))
    <3>1. HashNumbers.SHA_512 = 11 /\ HashNumbers.SHAKE256_512 = 21
      BY DEF HashNumbers
    <3>2. QED
      BY <3>1 DEF PSA_ALG_ED25519PH, PSA_ALG_ED448PH, PSA_ALG_HASH_EDDSA_BASE, PSA_ALG_CATEGORY_SIGN
  <2>2. a.hash = n
    BY <2>1 DEF WithHash, PsaHash, Algorithm
  <2>3. HashedAs(m, "hash_eddsa", 6, 0, 9, n)
    BY <1>9, <2>1, <2>2 DEF HashedAs
  <2>4. "hash_eddsa" \in Schemes
    BY DEF Schemes
  <2>5. Simple(m, "hash_eddsa", 6, 0, 0, 9, n)
    BY <2>3, <2>4, HashedPlain
  <2>6. QED
    BY <2>5 DEF Simple, Built, IsBuilt, IsSignature
<1>10. QED
  BY <1>1, <1>2, <1>3, <1>4, <1>5, <1>6, <1>7, <1>8, <1>9 DEF Signatures, Hashed, Fixed, hashes

LEMMA HashesAreNat == \A n \in Hashes : n \in Nat /\ n # 255
BY HashNumbersBound

LEMMA EncryptionsBuilt == \A m \in Encryptions : Built(m)
<1>0. \A n \in Hashes : n \in Nat /\ n # 255
  BY HashesAreNat
<1>1. ASSUME NEW n \in Hashes, NEW m, m = Made("oaep", PSA_ALG_RSA_OAEP(PsaHash(n)), n, PSA_ALG_NONE)
      PROVE  Built(m)
  <2>1. HashedAs(m, "oaep", 7, 0, 3, n)
    BY ONLY <1>1 DEF HashedAs, PSA_ALG_RSA_OAEP, PSA_ALG_RSA_OAEP_BASE, PSA_ALG_CATEGORY_ASYMMETRIC_ENCRYPTION
  <2>2. "oaep" \in Schemes
    BY DEF Schemes
  <2>3. Simple(m, "oaep", 7, 0, 0, 3, n)
    BY <1>0, <2>1, <2>2, HashedPlain
  <2>4. QED
    BY <1>0, <2>3 DEF Simple, Built, IsBuilt, IsKeyed
<1>2. ASSUME NEW m, m = Made("pkcs1v15_crypt", PSA_ALG_RSA_PKCS1V15_CRYPT, 0, PSA_ALG_NONE)
      PROVE  Built(m)
  <2>1. FixedAs(m, "pkcs1v15_crypt", 7, 0, 0, 2, 0)
    BY ONLY <1>2 DEF FixedAs, PSA_ALG_RSA_PKCS1V15_CRYPT, PSA_ALG_CATEGORY_ASYMMETRIC_ENCRYPTION
  <2>2. "pkcs1v15_crypt" \in Schemes
    BY DEF Schemes
  <2>3. Simple(m, "pkcs1v15_crypt", 7, 0, 0, 2, 0)
    BY <2>1, <2>2, FixedPlain
  <2>4. QED
    BY <2>3 DEF Simple, Built, IsBuilt, IsKeyed, Plain
<1>3. QED
  BY <1>1, <1>2 DEF Encryptions, Hashed, Fixed

LEMMA DerivationsBuilt ==
  \A m \in Derivations : Built(m) /\ m.hash # 255
                         /\ \E mid \in 1 .. 3 : Is(m.base, 8, 0, 0, 0, mid, m.hash)
<1>0. \A n \in Hashes : n \in Nat /\ n # 255
  BY HashesAreNat
<1>1. ASSUME NEW n \in Hashes, NEW m, m = Made("hkdf", PSA_ALG_HKDF(PsaHash(n)), n, PSA_ALG_NONE)
      PROVE  Built(m) /\ m.hash # 255 /\ Is(m.base, 8, 0, 0, 0, 1, m.hash)
  <2>1. HashedAs(m, "hkdf", 8, 0, 1, n)
    BY ONLY <1>1 DEF HashedAs, PSA_ALG_HKDF, PSA_ALG_HKDF_BASE, PSA_ALG_CATEGORY_KEY_DERIVATION
  <2>2. "hkdf" \in Schemes
    BY DEF Schemes
  <2>3. Simple(m, "hkdf", 8, 0, 0, 1, n)
    BY <1>0, <2>1, <2>2, HashedPlain
  <2>4. QED
    BY <1>0, <2>3 DEF Simple, Built, IsBuilt, IsKeyed, Plain, Is
<1>2. ASSUME NEW n \in Hashes, NEW m, m = Made("tls12_prf", PSA_ALG_TLS12_PRF(PsaHash(n)), n, PSA_ALG_NONE)
      PROVE  Built(m) /\ m.hash # 255 /\ Is(m.base, 8, 0, 0, 0, 2, m.hash)
  <2>1. HashedAs(m, "tls12_prf", 8, 0, 2, n)
    BY ONLY <1>2 DEF HashedAs, PSA_ALG_TLS12_PRF, PSA_ALG_TLS12_PRF_BASE, PSA_ALG_CATEGORY_KEY_DERIVATION
  <2>2. "tls12_prf" \in Schemes
    BY DEF Schemes
  <2>3. Simple(m, "tls12_prf", 8, 0, 0, 2, n)
    BY <1>0, <2>1, <2>2, HashedPlain
  <2>4. QED
    BY <1>0, <2>3 DEF Simple, Built, IsBuilt, IsKeyed, Plain, Is
<1>3. ASSUME NEW n \in Hashes, NEW m, m = Made("tls12_psk_to_ms", PSA_ALG_TLS12_PSK_TO_MS(PsaHash(n)), n, PSA_ALG_NONE)
      PROVE  Built(m) /\ m.hash # 255 /\ Is(m.base, 8, 0, 0, 0, 3, m.hash)
  <2>1. HashedAs(m, "tls12_psk_to_ms", 8, 0, 3, n)
    BY ONLY <1>3 DEF HashedAs, PSA_ALG_TLS12_PSK_TO_MS, PSA_ALG_TLS12_PSK_TO_MS_BASE, PSA_ALG_CATEGORY_KEY_DERIVATION
  <2>2. "tls12_psk_to_ms" \in Schemes
    BY DEF Schemes
  <2>3. Simple(m, "tls12_psk_to_ms", 8, 0, 0, 3, n)
    BY <1>0, <2>1, <2>2, HashedPlain
  <2>4. QED
    BY <1>0, <2>3 DEF Simple, Built, IsBuilt, IsKeyed, Plain, Is
<1>4. QED
  BY <1>1, <1>2, <1>3 DEF Derivations, Hashed

LEMMA StretchingsBuilt == \A m \in Stretchings : Built(m)
<1>0. \A n \in Hashes : n \in Nat /\ n # 255
  BY HashesAreNat
<1>1. ASSUME NEW n \in Hashes, NEW m, m = Made("pbkdf2", PSA_ALG_PBKDF2_HMAC(PsaHash(n)), n, PSA_ALG_NONE)
      PROVE  Built(m)
  <2>1. HashedAs(m, "pbkdf2", 8, 2, 1, n)
    BY ONLY <1>1 DEF HashedAs, PSA_ALG_PBKDF2_HMAC, PSA_ALG_PBKDF2_HMAC_BASE, PSA_ALG_CATEGORY_KEY_DERIVATION
  <2>2. "pbkdf2" \in Schemes
    BY DEF Schemes
  <2>3. Simple(m, "pbkdf2", 8, 2, 0, 1, n)
    BY <1>0, <2>1, <2>2, HashedPlain
  <2>4. QED
    BY <1>0, <2>3 DEF Simple, Built, IsBuilt, IsKeyed
<1>2. ASSUME NEW m, m = Made("pbkdf2_cmac", PSA_ALG_PBKDF2_AES_CMAC_PRF_128, 0, PSA_ALG_NONE)
      PROVE  Built(m)
  <2>1. FixedAs(m, "pbkdf2_cmac", 8, 2, 0, 2, 0)
    BY ONLY <1>2 DEF FixedAs, PSA_ALG_PBKDF2_AES_CMAC_PRF_128, PSA_ALG_CATEGORY_KEY_DERIVATION
  <2>2. "pbkdf2_cmac" \in Schemes
    BY DEF Schemes
  <2>3. Simple(m, "pbkdf2_cmac", 8, 2, 0, 2, 0)
    BY <2>1, <2>2, FixedPlain
  <2>4. QED
    BY <2>3 DEF Simple, Built, IsBuilt, IsKeyed, Plain
<1>3. QED
  BY <1>1, <1>2 DEF Stretchings, Hashed, Fixed

LEMMA AgreementBases ==
  /\ PSA_ALG_FFDH \in Algs /\ Is(PSA_ALG_FFDH, 9, 0, 1, 0, 0, 0)
  /\ PSA_ALG_ECDH \in Algs /\ Is(PSA_ALG_ECDH, 9, 0, 2, 0, 0, 0)
BY DEF PSA_ALG_FFDH, PSA_ALG_ECDH, Algorithm, Algs, Is, PSA_ALG_CATEGORY_KEY_AGREEMENT

LEMMA AgreementsBuilt ==
  \A m \in Agreements :
      /\ Built(m)
      /\ m.len = 0 /\ ~m.wild
      /\ \/ m.scheme = "ffdh" /\ m.base = PSA_ALG_FFDH
         \/ m.scheme = "ecdh" /\ m.base = PSA_ALG_ECDH
<1>1. ASSUME NEW scheme \in {"ffdh", "ecdh"}, NEW a, NEW m,
             \/ scheme = "ffdh" /\ a = PSA_ALG_FFDH
             \/ scheme = "ecdh" /\ a = PSA_ALG_ECDH,
             m = Made(scheme, a, 0, PSA_ALG_NONE)
      PROVE  /\ Built(m)
             /\ m.len = 0 /\ ~m.wild
             /\ \/ m.scheme = "ffdh" /\ m.base = PSA_ALG_FFDH
                \/ m.scheme = "ecdh" /\ m.base = PSA_ALG_ECDH
  <2>1. a \in Algs
    BY <1>1, AgreementBases
  <2>2. scheme \in Schemes
    BY DEF Schemes
  <2>3. /\ m \in Mades
        /\ m.scheme = scheme /\ m.hash = 0 /\ m.kdf = PSA_ALG_NONE /\ m.len = 0
        /\ ~m.wild /\ m.base = a
    BY <1>1, <2>1, <2>2, FixedMade
  <2>4. IsAgreement(m, m.base)
    BY <1>1, <2>3 DEF IsAgreement
  <2>5. QED
    BY <1>1, <2>1, <2>3, <2>4 DEF Built, IsBuilt
<1>2. QED
  BY <1>1 DEF Agreements, Fixed

-----------------------------------------------------------------------------
(* What the modifiers do *)

LEMMA AgreementCombined ==
  ASSUME NEW x \in Agreements, NEW d \in Derivations, NEW m, NEW a,
         m = [x EXCEPT !.kdf = d.base, !.hash = d.hash],
         a = PSA_ALG_KEY_AGREEMENT(x.base, d.base)
  PROVE  m \in Mades /\ a \in Algs /\ IsBuilt(m, a)
<1>1. /\ x \in Mades /\ x.base \in Algs /\ x.len = 0 /\ ~x.wild
      /\ \/ x.scheme = "ffdh" /\ x.base = PSA_ALG_FFDH
         \/ x.scheme = "ecdh" /\ x.base = PSA_ALG_ECDH
  BY AgreementsBuilt DEF Built
<1>2. /\ d \in Mades /\ d.base \in Algs /\ d.hash # 255
  BY DerivationsBuilt DEF Built
<1>3. PICK mid \in 1 .. 3 : Is(d.base, 8, 0, 0, 0, mid, d.hash)
  BY DerivationsBuilt
<1>4. /\ m \in Mades /\ m.scheme = x.scheme /\ m.base = x.base /\ m.len = x.len
      /\ m.wild = x.wild /\ m.kdf = d.base /\ m.hash = d.hash
  BY <1>1, <1>2, ZenonT(40) DEF Mades
<1>5. a = [x.base EXCEPT !.sub = d.base.sub, !.mid = d.base.mid, !.hash = d.base.hash]
  BY DEF PSA_ALG_KEY_AGREEMENT
<1>6. x.base.cat = 9 /\ x.base.least = 0
  BY <1>1, AgreementBases DEF Is
<1>7. a \in Algs /\ Is(a, 9, 0, x.base.len, 0, mid, d.hash)
  <2>1. a = [x.base EXCEPT !.sub = 0, !.mid = mid, !.hash = d.hash]
    BY <1>3, <1>5 DEF Is
  <2>2. mid \in Nat /\ d.hash \in Nat
    BY <1>2 DEF Mades
  <2>3. QED
    BY <1>1, <1>6, <2>1, <2>2 DEF Algs, Is
<1>8. IsAgreement(m, a)
  BY <1>1, <1>2, <1>3, <1>4, <1>7 DEF IsAgreement
<1>9. QED
  BY <1>4, <1>7, <1>8 DEF IsBuilt

(* Which algorithms the guards of the modifiers let through.               *)
LEMMA OnlyMacs ==
  ASSUME NEW m \in Mades, NEW a \in Algs, IsBuilt(m, a)
  PROVE  /\ PSA_ALG_IS_MAC(a) <=> IsMac(m, a)
         /\ PSA_ALG_IS_AEAD(a) <=> IsAead(m, a)
         /\ PSA_ALG_IS_KEY_AGREEMENT(a) <=> IsAgreement(m, a)
<1>1. Table(m.scheme, a)
  BY BuiltInTable
<1>2. a.cat = 3 <=> IsMac(m, a)
  BY <1>1 DEF IsBuilt, IsPlain, IsSignature, IsKeyed, IsAead, IsAgreement, Plain, Is, Table, Row, IsMac
<1>3. a.cat = 5 <=> IsAead(m, a)
  BY <1>1 DEF IsBuilt, IsPlain, IsSignature, IsKeyed, IsAead, IsAgreement, Plain, Is, Table, Row, IsMac
<1>4. a.cat = 9 <=> IsAgreement(m, a)
  BY <1>1 DEF IsBuilt, IsPlain, IsSignature, IsKeyed, IsAead, IsAgreement, Plain, Is, Table, Row, IsMac
<1>5. QED
  BY <1>2, <1>3, <1>4 DEF PSA_ALG_IS_MAC, PSA_ALG_IS_AEAD, PSA_ALG_IS_KEY_AGREEMENT,
       PSA_ALG_CATEGORY_MAC, PSA_ALG_CATEGORY_AEAD, PSA_ALG_CATEGORY_KEY_AGREEMENT

(* The block of a cipher has at most 16 bytes.                             *)
AllTypes == KeyTypes \cup {PSA_KEY_TYPE_NONE}

LEMMA BlockLengths ==
  ASSUME NEW type \in AllTypes
  PROVE  PSA_BLOCK_CIPHER_BLOCK_LENGTH(type) \in {0, 1, 2, 4, 8, 16}
<1>1. type.cat \in Nat /\ type.blk \in 0 .. 15 /\ PSA_BLOCK_CIPHER_BLOCK_LENGTH(type) <= 16
  <2>1. CASE type \in KeyTypes
    BY <2>1, KeyAttributesAssumption DEF KeyTypeValues, PSA_BLOCK_CIPHER_BLOCK_MAX_SIZE
  <2>2. CASE type = PSA_KEY_TYPE_NONE
    BY <2>2 DEF PSA_KEY_TYPE_NONE, KeyType, PSA_BLOCK_CIPHER_BLOCK_LENGTH,
                PSA_KEY_TYPE_CATEGORY_SYMMETRIC
  <2>3. QED
    BY <2>1, <2>2 DEF AllTypes
<1>2. PICK e : e = type.blk % 8
  OBVIOUS
<1>3. e \in 0 .. 7
  BY <1>1, <1>2
<1>4. PowerOfTwo[e] \in {1, 2, 4, 8, 16, 32, 64, 128}
  <2>1. CASE e = 0
    BY <2>1 DEF PowerOfTwo
  <2>2. CASE e = 1
    BY <2>2 DEF PowerOfTwo
  <2>3. CASE e = 2
    BY <2>3 DEF PowerOfTwo
  <2>4. CASE e = 3
    BY <2>4 DEF PowerOfTwo
  <2>5. CASE e = 4
    BY <2>5 DEF PowerOfTwo
  <2>6. CASE e = 5
    BY <2>6 DEF PowerOfTwo
  <2>7. CASE e = 6
    BY <2>7 DEF PowerOfTwo
  <2>8. CASE e = 7
    BY <2>8 DEF PowerOfTwo
  <2>9. QED
    BY <1>3, <2>1, <2>2, <2>3, <2>4, <2>5, <2>6, <2>7, <2>8
<1>5. QED
  BY <1>1, <1>2, <1>4 DEF PSA_BLOCK_CIPHER_BLOCK_LENGTH

(* A length is given to a MAC.                                             *)
MacGiven(m, a, n, wild, k, b) ==
    /\ b = IF wild THEN PSA_ALG_AT_LEAST_THIS_LENGTH_MAC(a, n) ELSE PSA_ALG_TRUNCATED_MAC(a, n)
    /\ k = [m EXCEPT !.len = n, !.wild = wild]

LEMMA MacTruncated ==
  ASSUME NEW m \in Mades, NEW a \in Algs, NEW type \in AllTypes, NEW n \in Nat,
         NEW wild \in BOOLEAN, NEW b, NEW k,
         IsMac(m, a), n <= PSA_MAC_LENGTH(type, m.base), MacGiven(m, a, n, wild, k, b)
  PROVE  k \in Mades /\ b \in Algs /\ IsMac(k, b)
<1> USE DEF MacGiven
<1>1. /\ k \in Mades /\ k.scheme = m.scheme /\ k.base = m.base /\ k.hash = m.hash
      /\ k.kdf = m.kdf /\ k.len = n /\ k.wild = wild
  BY DEF Mades
<1>2. n % 64 \in Nat
  OBVIOUS
<1>3. b = [a EXCEPT !.len = n % 64, !.least = IF wild THEN 1 ELSE 0]
  <2>1. CASE wild
    BY <2>1 DEF PSA_ALG_AT_LEAST_THIS_LENGTH_MAC, PSA_ALG_TRUNCATED_MAC, Algs
  <2>2. CASE ~wild
    BY <2>2 DEF PSA_ALG_TRUNCATED_MAC
  <2>3. QED
    BY <2>1, <2>2
<1>4. /\ b \in Algs
      /\ Is(b, a.cat, a.sub, n % 64, IF wild THEN 1 ELSE 0, a.mid, a.hash)
  <2>1. PICK l \in Nat : l = IF wild THEN 1 ELSE 0
    OBVIOUS
  <2>2. b = [a EXCEPT !.len = n % 64, !.least = l]
    BY <1>3, <2>1
  <2>3. b \in Algs /\ Is(b, a.cat, a.sub, n % 64, l, a.mid, a.hash)
    BY <1>2, <2>2 DEF Algs, Is
  <2>4. QED
    BY <2>1, <2>3
<1>5. m.base.len = 0 /\ m.base.hash = m.hash /\ m.base.cat = 3
  BY DEF IsMac, Is
<1>6. m.scheme = "hmac" => n <= HashLengths[m.hash]
  <2>1. SUFFICES ASSUME m.scheme = "hmac"
                 PROVE  n <= HashLengths[m.hash]
    OBVIOUS
  <2>2. m.base.sub = 2 /\ m.hash \in Hashes
    BY <2>1 DEF IsMac, Is
  <2>3. PSA_MAC_LENGTH(type, m.base) = PSA_HASH_LENGTH(PSA_ALG_HMAC_GET_HASH(m.base))
    BY <1>5, <2>2 DEF PSA_MAC_LENGTH, PSA_MAC_TRUNCATED_LENGTH,
              PSA_ALG_IS_HMAC, PSA_ALG_IS_BLOCK_CIPHER_MAC, PSA_ALG_IS_MAC, PSA_ALG_CATEGORY_MAC
  <2>4. PSA_ALG_HMAC_GET_HASH(m.base).hash = m.hash
    BY <1>5 DEF PSA_ALG_HMAC_GET_HASH, PsaHash, Algorithm
  <2>5. m.hash \in DOMAIN HashLengths
    BY <2>2, KeyAttributesAssumption
  <2>6. QED
    BY <2>3, <2>4, <2>5 DEF PSA_HASH_LENGTH
<1>7. m.scheme = "cipher_mac" => n <= 16
  <2>1. SUFFICES ASSUME m.scheme = "cipher_mac"
                 PROVE  n <= 16
    OBVIOUS
  <2>2. m.base.sub = 3
    BY <2>1 DEF IsMac, Is
  <2>3. PSA_MAC_LENGTH(type, m.base) = PSA_BLOCK_CIPHER_BLOCK_LENGTH(type)
    BY <1>5, <2>2 DEF PSA_MAC_LENGTH, PSA_MAC_TRUNCATED_LENGTH,
              PSA_ALG_IS_HMAC, PSA_ALG_IS_BLOCK_CIPHER_MAC, PSA_ALG_IS_MAC, PSA_ALG_CATEGORY_MAC
  <2>4. QED
    BY <2>3, BlockLengths
<1>8. QED
  BY <1>1, <1>4, <1>6, <1>7 DEF IsMac, Is

LEMMA MacFull ==
  ASSUME NEW m \in Mades, NEW a \in Algs, IsMac(m, a), NEW b, NEW k,
         b = PSA_ALG_FULL_LENGTH_MAC(a),
         k = [m EXCEPT !.len = 0, !.wild = FALSE]
  PROVE  k \in Mades /\ b \in Algs /\ IsMac(k, b)
<1>1. /\ k \in Mades /\ k.scheme = m.scheme /\ k.base = m.base /\ k.hash = m.hash
      /\ k.kdf = m.kdf /\ k.len = 0 /\ k.wild = FALSE
  BY DEF Mades
<1>2. b \in Algs /\ Is(b, a.cat, a.sub, 0, 0, a.mid, a.hash)
  BY DEF PSA_ALG_FULL_LENGTH_MAC, Algs, Is
<1>3. 0 % 64 = 0
  OBVIOUS
<1>4. m.scheme = "hmac" => 0 <= HashLengths[m.hash]
  BY HashNumbersBound DEF IsMac
<1>5. QED
  BY <1>1, <1>2, <1>3, <1>4 DEF IsMac, Is

(* A length is given to the tag of an AEAD.                                *)
TagGiven(m, a, n, wild, k, b) ==
    /\ b = IF wild THEN PSA_ALG_AEAD_WITH_AT_LEAST_THIS_LENGTH_TAG(a, n)
                   ELSE PSA_ALG_AEAD_WITH_SHORTENED_TAG(a, n)
    /\ k = [m EXCEPT !.len = n, !.wild = wild]

LEMMA TagShortened ==
  ASSUME NEW m \in Mades, NEW a \in Algs, NEW n \in 1 .. 16, NEW wild \in BOOLEAN,
         NEW b, NEW k, IsAead(m, a), TagGiven(m, a, n, wild, k, b)
  PROVE  k \in Mades /\ b \in Algs /\ IsAead(k, b)
<1> USE DEF TagGiven
<1>1. /\ k \in Mades /\ k.scheme = m.scheme /\ k.base = m.base /\ k.hash = m.hash
      /\ k.kdf = m.kdf /\ k.len = n /\ k.wild = wild
  <2>1. n \in Nat
    OBVIOUS
  <2>2. QED
    BY <2>1 DEF Mades
<1>2. n % 64 = n
  OBVIOUS
<1>3. b = [a EXCEPT !.len = n, !.least = IF wild THEN 1 ELSE 0]
  <2>1. CASE wild
    BY <1>2, <2>1 DEF PSA_ALG_AEAD_WITH_AT_LEAST_THIS_LENGTH_TAG, PSA_ALG_AEAD_WITH_SHORTENED_TAG, Algs
  <2>2. CASE ~wild
    BY <1>2, <2>2 DEF PSA_ALG_AEAD_WITH_SHORTENED_TAG
  <2>3. QED
    BY <2>1, <2>2
<1>4. /\ b \in Algs
      /\ Is(b, a.cat, a.sub, n, IF wild THEN 1 ELSE 0, a.mid, a.hash)
  <2>1. PICK l \in Nat : l = IF wild THEN 1 ELSE 0
    OBVIOUS
  <2>2. b = [a EXCEPT !.len = n, !.least = l]
    BY <1>3, <2>1
  <2>3. n \in Nat
    OBVIOUS
  <2>4. b \in Algs /\ Is(b, a.cat, a.sub, n, l, a.mid, a.hash)
    BY <2>2, <2>3 DEF Algs, Is
  <2>5. QED
    BY <2>1, <2>4
<1>5. QED
  BY <1>1, <1>4 DEF IsAead, Is

LEMMA TagDefault ==
  ASSUME NEW m \in Mades, NEW a \in Algs, IsAead(m, a), NEW b, NEW k,
         b = PSA_ALG_AEAD_WITH_DEFAULT_LENGTH_TAG(a),
         k = [m EXCEPT !.len = 0, !.wild = FALSE]
  PROVE  k \in Mades /\ b \in Algs /\ IsAead(k, b)
<1>1. /\ k \in Mades /\ k.scheme = m.scheme /\ k.base = m.base /\ k.hash = m.hash
      /\ k.kdf = m.kdf /\ k.len = 0 /\ k.wild = FALSE
  BY DEF Mades
<1>2. b = m.base
  BY AeadRecovered
<1>3. m.base \in Algs /\ Is(m.base, 5, m.base.sub, 16, 0, m.base.mid, 0)
  BY AeadBases DEF IsAead, Is
<1>4. QED
  BY <1>1, <1>2, <1>3 DEF IsAead, Is

-----------------------------------------------------------------------------
(* The invariant *)

AttributesType ==
    /\ attributes \in [type : AllTypes, bits : Nat, lifetime : Nat, id : Nat,
                       usage : SUBSET Usages, alg : Algs]
    /\ made \in Mades

(* The algorithm is one of the table for the scheme it was built with, and *)
(* its lengths are those last given.                                       *)
AttributesInv == AttributesType /\ IsBuilt(made, attributes.alg) /\ IdIsPersistent

LEMMA AttributesInitially ==
  ASSUME attributes = psa_key_attributes_init, made = Nothing
  PROVE  AttributesInv
<1>1. /\ attributes.type = PSA_KEY_TYPE_NONE /\ attributes.bits = 0 /\ attributes.lifetime = 0
      /\ attributes.id = 0 /\ attributes.usage = {} /\ attributes.alg = PSA_ALG_NONE
      /\ attributes \in [type : AllTypes, bits : Nat, lifetime : Nat, id : Nat,
                       usage : SUBSET Usages, alg : Algs]
  BY NoneIsAlg DEF psa_key_attributes_init, AllTypes, PSA_KEY_LIFETIME_VOLATILE
<1>2. "none" \in Schemes
  BY DEF Schemes
<1>3. /\ made \in Mades
      /\ made.scheme = "none" /\ made.hash = 0 /\ made.kdf = PSA_ALG_NONE /\ made.len = 0
      /\ ~made.wild /\ made.base = PSA_ALG_NONE
  BY <1>2, NoneIsAlg, FixedMade DEF Nothing
<1>4. IsBuilt(made, attributes.alg)
  BY <1>1, <1>3, NoneIsAlg DEF IsBuilt, IsPlain, Plain, Is
<1>5. QED
  BY <1>1, <1>3, <1>4 DEF AttributesInv, AttributesType, IdIsPersistent

(* A step that gives the attributes another algorithm.                     *)
LEMMA AlgorithmSet ==
  ASSUME AttributesInv, NEW m \in Mades, NEW a \in Algs, IsBuilt(m, a),
         psa_set_key_algorithm(m, a)
  PROVE  AttributesInv'
<1>1. attributes' = [attributes EXCEPT !.alg = a] /\ made' = m
  BY DEF psa_set_key_algorithm
<1>2. AttributesType'
  BY <1>1 DEF AttributesInv, AttributesType
<1>3. attributes'.alg = a /\ attributes'.id = attributes.id /\ attributes'.lifetime = attributes.lifetime
  BY <1>1 DEF AttributesInv, AttributesType
<1>4. QED
  BY <1>1, <1>2, <1>3 DEF AttributesInv, IdIsPersistent

(* A step that leaves the algorithm and the identifier.                    *)
LEMMA OtherSet ==
  ASSUME AttributesInv, AttributesType', attributes'.alg = attributes.alg, UNCHANGED made,
         IdIsPersistent'
  PROVE  AttributesInv'
BY DEF AttributesInv

LEMMA LifetimeKept ==
  ASSUME NEW location \in Nat
  PROVE  ~PSA_KEY_LIFETIME_IS_VOLATILE(location * 256 + 1)
BY DEF PSA_KEY_LIFETIME_IS_VOLATILE, PSA_KEY_LIFETIME_GET_PERSISTENCE, PSA_KEY_PERSISTENCE_VOLATILE

LEMMA AttributesStep ==
  ASSUME AttributesInv, AttributesNext
  PROVE  AttributesInv'
<1> USE DEF AttributesInv
<1>1. ASSUME psa_set_key_id
      PROVE  AttributesInv'
  <2>1. PICK key \in KeyIds :
        /\ attributes' =
              [attributes EXCEPT
                 !.id = key,
                 !.lifetime =
                     IF PSA_KEY_LIFETIME_IS_VOLATILE(@)
                     THEN PSA_KEY_LIFETIME_FROM_PERSISTENCE_AND_LOCATION(
                            PSA_KEY_LIFETIME_PERSISTENT,
                            PSA_KEY_LIFETIME_GET_LOCATION(@))
                     ELSE @]
        /\ UNCHANGED made
    BY <1>1 DEF psa_set_key_id
  <2>2. PICK old, loc, new :
           /\ old = attributes.lifetime /\ loc = old \div 256
           /\ new = IF PSA_KEY_LIFETIME_IS_VOLATILE(old) THEN loc * 256 + 1 ELSE old
    OBVIOUS
  <2>3. attributes' = [attributes EXCEPT !.id = key, !.lifetime = new]
    BY <2>1, <2>2 DEF PSA_KEY_LIFETIME_FROM_PERSISTENCE_AND_LOCATION,
         PSA_KEY_LIFETIME_PERSISTENT, PSA_KEY_LIFETIME_GET_LOCATION
  <2>4. old \in Nat /\ loc \in Nat /\ key \in Nat
    BY <2>2, KeyAttributesAssumption DEF AttributesType
  <2>5. new \in Nat /\ ~PSA_KEY_LIFETIME_IS_VOLATILE(new)
    BY <2>2, <2>4, LifetimeKept
  <2>6. AttributesType' /\ attributes'.alg = attributes.alg /\ attributes'.lifetime = new
    BY <2>1, <2>3, <2>4, <2>5 DEF AttributesType
  <2>7. IdIsPersistent'
    BY <2>5, <2>6 DEF IdIsPersistent
  <2>8. QED
    BY <2>1, <2>6, <2>7, OtherSet
<1>2. ASSUME psa_set_key_lifetime
      PROVE  AttributesInv'
  <2>1. PICK lifetime \in Lifetimes :
        /\ attributes' =
              [attributes EXCEPT
                 !.lifetime = lifetime,
                 !.id = IF PSA_KEY_LIFETIME_IS_VOLATILE(lifetime) THEN 0 ELSE @]
        /\ UNCHANGED made
    BY <1>2 DEF psa_set_key_lifetime
  <2>2. PICK id \in Nat : id = IF PSA_KEY_LIFETIME_IS_VOLATILE(lifetime) THEN 0 ELSE attributes.id
    BY DEF AttributesType
  <2>3. lifetime \in Nat /\ attributes' = [attributes EXCEPT !.lifetime = lifetime, !.id = id]
    BY <2>1, <2>2, KeyAttributesAssumption
  <2>4. /\ AttributesType' /\ attributes'.alg = attributes.alg
        /\ attributes'.lifetime = lifetime /\ attributes'.id = id
    BY <2>1, <2>3 DEF AttributesType
  <2>5. IdIsPersistent'
    BY <2>2, <2>4 DEF IdIsPersistent
  <2>6. QED
    BY <2>1, <2>4, <2>5, OtherSet
<1>3. ASSUME psa_set_key_usage_flags
      PROVE  AttributesInv'
  <2>1. PICK usage_flags \in SUBSET Usages :
        /\ attributes' = [attributes EXCEPT !.usage = psa_extend_key_usage_flags(usage_flags)]
        /\ UNCHANGED made
    BY <1>3 DEF psa_set_key_usage_flags
  <2>2. psa_extend_key_usage_flags(usage_flags) \in SUBSET Usages
    BY DEF psa_extend_key_usage_flags, Usages
  <2>3. /\ AttributesType' /\ attributes'.alg = attributes.alg
        /\ attributes'.lifetime = attributes.lifetime /\ attributes'.id = attributes.id
    BY <2>1, <2>2 DEF AttributesType
  <2>4. IdIsPersistent'
    BY <2>3 DEF IdIsPersistent
  <2>5. QED
    BY <2>1, <2>3, <2>4, OtherSet
<1>4. ASSUME psa_set_key_type
      PROVE  AttributesInv'
  <2>1. PICK type \in KeyTypes :
        /\ attributes' = [attributes EXCEPT !.type = type]
        /\ UNCHANGED made
    BY <1>4 DEF psa_set_key_type
  <2>2. /\ AttributesType' /\ attributes'.alg = attributes.alg
        /\ attributes'.lifetime = attributes.lifetime /\ attributes'.id = attributes.id
    BY <2>1 DEF AttributesType, AllTypes
  <2>3. IdIsPersistent'
    BY <2>2 DEF IdIsPersistent
  <2>4. QED
    BY <2>1, <2>2, <2>3, OtherSet
<1>5. ASSUME psa_set_key_bits
      PROVE  AttributesInv'
  <2>1. PICK bits \in KeyBits :
        /\ attributes' = [attributes EXCEPT
                             !.bits = IF bits > PSA_MAX_KEY_BITS
                                      THEN PSA_KEY_BITS_TOO_LARGE
                                      ELSE bits]
        /\ UNCHANGED made
    BY <1>5 DEF psa_set_key_bits
  <2>2. PICK b \in Nat : attributes' = [attributes EXCEPT !.bits = b]
    <3>1. (IF bits > PSA_MAX_KEY_BITS THEN PSA_KEY_BITS_TOO_LARGE ELSE bits) \in Nat
      BY KeyAttributesAssumption DEF PSA_KEY_BITS_TOO_LARGE
    <3>2. QED
      BY <2>1, <3>1
  <2>3. /\ AttributesType' /\ attributes'.alg = attributes.alg
        /\ attributes'.lifetime = attributes.lifetime /\ attributes'.id = attributes.id
    BY <2>1, <2>2 DEF AttributesType
  <2>4. IdIsPersistent'
    BY <2>3 DEF IdIsPersistent
  <2>5. QED
    BY <2>1, <2>3, <2>4, OtherSet
<1> HIDE DEF AttributesInv
<1>0. /\ made \in Mades /\ attributes.alg \in Algs /\ attributes.type \in AllTypes
      /\ IsBuilt(made, attributes.alg)
  BY DEF AttributesInv, AttributesType
<1>6. ASSUME ResetAttributes
      PROVE  AttributesInv'
  <2>1. (attributes = psa_key_attributes_init /\ made = Nothing)'
    BY <1>6 DEF ResetAttributes, psa_key_attributes_init, Nothing
  <2>2. (attributes = psa_key_attributes_init /\ made = Nothing => AttributesInv)'
    BY AttributesInitially, PTL
  <2>3. QED
    BY <2>1, <2>2
<1>7. ASSUME SetBuilt
      PROVE  AttributesInv'
  <2>1. PICK m \in Macs \cup Ciphers \cup Aeads \cup Signatures \cup Encryptions
             \cup Derivations \cup Stretchings \cup Agreements
             \cup Hashed("hash", LAMBDA h : h, Hashes) :
        psa_set_key_algorithm(m, m.base)
    BY <1>7 DEF SetBuilt
  <2>2. Built(m)
    BY MacsBuilt, CiphersBuilt, AeadsBuilt, SignaturesBuilt, EncryptionsBuilt,
       DerivationsBuilt, StretchingsBuilt, AgreementsBuilt, HashesBuilt
  <2>3. QED
    BY <2>1, <2>2, AlgorithmSet DEF Built
<1>8. ASSUME SetAgreement
      PROVE  AttributesInv'
  <2>1. PICK a \in Agreements, d \in Derivations :
           psa_set_key_algorithm([a EXCEPT !.kdf = d.base, !.hash = d.hash],
                                 PSA_ALG_KEY_AGREEMENT(a.base, d.base))
    BY <1>8 DEF SetAgreement
  <2>2. PICK m, b : /\ m = [a EXCEPT !.kdf = d.base, !.hash = d.hash]
                    /\ b = PSA_ALG_KEY_AGREEMENT(a.base, d.base)
    OBVIOUS
  <2>3. m \in Mades /\ b \in Algs /\ IsBuilt(m, b)
    BY <2>2, AgreementCombined
  <2>4. psa_set_key_algorithm(m, b)
    BY <2>1, <2>2
  <2>5. QED
    BY <2>3, <2>4, AlgorithmSet
<1>9. ASSUME TruncateMac
      PROVE  AttributesInv'
  <2>1. IsMac(made, attributes.alg)
    BY <1>0, <1>9, OnlyMacs DEF TruncateMac
  <2>2. PICK n \in Lengths :
          /\ n <= PSA_MAC_LENGTH(attributes.type, made.base)
          /\ \/ psa_set_key_algorithm([made EXCEPT !.len = n, !.wild = FALSE],
                                      PSA_ALG_TRUNCATED_MAC(attributes.alg, n))
             \/ psa_set_key_algorithm([made EXCEPT !.len = n, !.wild = TRUE],
                                      PSA_ALG_AT_LEAST_THIS_LENGTH_MAC(attributes.alg, n))
    BY <1>9 DEF TruncateMac
  <2>3. PICK wild, b, k : /\ wild \in BOOLEAN /\ MacGiven(made, attributes.alg, n, wild, k, b)
                          /\ psa_set_key_algorithm(k, b)
    BY <2>2 DEF MacGiven
  <2>4. n \in Nat
    BY KeyAttributesAssumption
  <2>5. k \in Mades /\ b \in Algs /\ IsMac(k, b)
    BY <1>0, <2>1, <2>2, <2>3, <2>4, MacTruncated
  <2>6. QED
    BY <2>3, <2>5, AlgorithmSet DEF IsBuilt
<1>10. ASSUME FullMac
       PROVE  AttributesInv'
  <2>1. IsMac(made, attributes.alg)
    BY <1>0, <1>10, OnlyMacs DEF FullMac
  <2>2. PICK b, k : /\ b = PSA_ALG_FULL_LENGTH_MAC(attributes.alg)
                    /\ k = [made EXCEPT !.len = 0, !.wild = FALSE]
                    /\ psa_set_key_algorithm(k, b)
    BY <1>10 DEF FullMac
  <2>3. k \in Mades /\ b \in Algs /\ IsMac(k, b)
    BY <1>0, <2>1, <2>2, MacFull
  <2>4. QED
    BY <2>2, <2>3, AlgorithmSet DEF IsBuilt
<1>11. ASSUME ShortenTag
       PROVE  AttributesInv'
  <2>1. IsAead(made, attributes.alg)
    BY <1>0, <1>11, OnlyMacs DEF ShortenTag
  <2>2. PICK n \in Lengths :
          /\ n <= PSA_AEAD_TAG_MAX_SIZE
          /\ \/ psa_set_key_algorithm([made EXCEPT !.len = n, !.wild = FALSE],
                                      PSA_ALG_AEAD_WITH_SHORTENED_TAG(attributes.alg, n))
             \/ psa_set_key_algorithm([made EXCEPT !.len = n, !.wild = TRUE],
                    PSA_ALG_AEAD_WITH_AT_LEAST_THIS_LENGTH_TAG(attributes.alg, n))
    BY <1>11 DEF ShortenTag
  <2>3. PICK wild, b, k : /\ wild \in BOOLEAN /\ TagGiven(made, attributes.alg, n, wild, k, b)
                          /\ psa_set_key_algorithm(k, b)
    BY <2>2 DEF TagGiven
  <2>4. n \in 1 .. 16
    BY <2>2, KeyAttributesAssumption DEF PSA_AEAD_TAG_MAX_SIZE
  <2>5. k \in Mades /\ b \in Algs /\ IsAead(k, b)
    BY <1>0, <2>1, <2>3, <2>4, TagShortened
  <2>6. QED
    BY <2>3, <2>5, AlgorithmSet DEF IsBuilt
<1>12. ASSUME DefaultTag
       PROVE  AttributesInv'
  <2>1. IsAead(made, attributes.alg)
    BY <1>0, <1>12, OnlyMacs DEF DefaultTag
  <2>2. PICK b, k : /\ b = PSA_ALG_AEAD_WITH_DEFAULT_LENGTH_TAG(attributes.alg)
                    /\ k = [made EXCEPT !.len = 0, !.wild = FALSE]
                    /\ psa_set_key_algorithm(k, b)
    BY <1>12 DEF DefaultTag
  <2>3. k \in Mades /\ b \in Algs /\ IsAead(k, b)
    BY <1>0, <2>1, <2>2, TagDefault
  <2>4. QED
    BY <2>2, <2>3, AlgorithmSet DEF IsBuilt
<1>13. QED
  BY <1>1, <1>2, <1>3, <1>4, <1>5, <1>6, <1>7, <1>8, <1>9, <1>10, <1>11, <1>12
  DEF AttributesNext

(* The invariant of the setters and the modifiers.                         *)
LEMMA AttributesInvariant == AttributesSpec => []AttributesInv
<1>1. AttributesInit => AttributesInv
  BY AttributesInitially DEF AttributesInit
<1>2. AttributesInv /\ [AttributesNext]_attributesVars => AttributesInv'
  <2>1. ASSUME AttributesInv, UNCHANGED attributesVars
        PROVE  AttributesInv'
    BY <2>1 DEF attributesVars, AttributesInv, AttributesType, IdIsPersistent
  <2>2. QED
    BY <2>1, AttributesStep
<1>3. QED
  BY <1>1, <1>2, PTL DEF AttributesSpec

(* A key with an identifier is never volatile, whatever order the setters  *)
(* of the identifier and of the lifetime (psa/crypto_struct.h) are called  *)
(* in.                                                                     *)
THEOREM AttributesPersistent == AttributesSpec => []IdIsPersistent
<1>1. AttributesInv => IdIsPersistent
  BY DEF AttributesInv
<1>2. QED
  BY <1>1, AttributesInvariant, PTL

(* The macros of psa/crypto_values.h recognise every algorithm as what it  *)
(* was built as and give back what was put into it, whatever chain of      *)
(* modifiers it went through.                                              *)
THEOREM AttributesRecovered == AttributesSpec => []BuiltIsRecovered
<1>1. ASSUME AttributesInv
      PROVE  BuiltIsRecovered
  <2>0. PICK m, a : m = made /\ a = attributes.alg
    OBVIOUS
  <2>1. m \in Mades /\ a \in Algs /\ IsBuilt(m, a)
    BY <1>1, <2>0 DEF AttributesInv, AttributesType
  <2>2. Table(m.scheme, a)
    BY <2>1, BuiltInTable
  <2>3. RecognisedAsBuilt
    <3>1. \A s \in DOMAIN Recognisers(a) : Recognisers(a)[s] <=> m.scheme = s
      BY <2>1, <2>2, TableRecognised DEF Recognisers
    <3>2. QED
      BY <2>0, <2>1, <2>2, <3>1, SignaturesDecide, RawAgreementDecides, TableRecognised
      DEF RecognisedAsBuilt
  <2>4. PolicyRecovered
    <3>1. /\ PSA_ALG_IS_WILDCARD(a) <=> m.wild \/ m.hash = PSA_ALG_ANY_HASH.hash
      BY <2>1, WildcardsDecide, OpenHash
    <3>2. PSA_ALG_GET_HASH(a) = IF m.hash = 0 THEN PSA_ALG_NONE ELSE PsaHash(m.hash)
      BY <2>1, HashIsKept DEF PSA_ALG_GET_HASH
    <3>3. m.scheme \in SignatureSchemes => PSA_ALG_SIGN_GET_HASH(a) = PSA_ALG_GET_HASH(a)
      BY <2>1, SignaturesDecide DEF PSA_ALG_GET_HASH, PSA_ALG_SIGN_GET_HASH, PSA_ALG_IS_HASH_AND_SIGN
    <3>4. PSA_ALG_IS_MAC(a) => /\ PSA_ALG_FULL_LENGTH_MAC(a) = m.base
                               /\ m.len # 0 => PSA_MAC_LENGTH(attributes.type, a) = m.len
      BY <2>1, OnlyMacs, MacRecovered
    <3>5. PSA_ALG_IS_AEAD(a) =>
              /\ PSA_ALG_AEAD_WITH_DEFAULT_LENGTH_TAG(a) = m.base
              /\ PSA_ALG_AEAD_GET_TAG_LENGTH(a)
                    = IF m.len = 0 THEN PSA_AEAD_TAG_MAX_SIZE ELSE m.len
      BY <2>1, OnlyMacs, AeadRecovered
    <3>6. PSA_ALG_IS_KEY_AGREEMENT(a) =>
              /\ PSA_ALG_KEY_AGREEMENT_GET_BASE(a) = m.base
              /\ m.kdf # PSA_ALG_NONE => PSA_ALG_KEY_AGREEMENT_GET_KDF(a) = m.kdf
      BY <2>1, OnlyMacs, AgreementRecovered
    <3>7. QED
      BY <2>0, <3>1, <3>2, <3>3, <3>4, <3>5, <3>6 DEF PolicyRecovered
  <2>5. QED
    BY <2>3, <2>4 DEF BuiltIsRecovered
<1>2. QED
  BY <1>1, AttributesInvariant, PTL

-----------------------------------------------------------------------------
(* The sizes of keys *)

LEMMA AllTypesAreValues == \A type \in AllTypes : type \in KeyTypeValues
<1>1. PSA_KEY_TYPE_NONE \in KeyTypeValues
  BY DEF PSA_KEY_TYPE_NONE, KeyType, KeyTypeValues
<1>2. QED
  BY <1>1, KeyAttributesAssumption DEF AllTypes

TypeIs(type, cat, blk, low) == type.cat = cat /\ type.blk = blk /\ type.low = low

LEMMA SameType ==
  ASSUME NEW s \in KeyTypeValues, NEW t \in KeyTypeValues
  PROVE  s = t <=> s.cat = t.cat /\ s.blk = t.blk /\ s.low = t.low
<1>1. ASSUME s.cat = t.cat /\ s.blk = t.blk /\ s.low = t.low
      PROVE  s = t
  BY <1>1 DEF KeyTypeValues
<1>2. QED
  BY <1>1

(* What each test of a key type looks at.                                  *)
LEMMA TypesDecide ==
  ASSUME NEW type \in KeyTypeValues
  PROVE  /\ type = PSA_KEY_TYPE_RSA_KEY_PAIR <=> TypeIs(type, 7, 0, 1)
         /\ type = PSA_KEY_TYPE_RSA_PUBLIC_KEY <=> TypeIs(type, 4, 0, 1)
         /\ type = PSA_KEY_TYPE_DSA_KEY_PAIR <=> TypeIs(type, 7, 0, 2)
         /\ type = PSA_KEY_TYPE_DSA_PUBLIC_KEY <=> TypeIs(type, 4, 0, 2)
         /\ PSA_KEY_TYPE_IS_ECC_KEY_PAIR(type) <=> type.cat = 7 /\ type.blk = 1
         /\ PSA_KEY_TYPE_IS_ECC_PUBLIC_KEY(type) <=> type.cat = 4 /\ type.blk = 1
         /\ PSA_KEY_TYPE_IS_RSA(type) <=> type.cat \in 4 .. 7 /\ type.blk = 0 /\ type.low = 1
         /\ PSA_KEY_TYPE_IS_ECC(type) <=> type.cat \in 4 .. 7 /\ type.blk = 1
<1>0. type.cat \in 0 .. 7 /\ type.blk \in 0 .. 15 /\ type.low \in 0 .. 255
  BY DEF KeyTypeValues
<1>1. /\ type = PSA_KEY_TYPE_RSA_KEY_PAIR <=> TypeIs(type, 7, 0, 1)
      /\ type = PSA_KEY_TYPE_RSA_PUBLIC_KEY <=> TypeIs(type, 4, 0, 1)
      /\ type = PSA_KEY_TYPE_DSA_KEY_PAIR <=> TypeIs(type, 7, 0, 2)
      /\ type = PSA_KEY_TYPE_DSA_PUBLIC_KEY <=> TypeIs(type, 4, 0, 2)
  <2>1. /\ PSA_KEY_TYPE_RSA_KEY_PAIR \in KeyTypeValues
        /\ TypeIs(PSA_KEY_TYPE_RSA_KEY_PAIR, 7, 0, 1)
        /\ PSA_KEY_TYPE_RSA_PUBLIC_KEY \in KeyTypeValues
        /\ TypeIs(PSA_KEY_TYPE_RSA_PUBLIC_KEY, 4, 0, 1)
        /\ PSA_KEY_TYPE_DSA_KEY_PAIR \in KeyTypeValues
        /\ TypeIs(PSA_KEY_TYPE_DSA_KEY_PAIR, 7, 0, 2)
        /\ PSA_KEY_TYPE_DSA_PUBLIC_KEY \in KeyTypeValues
        /\ TypeIs(PSA_KEY_TYPE_DSA_PUBLIC_KEY, 4, 0, 2)
    BY DEF PSA_KEY_TYPE_RSA_KEY_PAIR, PSA_KEY_TYPE_RSA_PUBLIC_KEY,
           PSA_KEY_TYPE_DSA_KEY_PAIR, PSA_KEY_TYPE_DSA_PUBLIC_KEY,
           KeyType, KeyTypeValues, TypeIs
  <2>2. QED
    BY <2>1, SameType DEF TypeIs
<1>2. PICK n : n = [type EXCEPT !.low = 0]
  OBVIOUS
<1>3. n \in KeyTypeValues /\ TypeIs(n, type.cat, type.blk, 0)
  BY <1>2 DEF KeyTypeValues, TypeIs
<1>4. PICK e, p : e = KeyType(7, 1, 0) /\ p = KeyType(4, 1, 0)
  OBVIOUS
<1>5. /\ e \in KeyTypeValues /\ TypeIs(e, 7, 1, 0)
      /\ p \in KeyTypeValues /\ TypeIs(p, 4, 1, 0)
  BY <1>4 DEF KeyType, KeyTypeValues, TypeIs
<1>6. /\ PSA_KEY_TYPE_IS_ECC_KEY_PAIR(type) <=> n = e
      /\ PSA_KEY_TYPE_IS_ECC_PUBLIC_KEY(type) <=> n = p
  BY <1>2, <1>4 DEF PSA_KEY_TYPE_IS_ECC_KEY_PAIR, PSA_KEY_TYPE_IS_ECC_PUBLIC_KEY,
       PSA_KEY_TYPE_ECC_KEY_PAIR, PSA_KEY_TYPE_ECC_PUBLIC_KEY
<1>7. /\ PSA_KEY_TYPE_IS_ECC_KEY_PAIR(type) <=> type.cat = 7 /\ type.blk = 1
      /\ PSA_KEY_TYPE_IS_ECC_PUBLIC_KEY(type) <=> type.cat = 4 /\ type.blk = 1
  BY <1>3, <1>5, <1>6, SameType DEF TypeIs
<1>8. PICK c : c = type.cat - (type.cat % 4)
  OBVIOUS
<1>9. c \in 0 .. 7 /\ (c = 4 <=> type.cat \in 4 .. 7)
  BY <1>0, <1>8
<1>10. PICK k, l : k = PSA_KEY_TYPE_PUBLIC_KEY_OF_KEY_PAIR(type) /\ l = [k EXCEPT !.low = 0]
  OBVIOUS
<1>11. k = [type EXCEPT !.cat = c]
  BY <1>8, <1>10 DEF PSA_KEY_TYPE_PUBLIC_KEY_OF_KEY_PAIR
<1>12. k \in KeyTypeValues /\ TypeIs(k, c, type.blk, type.low)
  BY <1>9, <1>11 DEF KeyTypeValues, TypeIs
<1>13. l \in KeyTypeValues /\ TypeIs(l, c, type.blk, 0)
  BY <1>10, <1>12 DEF KeyTypeValues, TypeIs
<1>14. PICK r : r = KeyType(4, 0, 1)
  OBVIOUS
<1>15. r \in KeyTypeValues /\ TypeIs(r, 4, 0, 1)
  BY <1>14 DEF KeyType, KeyTypeValues, TypeIs
<1>16. PSA_KEY_TYPE_IS_RSA(type) <=> k = r
  BY <1>10, <1>14 DEF PSA_KEY_TYPE_IS_RSA, PSA_KEY_TYPE_RSA_PUBLIC_KEY
<1>17. PSA_KEY_TYPE_IS_RSA(type) <=> type.cat \in 4 .. 7 /\ type.blk = 0 /\ type.low = 1
  BY <1>9, <1>12, <1>15, <1>16, SameType DEF TypeIs
<1>18. PSA_KEY_TYPE_IS_ECC(type) <=> l = p
  BY <1>4, <1>10 DEF PSA_KEY_TYPE_IS_ECC, PSA_KEY_TYPE_ECC_PUBLIC_KEY
<1>19. PSA_KEY_TYPE_IS_ECC(type) <=> type.cat \in 4 .. 7 /\ type.blk = 1
  BY <1>5, <1>9, <1>13, <1>18, SameType DEF TypeIs
<1>20. QED
  BY <1>1, <1>7, <1>17, <1>19

LEMMA MaximumSizes ==
  /\ PSA_EXPORT_KEY_PAIR_MAX_SIZE = 2363
  /\ PSA_EXPORT_PUBLIC_KEY_MAX_SIZE = 528
  /\ PSA_SIGNATURE_MAX_SIZE = 512
  /\ PSA_RAW_KEY_AGREEMENT_OUTPUT_MAX_SIZE = 66
  /\ PSA_ASYMMETRIC_ENCRYPT_OUTPUT_MAX_SIZE = 512
  /\ PSA_ASYMMETRIC_DECRYPT_OUTPUT_MAX_SIZE = 512
BY DEF PSA_EXPORT_KEY_PAIR_MAX_SIZE, PSA_EXPORT_PUBLIC_KEY_MAX_SIZE, PSA_SIGNATURE_MAX_SIZE,
       PSA_RAW_KEY_AGREEMENT_OUTPUT_MAX_SIZE, PSA_ASYMMETRIC_ENCRYPT_OUTPUT_MAX_SIZE,
       PSA_ASYMMETRIC_DECRYPT_OUTPUT_MAX_SIZE, Larger, PSA_BITS_TO_BYTES,
       PSA_VENDOR_RSA_MAX_KEY_BITS, PSA_VENDOR_ECC_MAX_CURVE_BITS,
       PSA_VENDOR_ECDSA_SIGNATURE_MAX_SIZE, PSA_ECDSA_SIGNATURE_SIZE,
       PSA_KEY_EXPORT_RSA_KEY_PAIR_MAX_SIZE, PSA_KEY_EXPORT_ECC_KEY_PAIR_MAX_SIZE,
       PSA_KEY_EXPORT_RSA_PUBLIC_KEY_MAX_SIZE, PSA_KEY_EXPORT_ECC_PUBLIC_KEY_MAX_SIZE,
       PSA_KEY_EXPORT_ASN1_INTEGER_MAX_SIZE

(* A tag and a length take from two to four bytes.                         *)
LEMMA DerGrows ==
  ASSUME NEW n \in Nat
  PROVE  DerWrapped(n) \in Nat /\ DerWrapped(n) <= n + 4
<1>1. CASE n < 128
  BY <1>1 DEF DerWrapped
<1>2. CASE n \in 128 .. 255
  BY <1>2 DEF DerWrapped
<1>3. CASE n > 255
  BY <1>3 DEF DerWrapped
<1>4. QED
  BY <1>1, <1>2, <1>3

LEMMA DerIntegerGrows ==
  ASSUME NEW bits \in Nat
  PROVE  DerInteger(bits) \in Nat /\ DerInteger(bits) <= bits \div 8 + 5
<1>1. PICK n \in Nat : n = bits \div 8 + 1
  OBVIOUS
<1>2. DerInteger(bits) = DerWrapped(n)
  BY <1>1 DEF DerInteger
<1>3. DerWrapped(n) \in Nat /\ DerWrapped(n) <= n + 4
  BY DerGrows
<1>4. QED
  BY <1>1, <1>2, <1>3

(* The encodings of an RSA key are within the sizes of its export.         *)
LEMMA RsaKeysFit ==
  ASSUME NEW bits \in Nat
  PROVE  /\ PSA_KEY_EXPORT_RSA_PUBLIC_KEY_MAX_SIZE(bits) >= DerPublicKey(bits)
         /\ PSA_KEY_EXPORT_RSA_KEY_PAIR_MAX_SIZE(bits) >= DerKeyPair(bits)
<1>1. PICK half \in Nat, g \in Nat, q \in Nat :
         /\ half = bits \div 2 + 1 /\ g = half \div 8 /\ q = bits \div 8
         /\ q <= 2 * g + 1
  OBVIOUS
<1>2. PICK i1, i32, ib, ih :
         /\ i1 = DerInteger(1) /\ i32 = DerInteger(32)
         /\ ib = DerInteger(bits) /\ ih = DerInteger(half)
  OBVIOUS
<1>3. i1 = 3 /\ i32 = 7
  BY <1>2 DEF DerInteger, DerWrapped
<1>4. ib \in Nat /\ ib <= q + 5 /\ ih \in Nat /\ ih <= g + 5
  BY <1>1, <1>2, DerIntegerGrows
<1>5. PICK p \in Nat, k \in Nat : p = ib + i32 /\ k = i1 + i32 + 2 * ib + 5 * ih
  BY <1>3, <1>4
<1>6. DerPublicKey(bits) = DerWrapped(p) /\ DerKeyPair(bits) = DerWrapped(k)
  BY <1>1, <1>2, <1>5 DEF DerPublicKey, DerKeyPair
<1>7. /\ DerWrapped(p) \in Nat /\ DerWrapped(p) <= p + 4
      /\ DerWrapped(k) \in Nat /\ DerWrapped(k) <= k + 4
  BY DerGrows
<1>8. /\ PSA_KEY_EXPORT_RSA_PUBLIC_KEY_MAX_SIZE(bits) = q + 16
      /\ PSA_KEY_EXPORT_RSA_KEY_PAIR_MAX_SIZE(bits) = 9 * (g + 5) + 14
  BY <1>1 DEF PSA_KEY_EXPORT_RSA_PUBLIC_KEY_MAX_SIZE, PSA_KEY_EXPORT_RSA_KEY_PAIR_MAX_SIZE,
              PSA_KEY_EXPORT_ASN1_INTEGER_MAX_SIZE
<1>9. QED
  BY <1>1, <1>3, <1>4, <1>5, <1>6, <1>7, <1>8

(* The padding of a decryption.                                            *)
LEMMA PaddingIsNat ==
  ASSUME NEW a \in Algs
  PROVE  PSA_RSA_MINIMUM_PADDING_SIZE(a) \in Nat
<1>1. PICK h : h = PSA_ALG_RSA_OAEP_GET_HASH(a)
  OBVIOUS
<1>2. CASE PSA_ALG_IS_RSA_OAEP(a)
  <2>2. PSA_HASH_LENGTH(h) \in Nat
    BY HashNumbersBound DEF PSA_HASH_LENGTH
  <2>3. QED
    BY <1>1, <1>2, <2>2 DEF PSA_RSA_MINIMUM_PADDING_SIZE
<1>3. CASE ~PSA_ALG_IS_RSA_OAEP(a)
  BY <1>3 DEF PSA_RSA_MINIMUM_PADDING_SIZE
<1>4. QED
  BY <1>2, <1>3

LEMMA KeysFit ==
  ASSUME NEW type \in KeyTypeValues, NEW bits \in Nat, NEW a \in Algs, Supported(type, bits)
  PROVE  LET size == PSA_EXPORT_KEY_OUTPUT_SIZE(type, bits)
             public == PSA_EXPORT_PUBLIC_KEY_OUTPUT_SIZE(type, bits)
         IN  /\ PSA_KEY_TYPE_IS_RSA(type) => public >= DerPublicKey(bits)
             /\ type = PSA_KEY_TYPE_RSA_KEY_PAIR => size >= DerKeyPair(bits)
             /\ PSA_KEY_TYPE_IS_KEY_PAIR(type) => size <= PSA_EXPORT_KEY_PAIR_MAX_SIZE
             /\ PSA_KEY_TYPE_IS_PUBLIC_KEY(type) => size = public
             /\ public <= PSA_EXPORT_PUBLIC_KEY_MAX_SIZE
             /\ PSA_SIGN_OUTPUT_SIZE(type, bits) <= PSA_SIGNATURE_MAX_SIZE
             /\ PSA_RAW_KEY_AGREEMENT_OUTPUT_SIZE(type, bits)
                   <= PSA_RAW_KEY_AGREEMENT_OUTPUT_MAX_SIZE
             /\ PSA_ASYMMETRIC_ENCRYPT_OUTPUT_SIZE(type, bits)
                   <= PSA_ASYMMETRIC_ENCRYPT_OUTPUT_MAX_SIZE
             /\ PSA_BITS_TO_BYTES(bits) >= PSA_RSA_MINIMUM_PADDING_SIZE(a) =>
                   PSA_ASYMMETRIC_DECRYPT_OUTPUT_SIZE(type, bits, a)
                       <= PSA_ASYMMETRIC_DECRYPT_OUTPUT_MAX_SIZE
<1>0. /\ type.cat \in 0 .. 7
      /\ PSA_KEY_TYPE_IS_UNSTRUCTURED(type) <=> type.cat \in {1, 2}
      /\ PSA_KEY_TYPE_IS_KEY_PAIR(type) <=> type.cat = 7
      /\ PSA_KEY_TYPE_IS_PUBLIC_KEY(type) <=> type.cat = 4
  BY DEF KeyTypeValues, PSA_KEY_TYPE_IS_UNSTRUCTURED, PSA_KEY_TYPE_IS_KEY_PAIR,
         PSA_KEY_TYPE_IS_PUBLIC_KEY, PSA_KEY_TYPE_CATEGORY_RAW, PSA_KEY_TYPE_CATEGORY_SYMMETRIC,
         PSA_KEY_TYPE_CATEGORY_KEY_PAIR, PSA_KEY_TYPE_CATEGORY_PUBLIC_KEY
<1>1. PICK bytes \in Nat : /\ bytes = PSA_BITS_TO_BYTES(bits)
                           /\ bits <= 4096 => bytes <= 512
                           /\ bits <= 521 => bytes <= 66
  BY DEF PSA_BITS_TO_BYTES
<1>2. CASE type.cat \in {1, 2}
  <2>1. /\ ~PSA_KEY_TYPE_IS_RSA(type) /\ ~PSA_KEY_TYPE_IS_ECC(type)
        /\ ~PSA_KEY_TYPE_IS_ECC_KEY_PAIR(type) /\ type # PSA_KEY_TYPE_RSA_KEY_PAIR
    BY <1>2, TypesDecide DEF TypeIs
  <2>2. /\ PSA_EXPORT_PUBLIC_KEY_OUTPUT_SIZE(type, bits) = 0
        /\ PSA_SIGN_OUTPUT_SIZE(type, bits) = 0
        /\ PSA_RAW_KEY_AGREEMENT_OUTPUT_SIZE(type, bits) = 0
        /\ PSA_ASYMMETRIC_ENCRYPT_OUTPUT_SIZE(type, bits) = 0
        /\ PSA_ASYMMETRIC_DECRYPT_OUTPUT_SIZE(type, bits, a) = 0
    BY <2>1 DEF PSA_EXPORT_PUBLIC_KEY_OUTPUT_SIZE, PSA_SIGN_OUTPUT_SIZE,
         PSA_RAW_KEY_AGREEMENT_OUTPUT_SIZE, PSA_ASYMMETRIC_ENCRYPT_OUTPUT_SIZE,
         PSA_ASYMMETRIC_DECRYPT_OUTPUT_SIZE
  <2>3. QED
    BY <1>0, <1>2, <2>1, <2>2, MaximumSizes
<1>3. CASE PSA_KEY_TYPE_IS_RSA(type) /\ bits \in 1024 .. 4096
  <2>1. /\ type.cat \in 4 .. 7 /\ type.blk = 0 /\ type.low = 1
        /\ ~PSA_KEY_TYPE_IS_ECC(type) /\ ~PSA_KEY_TYPE_IS_ECC_KEY_PAIR(type)
        /\ ~PSA_KEY_TYPE_IS_ECC_PUBLIC_KEY(type)
        /\ type # PSA_KEY_TYPE_DSA_KEY_PAIR /\ type # PSA_KEY_TYPE_DSA_PUBLIC_KEY
        /\ type = PSA_KEY_TYPE_RSA_KEY_PAIR <=> type.cat = 7
        /\ type = PSA_KEY_TYPE_RSA_PUBLIC_KEY <=> type.cat = 4
    BY <1>3, TypesDecide DEF TypeIs
  <2>2. PICK public \in Nat, pair \in Nat :
          /\ public = PSA_KEY_EXPORT_RSA_PUBLIC_KEY_MAX_SIZE(bits) /\ public <= 528
          /\ pair = PSA_KEY_EXPORT_RSA_KEY_PAIR_MAX_SIZE(bits) /\ pair <= 2363
    <3>1. PICK g \in Nat, q \in Nat :
            g = (bits \div 2 + 1) \div 8 /\ q = bits \div 8 /\ g <= 256 /\ q <= 512
      BY <1>3
    <3>2. /\ PSA_KEY_EXPORT_RSA_PUBLIC_KEY_MAX_SIZE(bits) = q + 16
          /\ PSA_KEY_EXPORT_RSA_KEY_PAIR_MAX_SIZE(bits) = 9 * (g + 5) + 14
      BY <3>1 DEF PSA_KEY_EXPORT_RSA_PUBLIC_KEY_MAX_SIZE, PSA_KEY_EXPORT_RSA_KEY_PAIR_MAX_SIZE,
                  PSA_KEY_EXPORT_ASN1_INTEGER_MAX_SIZE
    <3>3. QED
      BY <3>1, <3>2
  <2>3. /\ PSA_EXPORT_PUBLIC_KEY_OUTPUT_SIZE(type, bits) = public
        /\ PSA_SIGN_OUTPUT_SIZE(type, bits) = bytes
        /\ PSA_RAW_KEY_AGREEMENT_OUTPUT_SIZE(type, bits) = 0
        /\ PSA_ASYMMETRIC_ENCRYPT_OUTPUT_SIZE(type, bits) = bytes
    BY <1>1, <1>3, <2>1, <2>2 DEF PSA_EXPORT_PUBLIC_KEY_OUTPUT_SIZE, PSA_SIGN_OUTPUT_SIZE,
         PSA_RAW_KEY_AGREEMENT_OUTPUT_SIZE, PSA_ASYMMETRIC_ENCRYPT_OUTPUT_SIZE
  <2>4. /\ type.cat = 7 => PSA_EXPORT_KEY_OUTPUT_SIZE(type, bits) = pair
        /\ type.cat = 4 => PSA_EXPORT_KEY_OUTPUT_SIZE(type, bits) = public
    BY <1>0, <2>1, <2>2 DEF PSA_EXPORT_KEY_OUTPUT_SIZE
  <2>5. ASSUME bytes >= PSA_RSA_MINIMUM_PADDING_SIZE(a)
        PROVE  PSA_ASYMMETRIC_DECRYPT_OUTPUT_SIZE(type, bits, a) <= 512
    <3>1. PICK pad \in Nat : pad = PSA_RSA_MINIMUM_PADDING_SIZE(a)
      BY PaddingIsNat
    <3>2. bytes - pad \in 0 .. 512
      BY <1>1, <1>3, <2>5, <3>1
    <3>3. (bytes - pad) % 1073741824 <= 512
      BY <3>2
    <3>4. PSA_ASYMMETRIC_DECRYPT_OUTPUT_SIZE(type, bits, a) = (bytes - pad) % 1073741824
      BY <1>1, <1>3, <3>1 DEF PSA_ASYMMETRIC_DECRYPT_OUTPUT_SIZE, AddressSpace
    <3>5. QED
      BY <3>3, <3>4
  <2>6. public >= DerPublicKey(bits) /\ pair >= DerKeyPair(bits)
    BY <2>2, RsaKeysFit
  <2>7. QED
    BY <1>0, <1>1, <1>3, <2>1, <2>2, <2>3, <2>4, <2>5, <2>6, MaximumSizes
<1>4. CASE PSA_KEY_TYPE_IS_ECC(type) /\ bits \in 1 .. 521
  <2>1. /\ type.cat \in 4 .. 7 /\ type.blk = 1 /\ ~PSA_KEY_TYPE_IS_RSA(type)
        /\ type # PSA_KEY_TYPE_RSA_KEY_PAIR /\ type # PSA_KEY_TYPE_RSA_PUBLIC_KEY
        /\ type # PSA_KEY_TYPE_DSA_KEY_PAIR /\ type # PSA_KEY_TYPE_DSA_PUBLIC_KEY
        /\ PSA_KEY_TYPE_IS_ECC_KEY_PAIR(type) <=> type.cat = 7
        /\ PSA_KEY_TYPE_IS_ECC_PUBLIC_KEY(type) <=> type.cat = 4
    BY <1>4, TypesDecide DEF TypeIs
  <2>2. /\ PSA_KEY_EXPORT_ECC_PUBLIC_KEY_MAX_SIZE(bits) = 2 * bytes + 1
        /\ PSA_KEY_EXPORT_ECC_KEY_PAIR_MAX_SIZE(bits) = bytes
        /\ PSA_ECDSA_SIGNATURE_SIZE(bits) = bytes * 2
    BY <1>1 DEF PSA_KEY_EXPORT_ECC_PUBLIC_KEY_MAX_SIZE, PSA_KEY_EXPORT_ECC_KEY_PAIR_MAX_SIZE,
                PSA_ECDSA_SIGNATURE_SIZE
  <2>3. /\ PSA_EXPORT_PUBLIC_KEY_OUTPUT_SIZE(type, bits) = 2 * bytes + 1
        /\ PSA_SIGN_OUTPUT_SIZE(type, bits) = bytes * 2
        /\ PSA_RAW_KEY_AGREEMENT_OUTPUT_SIZE(type, bits) \in {0, bytes}
        /\ PSA_ASYMMETRIC_ENCRYPT_OUTPUT_SIZE(type, bits) = 0
        /\ PSA_ASYMMETRIC_DECRYPT_OUTPUT_SIZE(type, bits, a) = 0
    BY <1>1, <1>4, <2>1, <2>2 DEF PSA_EXPORT_PUBLIC_KEY_OUTPUT_SIZE, PSA_SIGN_OUTPUT_SIZE,
         PSA_RAW_KEY_AGREEMENT_OUTPUT_SIZE, PSA_ASYMMETRIC_ENCRYPT_OUTPUT_SIZE,
         PSA_ASYMMETRIC_DECRYPT_OUTPUT_SIZE
  <2>4. /\ type.cat = 7 => PSA_EXPORT_KEY_OUTPUT_SIZE(type, bits) = bytes
        /\ type.cat = 4 => PSA_EXPORT_KEY_OUTPUT_SIZE(type, bits) = 2 * bytes + 1
    BY <1>0, <2>1, <2>2 DEF PSA_EXPORT_KEY_OUTPUT_SIZE
  <2>5. bytes <= 66
    BY <1>1, <1>4
  <2>6. QED
    BY <1>0, <2>1, <2>3, <2>4, <2>5, MaximumSizes
<1>5. QED
  BY <1>0, <1>2, <1>3, <1>4 DEF Supported, PSA_VENDOR_RSA_MAX_KEY_BITS, PSA_VENDOR_ECC_MAX_CURVE_BITS

-----------------------------------------------------------------------------
(* The sizes of data *)

Blocks == {0, 1, 2, 4, 8, 16}

(* A length rounded up to whole blocks; 16 is a multiple of every block.   *)
LEMMA RoundedUp ==
  ASSUME NEW block \in Blocks, block # 0, NEW n \in Nat
  PROVE  /\ PSA_ROUND_UP_TO_MULTIPLE(block, n) \in n .. n + block - 1
         /\ PSA_ROUND_UP_TO_MULTIPLE(block, n) <= PSA_ROUND_UP_TO_MULTIPLE(16, n)
         /\ PSA_ROUND_UP_TO_MULTIPLE(block, n + 1) <= PSA_ROUND_UP_TO_MULTIPLE(block, n) + block
<1> USE DEF PSA_ROUND_UP_TO_MULTIPLE
<1>1. CASE block = 1
  BY <1>1
<1>2. CASE block = 2
  BY <1>2
<1>3. CASE block = 4
  BY <1>3
<1>4. CASE block = 8
  BY <1>4
<1>5. CASE block = 16
  BY <1>5
<1>6. QED
  BY <1>1, <1>2, <1>3, <1>4, <1>5 DEF Blocks

(* The length of a MAC is within the longest hash.                         *)
LEMMA MacFits ==
  ASSUME NEW m \in Mades, NEW a \in Algs, NEW type \in AllTypes, IsMac(m, a)
  PROVE  PSA_MAC_LENGTH(type, a) <= PSA_MAC_MAX_SIZE
<1>1. PSA_MAC_MAX_SIZE \in {32, 64}
  BY WantSha512Assumption DEF PSA_MAC_MAX_SIZE, PSA_HASH_MAX_SIZE
<1>2. m.len \in Nat
  BY DEF Mades
<1>3. CASE m.len # 0
  <2>1. PSA_MAC_LENGTH(type, a) = m.len
    BY <1>3, MacRecovered
  <2>2. CASE m.scheme = "hmac"
    <3>1. m.hash \in Hashes /\ m.len <= HashLengths[m.hash]
      BY <2>2 DEF IsMac
    <3>2. HashLengths[m.hash] \in 16 .. 64 /\ HashLengths[m.hash] <= PSA_MAC_MAX_SIZE
      BY <3>1, HashNumbersBound, KeyAttributesAssumption DEF PSA_MAC_MAX_SIZE
    <3>3. QED
      BY <1>1, <1>2, <2>1, <3>1, <3>2
  <2>3. CASE m.scheme = "cipher_mac"
    BY <1>1, <1>2, <2>1, <2>3 DEF IsMac
  <2>4. QED
    BY <2>2, <2>3 DEF IsMac
<1>4. CASE m.len = 0
  <2>1. a.cat = 3 /\ a.len = 0 /\ a.hash = m.hash /\ a.sub = m.base.sub
    <3>1. 0 % 64 = 0
      OBVIOUS
    <3>2. QED
      BY <1>4, <3>1 DEF IsMac, Is
  <2>2. CASE m.scheme = "hmac"
    <3>1. m.base.sub = 2 /\ m.hash \in Hashes
      BY <2>2 DEF IsMac, Is
    <3>2. PSA_MAC_LENGTH(type, a) = PSA_HASH_LENGTH(PSA_ALG_HMAC_GET_HASH(a))
      BY <2>1, <3>1 DEF PSA_MAC_LENGTH, PSA_MAC_TRUNCATED_LENGTH,
              PSA_ALG_IS_HMAC, PSA_ALG_IS_BLOCK_CIPHER_MAC, PSA_ALG_IS_MAC, PSA_ALG_CATEGORY_MAC
    <3>3. PSA_ALG_HMAC_GET_HASH(a).hash = m.hash
      BY <2>1 DEF PSA_ALG_HMAC_GET_HASH, PsaHash, Algorithm
    <3>4. PSA_MAC_LENGTH(type, a) = HashLengths[m.hash]
      BY <3>1, <3>2, <3>3, KeyAttributesAssumption DEF PSA_HASH_LENGTH
    <3>5. QED
      BY <3>1, <3>4, KeyAttributesAssumption DEF PSA_MAC_MAX_SIZE
  <2>3. CASE m.scheme = "cipher_mac"
    <3>1. m.base.sub = 3
      BY <2>3 DEF IsMac, Is
    <3>2. PSA_MAC_LENGTH(type, a) = PSA_BLOCK_CIPHER_BLOCK_LENGTH(type)
      BY <2>1, <3>1 DEF PSA_MAC_LENGTH, PSA_MAC_TRUNCATED_LENGTH,
              PSA_ALG_IS_HMAC, PSA_ALG_IS_BLOCK_CIPHER_MAC, PSA_ALG_IS_MAC, PSA_ALG_CATEGORY_MAC
    <3>3. QED
      BY <1>1, <3>2, BlockLengths
  <2>4. QED
    BY <2>2, <2>3 DEF IsMac
<1>5. QED
  BY <1>3, <1>4

(* The algorithms a nonce exists for.                                      *)
LEMMA AeadEquals ==
  ASSUME NEW a \in Algs, NEW b \in Algs
  PROVE  MBEDTLS_PSA_ALG_AEAD_EQUAL(a, b)
           <=> a.cat = b.cat /\ a.sub = b.sub /\ a.mid = b.mid /\ a.hash = b.hash
<1>1. PICK c, d : c = [a EXCEPT !.len = 0, !.least = 0] /\ d = [b EXCEPT !.len = 0, !.least = 0]
  OBVIOUS
<1>2. /\ c \in Algs /\ Is(c, a.cat, a.sub, 0, 0, a.mid, a.hash)
      /\ d \in Algs /\ Is(d, b.cat, b.sub, 0, 0, b.mid, b.hash)
  BY <1>1 DEF Algs, Is
<1>3. c = d <=> a.cat = b.cat /\ a.sub = b.sub /\ a.mid = b.mid /\ a.hash = b.hash
  BY <1>2, SameFields DEF Is
<1>4. QED
  BY <1>1, <1>3 DEF MBEDTLS_PSA_ALG_AEAD_EQUAL

LEMMA Nonces ==
  ASSUME NEW a \in Algs, NEW type \in AllTypes
  PROVE  /\ PSA_AEAD_NONCE_LENGTH(type, a) \in {0, 12, 13}
         /\ AeadFits(type, a) =>
               /\ a.cat = 5
               /\ PSA_ALG_IS_AEAD_ON_BLOCK_CIPHER(a) => PSA_BLOCK_CIPHER_BLOCK_LENGTH(type) = 16
<1>1. /\ MBEDTLS_PSA_ALG_AEAD_EQUAL(a, PSA_ALG_CCM) => a.cat = 5
      /\ MBEDTLS_PSA_ALG_AEAD_EQUAL(a, PSA_ALG_GCM) => a.cat = 5
      /\ MBEDTLS_PSA_ALG_AEAD_EQUAL(a, PSA_ALG_CHACHA20_POLY1305) => a.cat = 5 /\ a.sub = 0
  BY AeadEquals, AeadBases DEF Is
<1>2. PSA_ALG_IS_AEAD_ON_BLOCK_CIPHER(a) => a.sub % 2 = 1
  BY RecognisersDecide
<1>3. CASE PSA_BLOCK_CIPHER_BLOCK_LENGTH(type) = 16
  BY <1>1, <1>3 DEF PSA_AEAD_NONCE_LENGTH, AeadFits
<1>4. CASE PSA_BLOCK_CIPHER_BLOCK_LENGTH(type) # 16
  BY <1>1, <1>2, <1>4 DEF PSA_AEAD_NONCE_LENGTH, AeadFits
<1>5. QED
  BY <1>3, <1>4

(* The tag an AEAD appends.                                                *)
LEMMA TagFits ==
  ASSUME NEW m \in Mades, NEW a \in Algs, IsBuilt(m, a), NEW type \in AllTypes,
         AeadFits(type, a)
  PROVE  a.len \in 1 .. 16
<1>1. IsAead(m, a)
  BY Nonces, OnlyMacs DEF PSA_ALG_IS_AEAD, PSA_ALG_CATEGORY_AEAD
<1>2. m.len \in Nat
  BY DEF Mades
<1>3. QED
  BY <1>1, <1>2 DEF IsAead, Is

(* What fits whole blocks fits the blocks of 16 bytes.                     *)
LEMMA AeadDataFits ==
  ASSUME NEW m \in Mades, NEW a \in Algs, IsBuilt(m, a), NEW type \in AllTypes, NEW n \in Nat
  PROVE  LET tag == PSA_AEAD_TAG_LENGTH(type, a)
             sealed == PSA_AEAD_ENCRYPT_OUTPUT_SIZE(type, a, n)
             parts == PSA_AEAD_UPDATE_OUTPUT_SIZE(type, a, n)
                      + PSA_AEAD_FINISH_OUTPUT_SIZE(type, a)
         IN  /\ tag <= PSA_AEAD_TAG_MAX_SIZE
             /\ AeadFits(type, a) =>
                   /\ PSA_AEAD_DECRYPT_OUTPUT_SIZE(type, a, sealed) = n
                   /\ parts + tag >= sealed
                   /\ n < tag => PSA_AEAD_DECRYPT_OUTPUT_SIZE(type, a, n) = 0
             /\ sealed <= PSA_AEAD_ENCRYPT_OUTPUT_MAX_SIZE(n)
             /\ parts <= PSA_AEAD_UPDATE_OUTPUT_MAX_SIZE(n) + PSA_AEAD_FINISH_OUTPUT_MAX_SIZE
<1>1. PICK r \in Nat : r = PSA_ROUND_UP_TO_MULTIPLE(16, n) /\ r >= n
  <2>1. PSA_ROUND_UP_TO_MULTIPLE(16, n) \in n .. n + 16 - 1
    BY RoundedUp DEF Blocks
  <2>2. QED
    BY <2>1
<1>2. /\ PSA_AEAD_UPDATE_OUTPUT_MAX_SIZE(n) = r /\ PSA_AEAD_FINISH_OUTPUT_MAX_SIZE = 16
      /\ PSA_AEAD_ENCRYPT_OUTPUT_MAX_SIZE(n) = n + 16 /\ PSA_AEAD_TAG_MAX_SIZE = 16
  BY <1>1 DEF PSA_AEAD_UPDATE_OUTPUT_MAX_SIZE, PSA_AEAD_FINISH_OUTPUT_MAX_SIZE,
       PSA_AEAD_ENCRYPT_OUTPUT_MAX_SIZE, PSA_AEAD_TAG_MAX_SIZE, PSA_BLOCK_CIPHER_BLOCK_MAX_SIZE
<1>3. CASE AeadFits(type, a)
  <2>1. PICK len \in 1 .. 16 : len = a.len
    BY <1>3, TagFits
  <2>2. /\ PSA_AEAD_TAG_LENGTH(type, a) = len
        /\ PSA_AEAD_ENCRYPT_OUTPUT_SIZE(type, a, n) = n + len
        /\ PSA_AEAD_DECRYPT_OUTPUT_SIZE(type, a, n + len)
              = IF n + len > len THEN n + len - len ELSE 0
        /\ PSA_AEAD_DECRYPT_OUTPUT_SIZE(type, a, n) = IF n > len THEN n - len ELSE 0
    BY <1>3, <2>1 DEF PSA_AEAD_TAG_LENGTH, PSA_AEAD_ENCRYPT_OUTPUT_SIZE,
         PSA_AEAD_DECRYPT_OUTPUT_SIZE, PSA_ALG_AEAD_GET_TAG_LENGTH
  <2>3. \/ /\ PSA_AEAD_UPDATE_OUTPUT_SIZE(type, a, n) = r
           /\ PSA_AEAD_FINISH_OUTPUT_SIZE(type, a) = 16
        \/ /\ PSA_AEAD_UPDATE_OUTPUT_SIZE(type, a, n) = n
           /\ PSA_AEAD_FINISH_OUTPUT_SIZE(type, a) = 0
    <3>1. CASE PSA_ALG_IS_AEAD_ON_BLOCK_CIPHER(a)
      <4>1. PSA_BLOCK_CIPHER_BLOCK_LENGTH(type) = 16
        BY <1>3, <3>1, Nonces
      <4>2. QED
        BY <1>1, <1>3, <3>1, <4>1 DEF PSA_AEAD_UPDATE_OUTPUT_SIZE, PSA_AEAD_FINISH_OUTPUT_SIZE
    <3>2. CASE ~PSA_ALG_IS_AEAD_ON_BLOCK_CIPHER(a)
      BY <1>3, <3>2 DEF PSA_AEAD_UPDATE_OUTPUT_SIZE, PSA_AEAD_FINISH_OUTPUT_SIZE
    <3>3. QED
      BY <3>1, <3>2
  <2>4. QED
    BY <1>1, <1>2, <1>3, <2>1, <2>2, <2>3
<1>4. CASE ~AeadFits(type, a)
  <2>1. /\ PSA_AEAD_TAG_LENGTH(type, a) = 0
        /\ PSA_AEAD_ENCRYPT_OUTPUT_SIZE(type, a, n) = 0
        /\ PSA_AEAD_UPDATE_OUTPUT_SIZE(type, a, n) = 0
        /\ PSA_AEAD_FINISH_OUTPUT_SIZE(type, a) = 0
    BY <1>4 DEF PSA_AEAD_TAG_LENGTH, PSA_AEAD_ENCRYPT_OUTPUT_SIZE,
         PSA_AEAD_UPDATE_OUTPUT_SIZE, PSA_AEAD_FINISH_OUTPUT_SIZE
  <2>2. QED
    BY <1>1, <1>2, <1>4, <2>1
<1>5. QED
  BY <1>3, <1>4

LEMMA CipherDataFits ==
  ASSUME NEW a \in Algs, NEW type \in AllTypes, NEW n \in Nat
  PROVE  LET iv == PSA_CIPHER_IV_LENGTH(type, a)
             block == PSA_BLOCK_CIPHER_BLOCK_LENGTH(type)
             encrypted == PSA_CIPHER_ENCRYPT_OUTPUT_SIZE(type, a, n)
             cparts == PSA_CIPHER_UPDATE_OUTPUT_SIZE(type, a, n)
                       + PSA_CIPHER_FINISH_OUTPUT_SIZE(type, a)
         IN  /\ iv <= PSA_CIPHER_IV_MAX_SIZE
             /\ PSA_ALG_IS_CIPHER(a) /\ block # 0 =>
                   /\ iv + cparts >= encrypted
                   /\ PSA_CIPHER_DECRYPT_OUTPUT_SIZE(type, a, encrypted) >= n
             /\ encrypted <= PSA_CIPHER_ENCRYPT_OUTPUT_MAX_SIZE(n)
             /\ cparts <= PSA_CIPHER_UPDATE_OUTPUT_MAX_SIZE(n)
                          + PSA_CIPHER_FINISH_OUTPUT_MAX_SIZE
<1>1. PICK block, iv, e, u, f :
         /\ block \in Blocks /\ block = PSA_BLOCK_CIPHER_BLOCK_LENGTH(type)
         /\ iv = PSA_CIPHER_IV_LENGTH(type, a)
         /\ e = PSA_CIPHER_ENCRYPT_OUTPUT_SIZE(type, a, n)
         /\ u = PSA_CIPHER_UPDATE_OUTPUT_SIZE(type, a, n)
         /\ f = PSA_CIPHER_FINISH_OUTPUT_SIZE(type, a)
  BY BlockLengths DEF Blocks
<1>2. iv \in {0, block, 12, 13}
  BY <1>1 DEF PSA_CIPHER_IV_LENGTH
<1>3. block \in 0 .. 16 /\ iv \in 0 .. 16
  BY <1>1, <1>2 DEF Blocks
<1>4. PICK r, r1 : r = PSA_ROUND_UP_TO_MULTIPLE(16, n) /\ r1 = PSA_ROUND_UP_TO_MULTIPLE(16, n + 1)
  OBVIOUS
<1>5. /\ r \in n .. n + 15 /\ r1 \in n + 1 .. n + 16
  <2>1. \A l \in Nat : PSA_ROUND_UP_TO_MULTIPLE(16, l) \in l .. l + 15
    BY DEF PSA_ROUND_UP_TO_MULTIPLE
  <2>2. n + 1 \in Nat
    OBVIOUS
  <2>3. QED
    BY <1>4, <2>1, <2>2
<1>6. /\ PSA_CIPHER_IV_MAX_SIZE = 16
      /\ PSA_CIPHER_ENCRYPT_OUTPUT_MAX_SIZE(n) = r1 + 16
      /\ PSA_CIPHER_UPDATE_OUTPUT_MAX_SIZE(n) = r /\ PSA_CIPHER_FINISH_OUTPUT_MAX_SIZE = 16
  BY <1>4 DEF PSA_CIPHER_IV_MAX_SIZE, PSA_CIPHER_ENCRYPT_OUTPUT_MAX_SIZE,
       PSA_CIPHER_UPDATE_OUTPUT_MAX_SIZE, PSA_CIPHER_FINISH_OUTPUT_MAX_SIZE,
       PSA_BLOCK_CIPHER_BLOCK_MAX_SIZE
<1>7. PSA_ALG_CBC_PKCS7.cat = 4
  BY DEF PSA_ALG_CBC_PKCS7, Algorithm, PSA_ALG_CATEGORY_CIPHER
<1>8. a = PSA_ALG_CBC_PKCS7 => PSA_ALG_IS_CIPHER(a)
  BY <1>7 DEF PSA_ALG_IS_CIPHER, PSA_ALG_CATEGORY_CIPHER
<1>9. CASE block = 0
  <2>1. e \in {0, n + iv} /\ u = 0 /\ f = 0
    BY <1>1, <1>9 DEF PSA_CIPHER_ENCRYPT_OUTPUT_SIZE, PSA_CIPHER_UPDATE_OUTPUT_SIZE,
            PSA_CIPHER_FINISH_OUTPUT_SIZE
  <2>2. QED
    BY <1>1, <1>3, <1>5, <1>6, <1>9, <2>1
<1>10. CASE block # 0
  <2>1. PICK b, b1 : /\ b = PSA_ROUND_UP_TO_MULTIPLE(block, n)
                     /\ b1 = PSA_ROUND_UP_TO_MULTIPLE(block, n + 1)
    OBVIOUS
  <2>2. /\ b \in n .. n + block - 1 /\ b <= r /\ b1 <= b + block
        /\ b1 \in n + 1 .. n + 1 + block - 1 /\ b1 <= r1
    <3>1. n + 1 \in Nat
      OBVIOUS
    <3>2. /\ b \in n .. n + block - 1 /\ b <= r /\ b1 <= b + block
      BY <1>1, <1>4, <1>10, <2>1, RoundedUp
    <3>3. b1 \in n + 1 .. n + 1 + block - 1 /\ b1 <= r1
      BY <1>1, <1>4, <1>10, <2>1, <3>1, RoundedUp
    <3>4. QED
      BY <3>2, <3>3
  <2>3. CASE a = PSA_ALG_CBC_PKCS7
    <3>1. e = b1 + iv /\ u = b /\ f = block
      BY <1>1, <1>8, <1>10, <2>1, <2>3 DEF PSA_CIPHER_ENCRYPT_OUTPUT_SIZE,
           PSA_CIPHER_UPDATE_OUTPUT_SIZE, PSA_CIPHER_FINISH_OUTPUT_SIZE
    <3>2. e >= n /\ iv + (u + f) >= e /\ e <= r1 + 16 /\ u + f <= r + 16
      BY <1>3, <1>5, <2>2, <3>1
    <3>3. PSA_CIPHER_DECRYPT_OUTPUT_SIZE(type, a, e) = e
      BY <1>1, <1>8, <1>10, <2>3 DEF PSA_CIPHER_DECRYPT_OUTPUT_SIZE, PSA_BLOCK_CIPHER_BLOCK_LENGTH
    <3>4. QED
      BY <1>1, <1>3, <1>6, <3>2, <3>3
  <2>4. CASE a # PSA_ALG_CBC_PKCS7 /\ PSA_ALG_IS_CIPHER(a)
    <3>1. e = n + iv /\ u \in {b, n} /\ f = 0
      BY <1>1, <1>10, <2>1, <2>4 DEF PSA_CIPHER_ENCRYPT_OUTPUT_SIZE,
           PSA_CIPHER_UPDATE_OUTPUT_SIZE, PSA_CIPHER_FINISH_OUTPUT_SIZE
    <3>2. e >= n /\ iv + (u + f) >= e /\ e <= r1 + 16 /\ u + f <= r + 16
      BY <1>3, <1>5, <2>2, <3>1
    <3>3. PSA_CIPHER_DECRYPT_OUTPUT_SIZE(type, a, e) = e
      BY <1>1, <1>10, <2>4 DEF PSA_CIPHER_DECRYPT_OUTPUT_SIZE, PSA_BLOCK_CIPHER_BLOCK_LENGTH
    <3>4. QED
      BY <1>1, <1>3, <1>6, <3>2, <3>3
  <2>5. CASE ~PSA_ALG_IS_CIPHER(a)
    <3>1. e = 0 /\ u = 0 /\ f = 0
      BY <1>1, <1>8, <2>5 DEF PSA_CIPHER_ENCRYPT_OUTPUT_SIZE,
           PSA_CIPHER_UPDATE_OUTPUT_SIZE, PSA_CIPHER_FINISH_OUTPUT_SIZE
    <3>2. QED
      BY <1>1, <1>3, <1>5, <1>6, <2>5, <3>1
  <2>6. QED
    BY <2>3, <2>4, <2>5
<1>11. QED
  BY <1>9, <1>10

(* The sizes of psa/crypto_sizes.h are large enough for what each          *)
(* operation produces and within their maxima, for every key type and size *)
(* the library supports and every algorithm that can be built.             *)
THEOREM AttributesFit == AttributesSpec => []OutputsFit
<1>1. ASSUME AttributesInv
      PROVE  OutputsFit
  <2>0. PICK m, a, type, bits : /\ m = made /\ a = attributes.alg
                                /\ type = attributes.type /\ bits = attributes.bits
    OBVIOUS
  <2>1. /\ m \in Mades /\ a \in Algs /\ IsBuilt(m, a) /\ type \in AllTypes /\ bits \in Nat
        /\ type \in KeyTypeValues
    BY <1>1, <2>0, AllTypesAreValues DEF AttributesInv, AttributesType
  <2>2. KeyOutputsFit
    BY <2>0, <2>1, KeysFit DEF KeyOutputsFit
  <2>3. DataOutputsFit
    <3>1. PSA_MAC_LENGTH(type, a) <= PSA_MAC_MAX_SIZE \/ ~PSA_ALG_IS_MAC(a)
      BY <2>1, OnlyMacs, MacFits
    <3>2. PSA_AEAD_NONCE_LENGTH(type, a) <= PSA_AEAD_NONCE_MAX_SIZE
      <4>1. PSA_AEAD_NONCE_LENGTH(type, a) \in {0, 12, 13}
        BY <2>1, Nonces
      <4>2. QED
        BY <4>1 DEF PSA_AEAD_NONCE_MAX_SIZE
    <3>3. QED
      BY <2>0, <2>1, <3>1, <3>2, AeadDataFits, CipherDataFits DEF DataOutputsFit
  <2>4. QED
    BY <2>2, <2>3 DEF OutputsFit
<1>2. QED
  BY <1>1, AttributesInvariant, PTL
=============================================================================
