----------------------------- MODULE KvContract -----------------------------
(***************************************************************************)
(* What the key-value store promises: a change is staged in volatile       *)
(* memory, saving makes it durable one key at a time, and a reset brings   *)
(* back what is durable, the default where nothing is or nothing can be    *)
(* read.                                                                   *)
(***************************************************************************)
CONSTANTS Keys, Values, Default

VARIABLES staged, durable

Init == staged = Default /\ durable = Default

Set(k, v) == staged' = [staged EXCEPT ![k] = v] /\ UNCHANGED durable

Save(k) == durable' = [durable EXCEPT ![k] = staged[k]] /\ UNCHANGED staged

Reset ==
  \E unread \in SUBSET Keys :
    /\ staged' = [k \in Keys |-> IF k \in unread THEN Default[k] ELSE durable[k]]
    /\ UNCHANGED durable

Next == Reset \/ \E k \in Keys : Save(k) \/ \E v \in Values : Set(k, v)

Spec == Init /\ [][Next]_<<staged, durable>>
=============================================================================
