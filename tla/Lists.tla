------------------------------- MODULE Lists --------------------------------
(***************************************************************************)
(* The doubly linked lists and queues of iot_linear_containers.h, as       *)
(* sequences of the objects that contain the links.                        *)
(***************************************************************************)
EXTENDS Integers, Sequences, SequencesExt

(* IotLink_IsLinked, for the one list an object can be in.                 *)
Linked(s, x) == \E i \in DOMAIN s : s[i] = x

(* IotListDouble_Remove: the link of the object is taken out of its list.  *)
Unlink(s, x) == RemoveAt(s, CHOOSE i \in DOMAIN s : s[i] = x)

(* IotListDouble_InsertSorted: before the first element that compares      *)
(* strictly greater by key, so equal elements keep their order; else last. *)
InsertSorted(s, x, key) ==
  LET later == {i \in DOMAIN s : key[x] < key[s[i]]}
  IN  InsertAt(s, Min(later \cup {Len(s) + 1}), x)
=============================================================================
