------------------------------ MODULE MCPkcs11 ------------------------------
(* Instances of Pkcs11 for TLC: one task makes, finds and digests, another *)
(* finds, signs and verifies.                                              *)
EXTENDS Pkcs11

CONSTANT MaxPresent  \* bound on the objects that exist together

MCCallers == [f \in {"provision", "find", "digest", "sign", "verify"} |->
                CASE f \in {"provision", "digest"} -> {"maker"}
                  [] f \in {"sign", "verify"} -> {"user"}
                  [] OTHER -> {"maker", "user"}]

(* Bound: while a session has a digest or a signature under way the other  *)
(* is closed, nothing is searched for and at most two objects are listed.  *)
Operating(t) ==
  session[t].hash \/ session[t].sign # NoOperation \/ session[t].verify # NoOperation

SearchOrOperate ==
  \A t \in Tasks : Operating(t) =>
    /\ \A u \in Tasks \ {t} : ~session[u].open
    /\ session[t].find = None
    /\ \A i \in Slots : i > 2 => objects[i] = None

(* Bound: the objects that exist together.                                 *)
FewObjects == Cardinality({id \in Ids : psa[id] # None}) <= MaxPresent

MCConstraint == SearchOrOperate /\ FewObjects

(* The result of a finished call is seen by the step that returns it and   *)
(* influences nothing after it.                                            *)
MCView == <<initialized, objects, config, psa, session, stored,
            [t \in Tasks |-> IF call[t].op = "idle" THEN "idle" ELSE call[t]]>>
=============================================================================
