---------------------------- MODULE PkiDocuments ----------------------------
(***************************************************************************)
(* What the device prints on the serial line, and what has to hold of the  *)
(* documents in it.  Who prints it, and who reads it, is in Provisioning.  *)
(***************************************************************************)

VARIABLE
    tx      \* what the device printed and the host has not read

\* What a document becomes whose characters were damaged on their way to the device.
Altered == [type |-> "altered", n |-> 0, name |-> "none", signed |-> FALSE]

\* Every request and certificate carries the signature that was made, in the
\* encoding of X.509, whatever bytes the two numbers of the signature begin with.
\* (A certificate that was damaged on its way to the device is none of these; that
\* it is not what a provisioning leaves behind is part of CompletedIsConsistent.)
DocumentsAreSigned ==
    \A i \in DOMAIN tx : tx[i].k = "pem" /\ tx[i].doc # Altered => tx[i].doc.signed
=============================================================================
