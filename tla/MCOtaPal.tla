------------------------------ MODULE MCOtaPal ------------------------------
(* The instance of OtaPal for TLC.  With four values of a digit and two    *)
(* digits, <<0, 1>> is short, <<0, 2>> is short with a leading zero,       *)
(* <<1, 3>> is full, <<2, 0>> and <<3, 3>> are full with a leading zero.   *)
EXTENDS OtaPal

(* Bounds: at most two types of images are updated, and what follows a     *)
(* download over the image to fall back to is not explored.                *)
MCConstraint ==
  /\ \E t \in Types : stage[t].content = Erased /\ active[t].content = Whole(Factory)
  /\ exposed = {}

MCSignatures == {<< <<0, 1>>, <<2, 0>> >>, << <<3, 3>>, <<0, 2>> >>,
                  << <<1, 3>>, <<0, 0>> >>}
=============================================================================
