----------------------------- MODULE MCKvStore ------------------------------
(* Instances of KvStore for TLC: no string, an empty one, a value of a word *)
(* and three longer ones, two of them of the same length.                  *)
EXTENDS KvStore

MCValues  == {"unset", "empty", "word", "long", "other", "longer"}
MCBytes   == [v \in MCValues |-> CASE v = "unset" -> 0
                                   [] v = "empty" -> 1
                                   [] v = "word" -> 4
                                   [] v = "longer" -> 9
                                   [] OTHER -> 6]
MCDefault == [k \in Keys |-> IF k = 1 THEN "unset" ELSE "word"]
=============================================================================
