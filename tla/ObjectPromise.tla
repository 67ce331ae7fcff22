--------------------------- MODULE ObjectPromise ----------------------------
(***************************************************************************)
(* What a store of content-addressed objects promises its callers: a name  *)
(* is given its content once, nobody writes over it, damaged or not, and   *)
(* an object that was promised stays.  Objects can be damaged from outside *)
(* at any time; an object that nobody was promised may be lost again.      *)
(***************************************************************************)
CONSTANT Digests

VARIABLES
  objects,   \* the content under each name: "absent", "whole" or "corrupt"
  promised   \* the names whose content a caller was promised

Init == objects = [d \in Digests |-> "absent"] /\ promised = {}

Appear(d) ==
  /\ objects[d] = "absent"
  /\ objects' = [objects EXCEPT ![d] = "whole"]
  /\ UNCHANGED promised

Promise(d) ==
  /\ objects[d] = "whole"
  /\ promised' = promised \cup {d}
  /\ UNCHANGED objects

Damage(d) ==
  /\ objects[d] = "whole"
  /\ objects' = [objects EXCEPT ![d] = "corrupt"]
  /\ UNCHANGED promised

Lose(lost) ==
  /\ lost \cap promised = {}
  /\ objects' = [d \in Digests |-> IF d \in lost THEN "absent" ELSE objects[d]]
  /\ UNCHANGED promised

Next ==
  \/ \E d \in Digests : Appear(d) \/ Promise(d) \/ Damage(d)
  \/ \E lost \in SUBSET Digests : Lose(lost)

Spec == Init /\ [][Next]_<<objects, promised>>
=============================================================================
