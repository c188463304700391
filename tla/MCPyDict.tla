------------------------------ MODULE MCPyDict ------------------------------
(* Small instances of PyDict for TLC. *)
EXTENDS PyDict

CONSTANTS str, pair, mixed, obj, oth

(* All in slot 0 of a table of 8; pair and mixed leave the others in a table of 16. *)
Hashes == [k \in Key |-> IF k \in {pair, mixed} THEN 8 ELSE 0]

(* An instance that equals a string, a tuple with an instance that equals a tuple. *)
EqualKeys == {<<obj, str>>, <<str, obj>>, <<pair, mixed>>, <<mixed, pair>>}

(* answer is written by a step and read by none. *)
WithoutAnswer == <<dict, call, inserts>>
=============================================================================
