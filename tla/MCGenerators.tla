---------------------------- MODULE MCGenerators ----------------------------
(* Small instances of Generators for TLC. *)
EXTENDS Generators

CONSTANTS main, g1, g2, e1

(* g1 and g2 may delegate to each other. *)
Mutual == {<<g1, g2>>, <<g2, g1>>}

(* The top level enters one except body at a time, a generator nests two. *)
DeepInGenerator == [w \in Frames |-> IF w \in Gen THEN 2 ELSE 1]
=============================================================================
