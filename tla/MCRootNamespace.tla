--------------------------- MODULE MCRootNamespace ---------------------------
(* Small instances of RootNamespace for TLC. *)
EXTENDS RootNamespace, TLC

CONSTANTS r1, x, y, obj, num, c1, c2, site1, site2, b1, b2, b3

\* obj is an instance with __del__, num an inline value
MCFinalizable == {obj}
NoValue == {}
MCAllocFree == {num}
\* x is a builtin name, bound at module level by both scripts
MCInitBuiltins == [n \in Name |-> IF n = x THEN num ELSE Unset]
NoBuiltins == [n \in Name |-> Unset]
NoSeed == [n \in Name |-> Unset]
OnlyX == [c \in Code |-> {x}]
\* c1 owns registers for both names, c2 for x only
SecondOnlyX == [c \in Code |-> IF c = c2 THEN {x} ELSE Name]
NoCells == [c \in Code |-> {}]
LoadX == [s \in Site |-> x]
\* the two masks share a bit, and together cover a third name's mask
SharedBits == [n \in Name |-> IF n = x THEN {b1, b2} ELSE {b2, b3}]
LoadBoth == [s \in Site |-> IF s = site1 THEN x ELSE y]
\* c1 keeps x in a register, c2 compiles it as a cell
XCell == [c \in Code |-> IF c = c2 THEN {x} ELSE {}]
OwnBits == [n \in Name |-> {n}]
=============================================================================
