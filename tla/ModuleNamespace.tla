--------------------------- MODULE ModuleNamespace ---------------------------
(***************************************************************************)
(* What a module namespace promises to Python code: every module is one    *)
(* mapping from names to objects.  A statement binds one name or unbinds   *)
(* one name.  A dictionary handed out by globals() is that mapping, so     *)
(* code that holds it may also empty it.  Nothing else ever changes what a *)
(* name denotes.                                                           *)
(***************************************************************************)
CONSTANTS Root, Name, Value, Unset

VARIABLES binding,   \* what each name of each module denotes
          escaped    \* modules whose dictionary Python code holds

vars == <<binding, escaped>>

Init == /\ binding \in [Root -> [Name -> Value \cup {Unset}]]
        /\ escaped = {}

Bind(r, name, value) ==
    /\ binding' = [binding EXCEPT ![r][name] = value]
    /\ UNCHANGED escaped

Unbind(r, name) ==
    /\ binding' = [binding EXCEPT ![r][name] = Unset]
    /\ UNCHANGED escaped

Escape(r) ==
    /\ escaped' = escaped \cup {r}
    /\ UNCHANGED binding

Clear(r) ==
    /\ r \in escaped
    /\ binding' = [binding EXCEPT ![r] = [name \in Name |-> Unset]]
    /\ UNCHANGED escaped

Next == \E r \in Root :
           \/ \E name \in Name, value \in Value : Bind(r, name, value)
           \/ \E name \in Name : Unbind(r, name)
           \/ Escape(r)
           \/ Clear(r)

Spec == Init /\ [][Next]_vars
=============================================================================
