--------------------------- MODULE MCAttributeCache ---------------------------
(* A base class with a member slot, a class derived from it, and two classes  *)
(* for an object that is a class attribute, one of them a data descriptor.    *)
EXTENDS AttributeCache

CONSTANTS Base, Derived, Holder, Descriptor, o, d, fun, mem, ncm

MCMro == [c \in Class |-> IF c = Derived THEN <<Derived, Base>> ELSE <<c>>]
MCLayout == [c \in Class |-> IF c \in {Base, Derived} THEN "receiver" ELSE "object"]
MCKind == [v \in Value |-> CASE v = fun -> "function"
                            [] v = mem -> "member"
                            [] v = ncm -> "native_classmethod"
                            [] v = d -> "instance"]
MCSettable ==
    [c \in Class |-> [name \in Name |->
        CASE c = Base /\ name = "attr" -> Value
          [] c = Derived /\ name = "attr" -> {fun}
          [] \/ c = Base /\ name \in {"__getattribute__", "__setattr__"}
             \/ c = Holder /\ name = "__set__" -> {fun}
          [] OTHER -> {}]]
MCDefines == [c \in Class |-> IF c = Descriptor THEN {"__get__"} ELSE {}]
MCInitClass == [i \in {o, d} |-> IF i = o THEN Derived ELSE Holder]
=============================================================================
