---------------------------- MODULE AttributeCache ----------------------------
(***************************************************************************)
(* The inline cache of one instruction that reads, calls or writes         *)
(* obj.attr, or of a for loop that calls __next__ (bytecode/cache/attr.rs, *)
(* rt/fast_path, rt/iteration/loop_advance.rs), over classes and instances *)
(* that the program changes at any time.                                   *)
(*                                                                         *)
(* An entry records what a completed slow path found out about a class: a  *)
(* value, or only where the attribute lives.  It is guarded by the class   *)
(* identity, the class's mutation version and the global class epoch.  The *)
(* slow path may run Python code (a descriptor, a hook, the method called) *)
(* before the entry is filled; that code executes the same instruction and *)
(* changes classes like any other.                                         *)
(*                                                                         *)
(* Class is a set of addresses.  A class that dies leaves its address to a *)
(* class made later, unless an entry still holds a weak reference to it.   *)
(* For a loop "attr" stands for __next__.                                  *)
(***************************************************************************)
EXTENDS Integers, SequencesExt, FiniteSetsExt

CONSTANTS
    Class,        \* addresses of heap classes
    Mro,          \* class -> linearization, the class first
    Layout,       \* class -> instance layout
    Slotted,      \* the classes with __slots__ (which list __dict__)
    Receiver,     \* instances the instruction is executed on
    Object,       \* instances stored as a class attribute
    Value,        \* values of the class attribute, Object among them
    Kind,         \* value -> function, plain, string, property, member,
                  \* native_classmethod or instance
    Function,     \* the value of a special method that a class body defines
    ClassTarget,  \* classes the instruction is executed on
    Settable,     \* class -> name -> values the program ever sets it to
    Mortal,       \* classes the program may drop
    Defines,      \* class -> special methods its body defines
    InitClass,    \* instance -> its first class
    Shared,       \* the value kept in an instance dict or member cell
    Unset,        \* no value
    Inline,       \* the instance has its own dict, none was assigned to __dict__
    MaxVersion,   \* bound: value at which a mutation version stops
    MaxEpoch      \* bound: value at which the class epoch stops

ASSUME ClassAssumption ==
    /\ ClassTarget \subseteq Class /\ Slotted \subseteq Class
    /\ Class \cap (Receiver \cup Object) = {}
    /\ InitClass \in [Receiver \cup Object -> Class]
    /\ Mro \in [Class -> Seq(Class)] /\ \A c \in Class : Mro[c] # <<>> /\ Head(Mro[c]) = c
ASSUME ValueAssumption ==
    /\ Object \subseteq Value /\ {Function, Shared} \subseteq Value /\ Unset \notin Value
    /\ \A v \in Value : (Kind[v] = "instance") <=> (v \in Object)
ASSUME LayoutAssumption ==
    \A c \in ClassTarget : \E i \in Receiver : Layout[c] = Layout[InitClass[i]]
ASSUME BoundAssumption == {MaxVersion, MaxEpoch} \subseteq Nat

Special == {"__getattribute__", "__setattr__", "__get__", "__set__"}
Name == {"attr"} \cup Special

\* the classes a receiver can have; nobody reads the version of another one
Stampable == {c \in Class : \E i \in Receiver : Layout[c] = Layout[InitClass[i]]}

Sites == {"get", "call", "set", "next"}

VARIABLES
    site,      \* the kind of the instruction
    alive,     \* classes that exist
    attrs,     \* attributes of the classes
    version,   \* mutation_version of the classes a receiver can have
    epoch,     \* CLASS_MUTATION_EPOCH
    class,     \* class of an instance
    inst,      \* attribute storage of the receivers
    entry,     \* the cache entry
    running,   \* the target whose slow path is running Python code
    slipped    \* history: an attribute value was retyped into or out of being
               \* a descriptor since the entry was filled

vars == <<site, alive, attrs, version, epoch, class, inst, entry, running, slipped>>

None == "none"
Miss == <<"miss">>

-----------------------------------------------------------------------------
(* Lookup *)

\* lookup_class_attr
Lookup(c, name) ==
    LET owners == {k \in DOMAIN Mro[c] : attrs[Mro[c][k]][name] # Unset}
    IN  IF owners = {} THEN Unset ELSE attrs[Mro[c][Min(owners)]][name]

Has(c, name) == Lookup(c, name) # Unset

\* what the methods of its class make of an instance; __delete__ counts like
\* __set__ and is left out
Protocol(c) == IF Has(c, "__set__") THEN "data"
               ELSE IF Has(c, "__get__") THEN "non-data" ELSE "plain"

\* is_data_descriptor
IsDataDescriptor(v) ==
    \/ Kind[v] \in {"property", "member"}
    \/ v \in Object /\ Protocol(class[v]) = "data"

\* is_non_data_descriptor
IsNonDataDescriptor(v) == v \in Object /\ Protocol(class[v]) = "non-data"

\* get_cloned, contains_key: the assigned dict if there is one
Visible(i) == IF inst[i].dict = Inline THEN inst[i].entries ELSE inst[i].dict

\* the end of get_attr_instance_raw, and the rebinding done by a cache hit
Bound(v) == IF Kind[v] = "function" THEN <<"bound", v>> ELSE <<"value", v>>

\* get_attr on an instance: __getattribute__, else get_attr_instance_raw
ReadInstance(i) ==
    LET v == Lookup(class[i], "attr")
    IN  IF Has(class[i], "__getattribute__") THEN <<"hook">>
        ELSE IF v # Unset /\ IsDataDescriptor(v)
             THEN IF Kind[v] # "member" THEN <<"descriptor", v>>
                  ELSE IF inst[i].cell = Unset THEN <<"error">>
                  ELSE <<"value", inst[i].cell>>
        ELSE IF Visible(i) # Unset THEN <<"value", Visible(i)>>
        ELSE IF v = Unset THEN <<"error">>
        ELSE IF IsNonDataDescriptor(v) \/ Kind[v] = "native_classmethod"
             THEN <<"descriptor", v>>
        ELSE Bound(v)

\* get_attr_class
ReadClass(c) ==
    LET v == Lookup(c, "attr")
    IN  IF v = Unset THEN <<"error">>
        ELSE IF Kind[v] = "native_classmethod" THEN <<"native", v, c>>
        ELSE IF v \in Object /\ Has(class[v], "__get__") THEN <<"descriptor", v>>
        ELSE <<"value", v>>

\* assign_attr_instance
WriteInstance(i) ==
    LET v == Lookup(class[i], "attr")
    IN  IF Has(class[i], "__setattr__") THEN <<"hook">>
        ELSE IF v # Unset /\ IsDataDescriptor(v)
             THEN IF Kind[v] = "member" THEN <<"cell">> ELSE <<"descriptor", v>>
        ELSE <<"insert">>

\* what the instruction does without its cache
Slow(t) ==
    CASE site = "set" -> WriteInstance(t)
      [] site = "next" -> <<"method", Lookup(class[t], "attr")>>
      [] OTHER -> IF t \in Class THEN ReadClass(t) ELSE ReadInstance(t)

Targets == Receiver \cup IF site \in {"get", "call"} THEN ClassTarget \cap alive ELSE {}
ClassOf(t) == IF t \in Class THEN t ELSE class[t]

-----------------------------------------------------------------------------
(* What a completed lookup allows to be cached *)

\* class_cache_stamp yields a stamp
HasStamp(c) == version[c] # MaxVersion /\ epoch # MaxEpoch

\* mutant: only the version of the class itself is compared
StampMatchesVersion(e, c) == e.version # MaxVersion /\ e.version = version[c]

\* class_cache_stamp_matches
StampMatches(e, c) ==
    /\ e.version # MaxVersion /\ e.epoch # MaxEpoch
    /\ e.version = version[c] /\ e.epoch = epoch

\* descriptor_cache_kind is Dynamic
Dynamic(v) == Kind[v] \in {"property", "native_classmethod"}

Uncacheable == [kind |-> "uncacheable"]
Plan(kind, v) == [kind |-> kind, value |-> v]

\* read_attribute_cache_plan
ReadPlan(t) ==
    LET v == Lookup(ClassOf(t), "attr")
        member == v # Unset /\ Kind[v] = "member"
        plain == v = Unset \/ ~(Dynamic(v) \/ IsDataDescriptor(v))
    IN  CASE t \in Class ->
               IF v # Unset /\ Kind[v] = "native_classmethod"
               THEN Plan("native", v) ELSE Uncacheable
          [] t \notin Class /\ Has(class[t], "__getattribute__") -> Uncacheable
          [] OTHER ->
               IF member /\ (inst[t].cell # Unset \/ Visible(t) # Unset)
               THEN Plan("slot", Unset)
               ELSE IF ~plain THEN Uncacheable
               ELSE IF Visible(t) # Unset THEN Plan("instance", Unset)
               ELSE IF v # Unset /\ ~IsNonDataDescriptor(v) THEN Plan("class", v)
               ELSE Uncacheable

\* read_method_cache_plan
MethodPlan(t) ==
    LET plan == ReadPlan(t)
    IN  IF \/ plan.kind = "native"
           \/ plan.kind = "class" /\ Kind[plan.value] = "function"
        THEN plan ELSE Uncacheable

\* write_attribute_cache_class
WritePlan(i) ==
    LET v == Lookup(class[i], "attr")
    IN  IF /\ ~Has(class[i], "__setattr__")
           /\ v = Unset \/ ~IsDataDescriptor(v)
           /\ class[i] \notin Slotted
        THEN Plan("write", Unset) ELSE Uncacheable

-----------------------------------------------------------------------------
(* The entry *)

Empty == [kind |-> "empty"]
Megamorphic == [kind |-> "megamorphic"]

\* the entries that carry a class
Monomorphic == {"class", "instance", "slot", "native", "write", "next"}
Holds(e, c) == e.kind \in Monomorphic /\ e.class = c

Stamped(plan, c) ==
    [kind |-> plan.kind, class |-> c, version |-> version[c], epoch |-> epoch,
     value |-> plan.value]

\* AttrCacheEntry::class_attr: a heap string has no weak reference
Filled(plan, c) ==
    IF plan.kind = "class" /\ Kind[plan.value] = "string"
    THEN Uncacheable ELSE Stamped(plan, c)

\* the entry after a miss on an entry that carries a class: another class ends
\* the caching, the same one lets the next slow path refill
Reset(e, t) ==
    IF (e.kind = "native") = (t \in Class) /\ e.class = ClassOf(t)
    THEN Empty ELSE Megamorphic

\* fill_get_attr_cache
FillGet(e, t) ==
    LET plan == ReadPlan(t)
    IN  CASE e.kind \in {"megamorphic", "uncacheable"} -> e
          [] e.kind \in Monomorphic -> Reset(e, t)
          [] OTHER ->
               IF plan = Uncacheable
               THEN IF t \in Class THEN Megamorphic ELSE Empty
               ELSE IF HasStamp(ClassOf(t)) THEN Filled(plan, ClassOf(t)) ELSE e

\* update_call_method_cache
FillCall(e, t) ==
    LET plan == MethodPlan(t)
    IN  CASE e.kind \in {"megamorphic", "uncacheable"} -> e
          [] e.kind \in Monomorphic -> Reset(e, t)
          [] OTHER ->
               IF plan = Uncacheable
               THEN IF t \in Class THEN Megamorphic ELSE Uncacheable
               ELSE IF HasStamp(ClassOf(t)) THEN Filled(plan, ClassOf(t)) ELSE e

\* the end of exec_set_attr
FillSet(e, t) ==
    LET plan == WritePlan(t)
    IN  CASE e.kind = "megamorphic" -> e
          [] e.kind \in Monomorphic -> Reset(e, t)
          [] OTHER -> IF plan # Uncacheable /\ HasStamp(class[t])
                      THEN Stamped(plan, class[t]) ELSE e

\* advance_loop_iterator remembers the absence of __next__ as well
FillNext(t) ==
    IF HasStamp(class[t])
    THEN Stamped(Plan("next", Lookup(class[t], "attr")), class[t]) ELSE Empty

Fill(e, t) ==
    CASE site = "get" -> FillGet(e, t)
      [] site = "call" -> FillCall(e, t)
      [] site = "set" -> FillSet(e, t)
      [] site = "next" -> FillNext(t)

\* the cached arms of exec_get_attr, try_call_method_cached, exec_set_attr and
\* advance_loop_iterator: what a hit does, or Miss
Hit(t) ==
    IF ~(Holds(entry, ClassOf(t)) /\ StampMatches(entry, ClassOf(t))) THEN Miss
    ELSE CASE entry.kind = "native" ->
                IF t \in Class THEN <<"native", entry.value, t>> ELSE Miss
           [] entry.kind = "write" -> <<"insert">>
           [] entry.kind = "next" -> <<"method", entry.value>>
           [] entry.kind = "instance" ->
                IF t \notin Class /\ inst[t].entries # Unset
                THEN <<"value", inst[t].entries>> ELSE Miss
           [] entry.kind = "slot" ->
                IF t \notin Class /\ inst[t].cell # Unset
                THEN <<"value", inst[t].cell>> ELSE Miss
           [] entry.kind = "class" ->
                IF t \notin Class /\ Visible(t) = Unset THEN Bound(entry.value) ELSE Miss

-----------------------------------------------------------------------------
(* Executing the instruction *)

\* InstanceAttrs::insert
Inserted(i) == IF inst[i].dict = Inline THEN [inst[i] EXCEPT !.entries = Shared]
               ELSE [inst[i] EXCEPT !.dict = Shared]

\* what the slow path does to the receiver before the entry is filled
Effect(t) ==
    CASE Slow(t) = <<"insert">> -> [inst EXCEPT ![t] = Inserted(t)]
      [] Slow(t) = <<"cell">> -> [inst EXCEPT ![t].cell = Shared]
      [] OTHER -> inst

\* the slow path runs Python code before the entry is filled
RunsPython(t) ==
    \/ Slow(t)[1] \in {"hook", "descriptor"}
    \/ site = "call" /\ Slow(t)[1] # "error"

Classes == <<site, alive, attrs, version, epoch, class>>

\* the slow path ends in an error without Python code: the entry stays
RaiseAtOnce(t) ==
    /\ Hit(t) = Miss /\ Slow(t) = <<"error">>
    /\ UNCHANGED vars

\* a slow path without Python code; the write does not change the plan
FillAtOnce(t) ==
    /\ Hit(t) = Miss /\ ~RunsPython(t) /\ Slow(t) # <<"error">>
    /\ inst' = Effect(t)
    /\ entry' = Fill(entry, t)
    /\ slipped' = FALSE
    /\ UNCHANGED <<Classes, running>>

StartPython(t) ==
    /\ Hit(t) = Miss /\ RunsPython(t) /\ running = None
    /\ running' = t
    /\ UNCHANGED <<Classes, inst, entry, slipped>>

\* the Python code returns; a call fills the entry even if the method raised
FillLate ==
    /\ running # None
    /\ running' = None
    /\ entry' = Fill(entry, running)
    /\ slipped' = FALSE
    /\ UNCHANGED <<Classes, inst>>

RaiseLate ==
    /\ running # None
    /\ running' = None
    /\ UNCHANGED <<Classes, inst, entry, slipped>>

WriteHit(t) ==
    /\ Hit(t) = <<"insert">>
    /\ inst' = [inst EXCEPT ![t] = Inserted(t)]
    /\ UNCHANGED <<Classes, entry, running, slipped>>

-----------------------------------------------------------------------------
(* The program around it *)

\* bump_mutation_version and bump_class_epoch saturate
Bump(n, max) == IF n = max THEN n ELSE n + 1

Mutate(c, name, v) ==
    /\ attrs' = [attrs EXCEPT ![c][name] = v]
    /\ version' = IF c \in DOMAIN version
                  THEN [version EXCEPT ![c] = Bump(@, MaxVersion)] ELSE version
    /\ epoch' = Bump(epoch, MaxEpoch)
    /\ slipped' = FALSE
    /\ UNCHANGED <<site, alive, class, inst, entry, running>>

\* assign_attr_class
SetClassAttr(c, name, v) == c \in alive /\ Mutate(c, name, v)

\* delete_attr_kind_class
DeleteClassAttr(c, name) ==
    c \in alive /\ attrs[c][name] # Unset /\ Mutate(c, name, Unset)

\* retype_instance: no counter moves
Retype(i, c) ==
    /\ c \in alive /\ c # class[i] /\ Layout[c] = Layout[class[i]]
    /\ class' = [class EXCEPT ![i] = c]
    /\ slipped' = (slipped \/ (i \in Object /\ Protocol(c) # Protocol(class[i])))
    /\ UNCHANGED <<site, alive, attrs, version, epoch, inst, entry, running>>

\* obj.attr or obj.__dict__["attr"] is set or deleted elsewhere, also through a
\* proxy of the dict that was taken before another one was assigned
EditEntries(i, v) ==
    /\ inst' = [inst EXCEPT ![i].entries = v]
    /\ UNCHANGED <<Classes, entry, running, slipped>>

\* replace_instance_dict, or the assigned dict is changed
EditDict(i, v) ==
    /\ inst' = [inst EXCEPT ![i].dict = v]
    /\ UNCHANGED <<Classes, entry, running, slipped>>

\* the member descriptor sets or deletes the cell elsewhere
EditCell(i, v) ==
    /\ Has(class[i], "attr") /\ Kind[Lookup(class[i], "attr")] = "member"
    /\ inst' = [inst EXCEPT ![i].cell = v]
    /\ UNCHANGED <<Classes, entry, running, slipped>>

\* the last strong reference to a class goes
Die(c) ==
    /\ c \in alive /\ running # c
    /\ \A i \in DOMAIN class : class[i] # c
    /\ \A d \in alive \ {c} : c \notin ToSet(Mro[d])
    /\ alive' = alive \ {c}
    /\ attrs' = [attrs EXCEPT ![c] = [name \in Name |-> Unset]]
    /\ version' = IF c \in DOMAIN version THEN [version EXCEPT ![c] = 0] ELSE version
    /\ UNCHANGED <<site, epoch, class, inst, entry, running, slipped>>

\* the attributes of a class whose body defines attr as v; special methods that
\* come and go are set afterwards
Body(c, v) ==
    [name \in Name |-> CASE name = "attr" -> v
                         [] name \in Defines[c] -> Function
                         [] OTHER -> Unset]

\* an address is free again when no weak reference holds it
Reusable(c) == ~Holds(entry, c)

\* a class statement: version 0, and the epoch stays
NewClass(c, v) ==
    /\ c \notin alive /\ Reusable(c)
    /\ ToSet(Tail(Mro[c])) \subseteq alive
    /\ alive' = alive \cup {c}
    /\ attrs' = [attrs EXCEPT ![c] = Body(c, v)]
    /\ UNCHANGED <<site, version, epoch, class, inst, entry, running, slipped>>

-----------------------------------------------------------------------------
\* names the instruction never asks for are not set
Asked(name) ==
    CASE name = "attr" -> TRUE
      [] name = "__setattr__" -> site = "set"
      [] name = "__set__" -> site # "next"
      [] OTHER -> site \in {"get", "call"}

AttrValues(c) == Settable[c]["attr"] \cup {Unset}

Init ==
    /\ site \in Sites
    /\ alive = Class
    /\ \E first \in [Class -> Value \cup {Unset}] :
          /\ \A c \in Class : first[c] \in AttrValues(c)
          /\ attrs = [c \in Class |-> Body(c, first[c])]
    /\ version = [c \in Stampable |-> 0]
    /\ epoch = 0
    /\ class = InitClass
    /\ inst = [i \in Receiver |-> [entries |-> Unset, dict |-> Inline, cell |-> Unset]]
    /\ entry = Empty
    /\ running = None
    /\ slipped = FALSE

Execute(t) ==
    RaiseAtOnce(t) \/ FillAtOnce(t) \/ StartPython(t) \/ WriteHit(t)

ChangeClass(c) ==
    \/ \E name \in Name :
          /\ Asked(name)
          /\ \/ \E v \in Settable[c][name] : SetClassAttr(c, name, v)
             \/ Settable[c][name] # {} /\ DeleteClassAttr(c, name)
    \/ c \in Mortal /\ Die(c)
    \/ \E v \in AttrValues(c) : NewClass(c, v)

ChangeInstance(i) ==
    \E v \in {Shared, Unset} : EditEntries(i, v) \/ EditDict(i, v) \/ EditCell(i, v)

Next ==
    \/ \E t \in Targets : Execute(t)
    \/ FillLate
    \/ RaiseLate
    \/ \E c \in Class : ChangeClass(c)
    \/ \E i \in Receiver : ChangeInstance(i)
    \/ \E i \in Receiver \cup Object, c \in Class : Retype(i, c)

Spec == Init /\ [][Next]_vars

-----------------------------------------------------------------------------
\* A hit on an instance whose __dict__ was replaced: the entry reads the dict
\* the instance had before (InstanceAttrs::get does not follow dict_ref).
ReadsOldDict(t) ==
    t \in Receiver /\ entry.kind = "instance" /\ inst[t].dict # Inline

\* A hit of the inline cache does what the slow path would do now: a read or a
\* call yields the same binding, a loop calls the same __next__ or finds none,
\* and a write goes to the instance dict only where assign_attr_instance would
\* put it there.  So no change of the class, of an ancestor, of the class of a
\* descriptor or of the receiver, no class made at the address of a dead one,
\* and no saturated counter is missed (class_cache_stamp_matches).  Left out
\* are the two cases in which the code does miss one: a class attribute that is
\* retyped into or out of being a descriptor, and ReadsOldDict.
HitSound ==
    ~slipped => \A t \in Targets :
        Hit(t) # Miss /\ ~ReadsOldDict(t) => Hit(t) = Slow(t)
=============================================================================
