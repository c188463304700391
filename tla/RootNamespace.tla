---------------------------- MODULE RootNamespace ----------------------------
(***************************************************************************)
(* The root (module) namespace of pyrust and the inline cache of the       *)
(* LoadGlobal opcode.                                                      *)
(*                                                                         *)
(* One module binding can be held in four places: the name-keyed EnvValues *)
(* of the root environment, the globals dictionary, the register files     *)
(* ("mirrors") of the live Script frames, and - as a copy - the LoadGlobal *)
(* cache slots of any number of code objects.  A write tells the copies    *)
(* apart only through saturating generation counters and Bloom masks of    *)
(* interesting names.  The module translates every operation that moves a  *)
(* binding, a generation or a mask; properties are at the end.             *)
(*                                                                         *)
(* Not in this module: exec/eval roots with caller-owned dictionaries      *)
(* (their cache is disabled from birth), PEP 695 type-parameter scopes,    *)
(* rebinding of __builtins__, and the builtin exception classes that       *)
(* lookup_name_in_module falls back to (Name holds none of those names).   *)
(***************************************************************************)
EXTENDS Integers, Sequences, FiniteSets

CONSTANTS
    Root,           \* root namespaces of this interpreter thread
    FsRoot,         \* those that back a filesystem PyModule
    Name,           \* module-level names
    Value,          \* Python objects
    Unset,          \* Value::unset(), and "no such thing" everywhere else
    AllocFree,      \* values whose weak handle upgrades without allocating
    Finalizable,    \* instances whose class has __del__
    Seed,           \* seed_module_dunders: the names bound before execution
    InitBuiltins,   \* attributes of the canonical builtins module
    Code,           \* Script code objects
    LocalNames,     \* their local_index: the names that own a register
    CellNames,      \* names of local_index compiled as cells (StoreGlobal)
    Site,           \* LoadGlobal name slots (FnCode.global_cache)
    SiteName,       \* the name each slot loads
    ModuleSite,     \* slots run in the root scope, or whose name is `global`
    Bit, Mask,      \* the Bloom bits and each name's mask
    MaxVersion,     \* u64::MAX, the saturated sentinel
    MaxFrames,      \* bound: nesting of Script frames
    EpochLimit      \* bound: no Script frame starts at this mirror epoch

ASSUME ConstantAssumption ==
    /\ FsRoot \subseteq Root
    /\ Unset \notin Value /\ Unset \notin Root /\ Unset \notin Code
    /\ Unset \notin Name
    /\ AllocFree \subseteq Value /\ Finalizable \subseteq Value
    /\ Seed \in [Name -> Value \cup {Unset}]
    /\ InitBuiltins \in [Name -> Value \cup {Unset}]
    /\ LocalNames \in [Code -> SUBSET Name]
    /\ CellNames \in [Code -> SUBSET Name]
    /\ SiteName \in [Site -> Name]
    /\ ModuleSite \subseteq Site
    /\ Mask \in [Name -> SUBSET Bit]
    /\ MaxVersion \in Nat \ {0}
    /\ MaxFrames \in Nat
    /\ EpochLimit \in Nat
    /\ IsFiniteSet(Name)

(* Only instances run __del__; inline, owned, tuple and list values, the  *)
(* ones whose weak handle upgrades for free, are never finalizable.       *)
ASSUME FinalizerAssumption == AllocFree \cap Finalizable = {}

VARIABLES
    ns,                \* RootNamespaceState and root EnvValues, per root
    frames,            \* live Script frames, outermost first
    builtins,          \* the canonical builtins module's attributes
    builtins_version,  \* and its mutation generation
    global_cache       \* FnCode.global_cache: one entry per site

vars == <<ns, frames, builtins, builtins_version, global_cache>>

Binding == [Name -> Value \cup {Unset}]
Version == 0 .. MaxVersion

NamespaceState ==
    [environment_version : Version, structure_version : Version,
     mirror_epoch : Version, module_version : Version,
     value_interest : SUBSET Bit, fallback_interest : SUBSET Bit,
     env_interest : SUBSET Bit,
     disabled : BOOLEAN, values : Binding, globals : Binding]

Frame == [root : Root, code : Code, regs : Binding, deleting : Name \cup {Unset}]

CacheEntry ==
    [kind : {"Empty", "Environment", "ScriptFastLocal", "BuiltinModule"},
     namespace : Root \cup {Unset}, version : Version, epoch : Version,
     layout : Code \cup {Unset}, value : Value \cup {Unset}]

EmptyEntry == [kind |-> "Empty", namespace |-> Unset, version |-> 0,
               epoch |-> 0, layout |-> Unset, value |-> Unset]

TypeOK ==
    /\ ns \in [Root -> NamespaceState]
    /\ frames \in Seq(Frame)
    /\ builtins \in Binding
    /\ builtins_version \in Version
    /\ global_cache \in [Site -> CacheEntry]

-----------------------------------------------------------------------------
(* Generations and interest masks *)

\* mutant: the generation counter does not saturate
AdvanceUnchecked(version, k) == version + k

\* RootNamespaceState::next_generation, applied k times
Advance(version, k) == IF version + k >= MaxVersion THEN MaxVersion ELSE version + k

\* bump_structure_version: a structure bump also advances the value generation
BumpStructure(s, k) ==
    [s EXCEPT !.structure_version = Advance(@, k),
              !.environment_version = Advance(@, k)]

\* bump_filesystem_module_mutation: a no-op for an ordinary script root
BumpModule(s, r, k) ==
    IF r \in FsRoot THEN [s EXCEPT !.module_version = Advance(@, k)] ELSE s

\* `interest & mask == mask`
Interested(interest, name) == Mask[name] \subseteq interest

MasksOf(names) == UNION {Mask[name] : name \in names}

-----------------------------------------------------------------------------
(* Script register mirrors *)

Top == frames[Len(frames)]

\* frames of r registered as mirrors: an empty layout is never registered
Mirrors(r) == {i \in DOMAIN frames :
                  frames[i].root = r /\ LocalNames[frames[i].code] # {}}

BoundSlots(r, name) ==
    {i \in DOMAIN frames : frames[i].root = r /\ frames[i].regs[name] # Unset}

Innermost(slots) == CHOOSE i \in slots : \A j \in slots : j <= i

\* namespace_fastlocal_value: the newest live mirror that has bound the name
FastLocal(r, name) ==
    LET slots == BoundSlots(r, name)
    IN  IF slots = {} THEN Unset ELSE frames[Innermost(slots)].regs[name]

\* namespace_fastlocal_cached_value: the newest mirror with the cached layout
CachedSlot(r, layout, name) ==
    LET slots == {i \in BoundSlots(r, name) : frames[i].code = layout}
    IN  IF slots = {} THEN Unset ELSE frames[Innermost(slots)].regs[name]

\* synchronize_namespace_fastlocal_binding / the alias notification: give
\* every name in `names` its new value in each mirror of r that has a slot
SetSlots(fs, r, names, new) ==
    [i \in DOMAIN fs |->
        IF fs[i].root = r
        THEN [fs[i] EXCEPT !.regs =
                [name \in Name |->
                    IF name \in names \cap LocalNames[fs[i].code]
                    THEN new[name] ELSE @[name]]]
        ELSE fs[i]]

-----------------------------------------------------------------------------
(* Uncached resolution *)

\* mutant: a key deleted from the exposed dictionary stays in EnvValues
SyncNameKeepsDeleted(s, name) ==
    IF s.disabled /\ s.globals[name] # Unset
    THEN [s EXCEPT !.values[name] = s.globals[name]] ELSE s

\* prepare_global_namespace / sync_name: an exposed dictionary is copied
\* back into EnvValues, for the requested name only, before it is read
SyncName(s, name) ==
    IF ~ s.disabled THEN s
    ELSE [s EXCEPT !.values[name] = s.globals[name],
                   !.env_interest = IF s.globals[name] # Unset
                                    THEN @ \cup Mask[name] ELSE @]

\* where resolve_global_uncached finds the name, in the order it looks
Source(r, name) ==
    LET s == SyncName(ns[r], name)
    IN  CASE s.values[name] # Unset -> "Environment"
          [] s.values[name] = Unset /\ s.globals[name] # Unset -> "Globals"
          [] /\ s.values[name] = Unset /\ s.globals[name] = Unset
             /\ s.mirror_epoch # MaxVersion /\ BoundSlots(r, name) # {}
             -> "ScriptFastLocal"
          [] OTHER -> "BuiltinModule"

Resolve(r, name) ==
    LET s == SyncName(ns[r], name)
        source == Source(r, name)
    IN  CASE source = "Environment" -> s.values[name]
          [] source = "Globals" -> s.globals[name]
          [] source = "ScriptFastLocal" -> FastLocal(r, name)
          [] source = "BuiltinModule" -> builtins[name]

-----------------------------------------------------------------------------
(* The LoadGlobal cache *)

\* GlobalCacheEntry::lookup_with_fastlocal; Unset is a miss.  A matching
\* entry's value is still bound, so its weak handle upgrades.
Lookup(entry, r, name) ==
    LET s == ns[r]
    IN  IF entry.namespace # r THEN Unset
        ELSE CASE entry.kind = "Empty" -> Unset
               [] entry.kind = "Environment" ->
                    IF entry.version = s.environment_version
                    THEN entry.value ELSE Unset
               [] entry.kind = "ScriptFastLocal" ->
                    IF /\ entry.version = s.environment_version
                       /\ entry.epoch = s.mirror_epoch
                    THEN IF entry.value # Unset THEN entry.value
                         ELSE CachedSlot(r, entry.layout, name)
                    ELSE Unset
               [] entry.kind = "BuiltinModule" ->
                    IF /\ entry.version = s.structure_version
                       /\ entry.epoch # MaxVersion
                       /\ entry.epoch = builtins_version
                    THEN entry.value ELSE Unset

\* The entry a miss publishes (GlobalCacheEntry constructors): saturated
\* generations leave it Empty.  `epoch` holds the mirror epoch of a
\* ScriptFastLocal and the provider version of a BuiltinModule entry.
FilledEntry(site, r) ==
    LET name == SiteName[site]
        s == ns[r]
        source == Source(r, name)
        new(kind, version, epoch, layout, value) ==
            [kind |-> kind, namespace |-> r, version |-> version,
             epoch |-> epoch, layout |-> layout, value |-> value]
    IN  CASE source = "Environment" /\ s.environment_version # MaxVersion ->
               new(source, s.environment_version, 0, Unset, Resolve(r, name))
          [] source = "ScriptFastLocal" /\ s.environment_version # MaxVersion ->
               new(source, s.environment_version, s.mirror_epoch,
                   frames[Innermost(BoundSlots(r, name))].code,
                   IF FastLocal(r, name) \in AllocFree
                   THEN FastLocal(r, name) ELSE Unset)
          [] /\ source = "BuiltinModule"
             /\ s.structure_version # MaxVersion /\ builtins_version # MaxVersion ->
               new(source, s.structure_version, builtins_version, Unset,
                   Resolve(r, name))
          [] OTHER -> EmptyEntry

\* resolve_global_uncached's cache verdict, then the arms of load_global_cached
Publishes(site, r) ==
    LET name == SiteName[site]
        s == ns[r]
        source == Source(r, name)
    IN  /\ ~ s.disabled
        /\ \/ source = "Environment" /\ site \in ModuleSite
              /\ s.environment_version # MaxVersion
           \/ source = "ScriptFastLocal"
           \/ source = "BuiltinModule" /\ builtins[name] # Unset
              /\ s.structure_version # MaxVersion

\* mutant: a new registration replaces the masks of the earlier ones
RegisterOnlyLatest(s, site, r) ==
    IF Source(r, SiteName[site]) = "BuiltinModule"
    THEN [s EXCEPT !.fallback_interest = Mask[SiteName[site]]]
    ELSE [s EXCEPT !.value_interest = Mask[SiteName[site]]]

\* the interest mask is registered before the entry is published
RegisterInterest(s, site, r) ==
    IF Source(r, SiteName[site]) = "BuiltinModule"
    THEN [s EXCEPT !.fallback_interest = @ \cup Mask[SiteName[site]]]
    ELSE [s EXCEPT !.value_interest = @ \cup Mask[SiteName[site]]]

\* load_global_cached: a hit touches nothing
LoadGlobal(site, r) ==
    LET name == SiteName[site]
    IN  /\ ns[r].disabled \/ Lookup(global_cache[site], r, name) = Unset
        /\ IF Publishes(site, r)
           THEN /\ ns' = [ns EXCEPT ![r] = RegisterInterest(@, site, r)]
                /\ global_cache' = [global_cache EXCEPT ![site] = FilledEntry(site, r)]
           ELSE /\ ns' = [ns EXCEPT ![r] = SyncName(@, name)]
                /\ UNCHANGED global_cache
        /\ UNCHANGED <<frames, builtins, builtins_version>>

-----------------------------------------------------------------------------
(* Namespace writes *)

\* globals_write_target_for_environment: the dictionary must stay live
MirrorsDict(s, r) == r \in FsRoot \/ s.disabled

\* mutant: a name is assigned in EnvValues and not in the live dictionary
AssignedNamesNoDict(s, r, names, new) ==
    BumpStructure([s EXCEPT !.values = [name \in Name |->
                                IF name \in names THEN new[name] ELSE @[name]],
                            !.env_interest = @ \cup MasksOf(names)], 1)

\* assign_name at module scope or for a `global` name: k names at once, each
\* with its own generation bump (and a second one from the alias
\* notification of the dictionary write once the mapping is exposed)
AssignedNames(s, r, names, new) ==
    LET k == Cardinality(names) * (IF s.disabled THEN 2 ELSE 1)
        written(old) == [name \in Name |->
                            IF name \in names THEN new[name] ELSE old[name]]
        s1 == [s EXCEPT !.values = written(@),
                        !.env_interest = @ \cup MasksOf(names),
                        !.globals = IF MirrorsDict(s, r) THEN written(@) ELSE @]
    IN  BumpModule(BumpStructure(s1, k), r, Cardinality(names))

\* Insn::StoreGlobal
AssignName(r, name, value) ==
    LET new == [n \in Name |-> value]
    IN  /\ ns' = [ns EXCEPT ![r] = AssignedNames(@, r, {name}, new)]
        /\ frames' = SetSlots(frames, r, {name}, new)
        /\ UNCHANGED <<builtins, builtins_version, global_cache>>

\* prepare_namespace_module_write, then the writes of sync_module_global_binding
SyncedWrite(s, r, name, value) ==
    LET s1 == CASE Interested(s.fallback_interest, name) -> BumpStructure(s, 1)
                [] /\ ~ Interested(s.fallback_interest, name)
                   /\ Interested(s.value_interest, name) ->
                     [s EXCEPT !.environment_version = Advance(@, 1)]
                [] OTHER -> s
        s2 == BumpModule(s1, r, 1)
        s3 == IF Interested(s.env_interest, name)
              THEN [s2 EXCEPT !.values[name] = value] ELSE s2
        s4 == IF MirrorsDict(s, r) THEN [s3 EXCEPT !.globals[name] = value] ELSE s3
    IN  IF s.disabled THEN BumpStructure(s4, 1) ELSE s4

\* the innermost Script frame runs, unless it waits inside a finalizer
Running == /\ frames # <<>>
           /\ Top.deleting = Unset

\* a register store of the running script and its SyncModuleGlobal
StoreScriptLocal(name, value) ==
    LET r == Top.root
        new == [n \in Name |-> value]
        stored == [frames EXCEPT ![Len(frames)].regs[name] = value]
    IN  /\ Running
        /\ name \in LocalNames[Top.code] \ CellNames[Top.code]
        /\ ns' = [ns EXCEPT ![r] = SyncedWrite(@, r, name, value)]
        /\ frames' = IF ns[r].disabled \/ Cardinality(Mirrors(r)) > 1
                     THEN SetSlots(stored, r, {name}, new) ELSE stored
        /\ UNCHANGED <<builtins, builtins_version, global_cache>>

\* delete_module_global_binding and the tail of exec_delete_name
Removed(s, r, name) ==
    LET notified == s.disabled /\ s.globals[name] # Unset
        s1 == [s EXCEPT !.values[name] = Unset, !.globals[name] = Unset]
    IN  BumpModule(BumpStructure(s1, IF notified THEN 2 ELSE 1), r, 1)

ClearedSlots(fs, r, name) ==
    IF ~ ns[r].disabled \/ ns[r].globals[name] # Unset
    THEN SetSlots(fs, r, {name}, [n \in Name |-> Unset])
    ELSE fs

\* call_del_if_last_binding finds no other binding of the deleted object
LastBinding(name) ==
    /\ Top.regs[name] \in Finalizable
    /\ \A n \in Name \ {name} : Top.regs[n] # Top.regs[name]
    /\ \A n \in Name : ns[Top.root].values[n] # Top.regs[name]

\* delete_local_binding runs __del__ before DeleteModuleGlobal when the
\* dictionary needs no mirroring
RunsFinalizer(name) ==
    /\ ~ MirrorsDict(ns[Top.root], Top.root)
    /\ LastBinding(name)

\* DeleteLocal + DeleteModuleGlobal with no Python code in between.
\* raise_if_missing is FALSE for the cleanup of `except E as name`.
DeleteScriptLocal(name, raise_if_missing) ==
    LET r == Top.root
        cleared == [frames EXCEPT ![Len(frames)].regs[name] = Unset]
    IN  /\ Running
        /\ name \in LocalNames[Top.code] \ CellNames[Top.code]
        /\ raise_if_missing => Top.regs[name] # Unset
        /\ ~ RunsFinalizer(name)
        /\ ns' = [ns EXCEPT ![r] = Removed(@, r, name)]
        /\ frames' = ClearedSlots(cleared, r, name)
        /\ UNCHANGED <<builtins, builtins_version, global_cache>>

\* DeleteLocal clears the register and calls __del__: any other action of
\* this module may run before DeleteModuleGlobal is executed
BeginDelete(name) ==
    /\ Running
    /\ name \in LocalNames[Top.code] \ CellNames[Top.code]
    /\ RunsFinalizer(name)
    /\ frames' = [frames EXCEPT ![Len(frames)].regs[name] = Unset,
                                ![Len(frames)].deleting = name]
    /\ UNCHANGED <<ns, builtins, builtins_version, global_cache>>

\* __del__ has returned: DeleteModuleGlobal
FinishDelete ==
    LET r == Top.root
        name == Top.deleting
        idle == [frames EXCEPT ![Len(frames)].deleting = Unset]
    IN  /\ frames # <<>>
        /\ Top.deleting # Unset
        /\ ns' = [ns EXCEPT ![r] = Removed(@, r, name)]
        /\ frames' = ClearedSlots(idle, r, name)
        /\ UNCHANGED <<builtins, builtins_version, global_cache>>

\* Insn::DeleteName for module-scope and `global` names: the name must be in
\* EnvValues or in the dictionary, else NameError
DeleteName(r, name) ==
    /\ ns[r].values[name] # Unset \/ ns[r].globals[name] # Unset
    /\ ns' = [ns EXCEPT ![r] = Removed(@, r, name)]
    /\ frames' = ClearedSlots(frames, r, name)
    /\ UNCHANGED <<builtins, builtins_version, global_cache>>

-----------------------------------------------------------------------------
(* Script frames *)

\* register_namespace_fastlocals and the guard's drop: the mirror stack changed
TurnEpoch(s, code) ==
    IF LocalNames[code] = {} THEN s
    ELSE [s EXCEPT !.mirror_epoch = Advance(@, 1)]

\* run_exec_code without dictionaries: a Script frame in the current root
StartScript(r, code) ==
    /\ Len(frames) < MaxFrames
    /\ ns[r].mirror_epoch < EpochLimit
    /\ frames' = Append(frames, [root |-> r, code |-> code,
                                 regs |-> [n \in Name |-> Unset],
                                 deleting |-> Unset])
    /\ ns' = [ns EXCEPT ![r] = TurnEpoch(@, code)]
    /\ UNCHANGED <<builtins, builtins_version, global_cache>>

\* mutant: the registers of a finished script are not written back
EndScriptForgets ==
    /\ Running
    /\ ns' = [ns EXCEPT ![Top.root] = TurnEpoch(@, Top.code)]
    /\ frames' = SubSeq(frames, 1, Len(frames) - 1)
    /\ UNCHANGED <<builtins, builtins_version, global_cache>>

\* the guard is dropped, then write_back_script_locals assigns every bound
\* register by name; both on a normal return and on an uncaught exception
EndScript ==
    LET r == Top.root
        written == {n \in Name : Top.regs[n] # Unset}
        outer == SubSeq(frames, 1, Len(frames) - 1)
    IN  /\ Running
        /\ ns' = [ns EXCEPT ![r] =
                    AssignedNames(TurnEpoch(@, Top.code), r, written, Top.regs)]
        /\ frames' = SetSlots(outer, r, written, Top.regs)
        /\ UNCHANGED <<builtins, builtins_version, global_cache>>

-----------------------------------------------------------------------------
(* The globals dictionary escapes *)

\* mutant: the snapshot forgets names that live only in registers
SnapshotEnvOnly(r) ==
    [n \in Name |-> IF ns[r].values[n] # Unset THEN ns[r].values[n]
                    ELSE ns[r].globals[n]]

\* namespace_materialization_snapshot over what the dictionary holds already:
\* the newest bound register of a name, else its EnvValues entry
Snapshot(r) ==
    [n \in Name |->
        CASE FastLocal(r, n) # Unset -> FastLocal(r, n)
          [] FastLocal(r, n) = Unset /\ ns[r].values[n] # Unset -> ns[r].values[n]
          [] OTHER -> ns[r].globals[n]]

\* globals_for_environment / sync_module_env_to_globals_dict: disable the
\* caches, fill the dictionary from the snapshot, then watch it
ExposeGlobals(r) ==
    /\ ~ ns[r].disabled
    /\ ns' = [ns EXCEPT ![r].disabled = TRUE,
                        ![r].globals = Snapshot(r),
                        ![r].module_version = IF r \in FsRoot
                                              THEN MaxVersion ELSE @]
    /\ UNCHANGED <<frames, builtins, builtins_version, global_cache>>

\* synchronize_alias_key_mutation after d[name] = value or del d[name]
AliasKeyMutation(r, name, value) ==
    /\ ns[r].disabled
    /\ value = Unset => ns[r].globals[name] # Unset
    /\ ns' = [ns EXCEPT ![r] = BumpStructure([@ EXCEPT !.globals[name] = value], 1)]
    /\ frames' = SetSlots(frames, r, {name}, [n \in Name |-> value])
    /\ UNCHANGED <<builtins, builtins_version, global_cache>>

\* synchronize_alias_full_mutation after an opaque mutation (d.clear())
AliasFullMutation(r) ==
    /\ ns[r].disabled
    /\ ns' = [ns EXCEPT ![r] =
                BumpStructure([@ EXCEPT !.globals = [n \in Name |-> Unset]], 1)]
    /\ frames' = SetSlots(frames, r, Name, [n \in Name |-> Unset])
    /\ UNCHANGED <<builtins, builtins_version, global_cache>>

-----------------------------------------------------------------------------
(* Module objects *)

\* PyModule::insert_attr on a filesystem module
InsertAttr(r, name, value) ==
    LET s == ns[r]
        s1 == [s EXCEPT !.globals[name] = value, !.values[name] = value,
                        !.env_interest = @ \cup Mask[name]]
    IN  /\ r \in FsRoot
        /\ ns' = [ns EXCEPT ![r] =
                    BumpModule(BumpStructure(s1, IF s.disabled THEN 2 ELSE 1), r, 1)]
        /\ frames' = SetSlots(frames, r, {name}, [n \in Name |-> value])
        /\ UNCHANGED <<builtins, builtins_version, global_cache>>

\* PyModule::remove_attr on a filesystem module
RemoveAttr(r, name) ==
    /\ r \in FsRoot
    /\ ns[r].globals[name] # Unset
    /\ ns' = [ns EXCEPT ![r] = Removed(@, r, name)]
    /\ frames' = SetSlots(frames, r, {name}, [n \in Name |-> Unset])
    /\ UNCHANGED <<builtins, builtins_version, global_cache>>

\* PyModule::insert_attr / remove_attr on the canonical builtins module
BuiltinsMutation(name, value) ==
    /\ value = Unset => builtins[name] # Unset
    /\ builtins' = [builtins EXCEPT ![name] = value]
    /\ builtins_version' = Advance(builtins_version, 1)
    /\ UNCHANGED <<ns, frames, global_cache>>

-----------------------------------------------------------------------------

\* a root whose dunders have been seeded, before its first frame
FreshNamespace ==
    [environment_version |-> 0, structure_version |-> 0, mirror_epoch |-> 0,
     module_version |-> 0, value_interest |-> {}, fallback_interest |-> {},
     env_interest |-> MasksOf({n \in Name : Seed[n] # Unset}),
     disabled |-> FALSE, values |-> Seed, globals |-> Seed]

Init ==
    /\ ns = [r \in Root |-> FreshNamespace]
    /\ frames = <<>>
    /\ builtins = InitBuiltins
    /\ builtins_version = 0
    /\ global_cache = [site \in Site |-> EmptyEntry]

Next ==
    \/ \E site \in Site, r \in Root : LoadGlobal(site, r)
    \/ \E r \in Root, name \in Name, value \in Value : AssignName(r, name, value)
    \/ \E name \in Name, value \in Value : StoreScriptLocal(name, value)
    \/ \E name \in Name, raise \in BOOLEAN : DeleteScriptLocal(name, raise)
    \/ \E name \in Name : BeginDelete(name)
    \/ FinishDelete
    \/ \E r \in Root, name \in Name : DeleteName(r, name)
    \/ \E r \in Root, code \in Code : StartScript(r, code)
    \/ EndScript
    \/ \E r \in Root : ExposeGlobals(r)
    \/ \E r \in Root, name \in Name, value \in Value \cup {Unset} :
          AliasKeyMutation(r, name, value)
    \/ \E r \in Root : AliasFullMutation(r)
    \/ \E r \in Root, name \in Name, value \in Value : InsertAttr(r, name, value)
    \/ \E r \in Root, name \in Name : RemoveAttr(r, name)
    \/ \E name \in Name, value \in Value \cup {Unset} : BuiltinsMutation(name, value)

Spec == Init /\ [][Next]_vars

-----------------------------------------------------------------------------
(* Properties *)

\* The binding Python code may observe: the dictionary once it has escaped,
\* else EnvValues, the dictionary, and the newest bound register
Visible(r, name) ==
    LET s == ns[r]
    IN  CASE s.disabled -> s.globals[name]
          [] ~ s.disabled /\ s.values[name] # Unset -> s.values[name]
          [] ~ s.disabled /\ s.values[name] = Unset /\ s.globals[name] # Unset ->
               s.globals[name]
          [] OTHER -> FastLocal(r, name)

\* The copies implement one mapping per module: every step changes at most
\* one name of one module, or empties one whose dictionary has escaped.
Mapping == INSTANCE ModuleNamespace
              WITH binding <- [r \in Root |-> [name \in Name |-> Visible(r, name)]],
                   escaped <- {r \in Root : ns[r].disabled}
OneMapping == Mapping!Spec

\* Filling a cache slot, entering and leaving a Script frame and handing out
\* the globals dictionary are invisible: no name changes its meaning, though
\* each of them moves bindings between registers, EnvValues and dictionary
\* (register_namespace_fastlocals, write_back_script_locals,
\* sync_module_env_to_globals_dict, prepare_global_namespace).
MovesAreInvisible ==
    [][(\/ \E site \in Site, r \in Root : LoadGlobal(site, r)
        \/ \E r \in Root, code \in Code : StartScript(r, code)
        \/ EndScript
        \/ \E r \in Root : ExposeGlobals(r))
       => \A r \in Root, name \in Name : Visible(r, name)' = Visible(r, name)]_vars

\* Uncached resolution returns the visible binding, and falls back to the
\* builtins module only for a name that has none (resolve_global_uncached).
ResolutionSound ==
    \A r \in Root, name \in Name :
        Resolve(r, name) = IF Visible(r, name) # Unset
                           THEN Visible(r, name) ELSE builtins[name]

\* A LoadGlobal hit returns exactly what resolution would have returned had
\* the slot been empty, whatever was stored, deleted, rebound, entered or
\* left since the slot was filled (load_global_cached).
CacheCoherent ==
    \A site \in Site, r \in Root :
        LET hit == Lookup(global_cache[site], r, SiteName[site])
        IN  ~ ns[r].disabled /\ hit # Unset => hit = Resolve(r, SiteName[site])

\* All copies of one module binding agree: no register of a live Script
\* frame, and no EnvValues entry of a namespace whose dictionary has not
\* escaped, holds anything but the visible value; a dictionary that must be
\* kept live is complete (sync_module_global_binding, assign_name,
\* write_back_script_locals, the alias notifications).
CopiesAgree ==
    \A r \in Root, name \in Name :
        /\ \A i \in BoundSlots(r, name) : frames[i].regs[name] = Visible(r, name)
        /\ MirrorsDict(ns[r], r) => ns[r].globals[name] = Visible(r, name)
=============================================================================
