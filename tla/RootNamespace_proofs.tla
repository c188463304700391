------------------------ MODULE RootNamespace_proofs ------------------------
(***************************************************************************)
(* RootNamespace for every value of its constants: it is well typed, the   *)
(* copies of a module binding are one mapping, and so RootNamespace        *)
(* implements ModuleNamespace; the LoadGlobal cache is coherent, and the   *)
(* resolution it caches is sound.                                          *)
(***************************************************************************)
EXTENDS RootNamespace, TLAPS, FiniteSetTheorems, WellFoundedInduction

-----------------------------------------------------------------------------
(* Generations, masks and counting *)

\* A saturating generation stays a generation (next_generation).
LEMMA AdvanceType ==
    ASSUME NEW v \in Version, NEW k \in Nat
    PROVE  Advance(v, k) \in Version
BY ConstantAssumption DEF Advance, Version

\* A structure bump keeps a namespace well formed (bump_structure_version).
LEMMA BumpStructureType ==
    ASSUME NEW s \in NamespaceState, NEW k \in Nat
    PROVE  BumpStructure(s, k) \in NamespaceState
BY AdvanceType DEF BumpStructure, NamespaceState

\* So does a module mutation (bump_filesystem_module_mutation).
LEMMA BumpModuleType ==
    ASSUME NEW s \in NamespaceState, NEW r \in Root, NEW k \in Nat
    PROVE  BumpModule(s, r, k) \in NamespaceState
BY AdvanceType DEF BumpModule, NamespaceState

\* A union of name masks is a mask.
LEMMA MasksType ==
    ASSUME NEW names \in SUBSET Name
    PROVE  MasksOf(names) \in SUBSET Bit
BY ConstantAssumption DEF MasksOf

\* Counting a set of names gives a number of generation bumps.
LEMMA CountType ==
    ASSUME NEW names \in SUBSET Name
    PROVE  Cardinality(names) \in Nat
BY ConstantAssumption, FS_Subset, FS_CardinalityType

-----------------------------------------------------------------------------
(* Mirrors *)

\* A non-empty set of frame positions has an innermost one, and Innermost
\* finds it.
LEMMA InnermostExists ==
    ASSUME NEW n \in Nat, NEW slots \in SUBSET (1 .. n), slots # {}
    PROVE  Innermost(slots) \in slots /\ \A j \in slots : j <= Innermost(slots)
<1> DEFINE T == {m \in Nat : n - m \in slots}
<1>1. T \subseteq Nat
  OBVIOUS
<1>2. T # {}
  <2>1. PICK i \in slots : TRUE
    OBVIOUS
  <2>2. n - i \in Nat /\ n - (n - i) = i
    OBVIOUS
  <2> QED BY <2>1, <2>2
<1>3. PICK t \in T : \A u \in T : ~ (<<u, t>> \in OpToRel(<, Nat))
  <2> HIDE DEF T
  <2> QED BY <1>1, <1>2, NatLessThanWellFounded, WFMin
<1>4. \A u \in T : ~ (u < t)
  <2> SUFFICES ASSUME NEW u \in T, u < t PROVE FALSE
    OBVIOUS
  <2>1. u \in Nat /\ t \in Nat
    OBVIOUS
  <2>2. <<u, t>> \in OpToRel(<, Nat)
    BY <2>1 DEF OpToRel
  <2> QED BY <1>3, <2>2
<1>5. \A j \in slots : j <= n - t
  <2> SUFFICES ASSUME NEW j \in slots PROVE j <= n - t
    OBVIOUS
  <2>1. n - j \in Nat /\ n - (n - j) = j
    OBVIOUS
  <2>2. n - j \in T
    BY <2>1
  <2> QED BY <1>4, <2>1, <2>2
<1>6. \E i \in slots : \A j \in slots : j <= i
  BY <1>5
<1> QED
  BY <1>6 DEF Innermost

\* The newest bound register holds an object (namespace_fastlocal_value).
LEMMA FastLocalType ==
    ASSUME frames \in Seq(Frame), NEW r \in Root, NEW name \in Name
    PROVE  /\ FastLocal(r, name) \in Value \cup {Unset}
           /\ BoundSlots(r, name) # {} =>
                /\ Innermost(BoundSlots(r, name)) \in BoundSlots(r, name)
                /\ frames[Innermost(BoundSlots(r, name))] \in Frame
<1>1. BoundSlots(r, name) \in SUBSET (1 .. Len(frames))
  BY DEF BoundSlots
<1>2. CASE BoundSlots(r, name) = {}
  BY <1>2 DEF FastLocal
<1>3. CASE BoundSlots(r, name) # {}
  <2>1. Innermost(BoundSlots(r, name)) \in BoundSlots(r, name)
    BY <1>1, <1>3, InnermostExists
  <2>2. frames[Innermost(BoundSlots(r, name))] \in Frame
    BY <1>1, <2>1
  <2> QED BY <1>3, <2>1, <2>2 DEF FastLocal, Frame, Binding
<1> QED BY <1>2, <1>3

\* Writing slots keeps the frame stack well formed and as deep as it was
\* (synchronize_namespace_fastlocal_binding).
LEMMA SetSlotsType ==
    ASSUME NEW fs \in Seq(Frame), NEW r \in Root, NEW names \in SUBSET Name,
           NEW new \in Binding
    PROVE  SetSlots(fs, r, names, new) \in Seq(Frame)
<1> DEFINE e(i) == SetSlots(fs, r, names, new)[i]
<1>1. \A i \in 1 .. Len(fs) : fs[i] \in Frame
  OBVIOUS
<1>2. \A i \in 1 .. Len(fs) : e(i) \in Frame
  <2> SUFFICES ASSUME NEW i \in 1 .. Len(fs) PROVE e(i) \in Frame
    OBVIOUS
  <2> DEFINE regs == [name \in Name |->
                        IF name \in names \cap LocalNames[fs[i].code]
                        THEN new[name] ELSE fs[i].regs[name]]
  <2>1. regs \in Binding
    BY <1>1 DEF Frame, Binding
  <2>2. e(i) = IF fs[i].root = r THEN [fs[i] EXCEPT !.regs = regs] ELSE fs[i]
    BY DEF SetSlots
  <2> HIDE DEF regs
  <2> QED BY <1>1, <2>1, <2>2 DEF Frame
<1>3. SetSlots(fs, r, names, new) = [i \in 1 .. Len(fs) |-> e(i)]
  BY DEF SetSlots
<1> HIDE DEF e
<1> QED BY <1>2, <1>3

\* One value for every name is a binding.
LEMMA ConstantBinding ==
    ASSUME NEW v \in Value \cup {Unset}
    PROVE  [n \in Name |-> v] \in Binding
BY DEF Binding

-----------------------------------------------------------------------------
(* Resolution and the cache *)

\* Refreshing EnvValues from the dictionary (sync_name).
LEMMA SyncNameType ==
    ASSUME NEW s \in NamespaceState, NEW name \in Name
    PROVE  SyncName(s, name) \in NamespaceState
BY ConstantAssumption DEF SyncName, NamespaceState, Binding

\* Resolution returns an object or nothing (resolve_global_uncached).
LEMMA ResolveType ==
    ASSUME TypeOK, NEW r \in Root, NEW name \in Name
    PROVE  Resolve(r, name) \in Value \cup {Unset}
<1>1. SyncName(ns[r], name) \in NamespaceState
  BY SyncNameType DEF TypeOK
<1>2. FastLocal(r, name) \in Value \cup {Unset}
  BY FastLocalType DEF TypeOK
<1> QED
  BY <1>1, <1>2 DEF Resolve, Source, TypeOK, NamespaceState, Binding

\* What a miss publishes is a cache entry (GlobalCacheEntry constructors).
LEMMA FilledEntryType ==
    ASSUME TypeOK, NEW site \in Site, NEW r \in Root
    PROVE  FilledEntry(site, r) \in CacheEntry
<1> DEFINE name == SiteName[site]
<1>1. name \in Name
  BY ConstantAssumption
<1>2. Resolve(r, name) \in Value \cup {Unset}
  BY <1>1, ResolveType
<1>3. /\ FastLocal(r, name) \in Value \cup {Unset}
      /\ BoundSlots(r, name) # {} =>
           frames[Innermost(BoundSlots(r, name))].code \in Code
  BY <1>1, FastLocalType DEF TypeOK, Frame
<1>4. Source(r, name) = "ScriptFastLocal" => BoundSlots(r, name) # {}
  BY DEF Source
<1>5. /\ ns[r].environment_version \in Version
      /\ ns[r].structure_version \in Version
      /\ ns[r].mirror_epoch \in Version
      /\ builtins_version \in Version
      /\ 0 \in Version
  BY ConstantAssumption DEF TypeOK, NamespaceState, Version
<1> HIDE DEF name
<1> QED
  BY <1>2, <1>3, <1>4, <1>5 DEF FilledEntry, CacheEntry, EmptyEntry, name

-----------------------------------------------------------------------------
(* Namespace writes *)

\* Assigning names keeps a namespace well formed (assign_name).
LEMMA AssignedNamesType ==
    ASSUME NEW s \in NamespaceState, NEW r \in Root,
           NEW names \in SUBSET Name, NEW new \in Binding
    PROVE  AssignedNames(s, r, names, new) \in NamespaceState
<1> DEFINE k == Cardinality(names) * (IF s.disabled THEN 2 ELSE 1)
           written(old) == [name \in Name |->
                              IF name \in names THEN new[name] ELSE old[name]]
           s1 == [s EXCEPT !.values = written(@),
                           !.env_interest = @ \cup MasksOf(names),
                           !.globals = IF MirrorsDict(s, r) THEN written(@) ELSE @]
<1>1. Cardinality(names) \in Nat /\ k \in Nat
  BY CountType
<1>2. \A old \in Binding : written(old) \in Binding
  BY DEF Binding
<1>3. s1 \in NamespaceState
  BY <1>2, MasksType DEF NamespaceState
<1>4. AssignedNames(s, r, names, new) =
        BumpModule(BumpStructure(s1, k), r, Cardinality(names))
  BY DEF AssignedNames
<1> HIDE DEF k, s1
<1> QED BY <1>1, <1>3, <1>4, BumpStructureType, BumpModuleType

\* So does a synchronized register store (sync_module_global_binding).
LEMMA SyncedWriteType ==
    ASSUME NEW s \in NamespaceState, NEW r \in Root, NEW name \in Name,
           NEW value \in Value
    PROVE  SyncedWrite(s, r, name, value) \in NamespaceState
<1> DEFINE s1 == CASE Interested(s.fallback_interest, name) -> BumpStructure(s, 1)
                   [] /\ ~ Interested(s.fallback_interest, name)
                      /\ Interested(s.value_interest, name) ->
                        [s EXCEPT !.environment_version = Advance(@, 1)]
                   [] OTHER -> s
           s2 == BumpModule(s1, r, 1)
           s3 == IF Interested(s.env_interest, name)
                 THEN [s2 EXCEPT !.values[name] = value] ELSE s2
           s4 == IF MirrorsDict(s, r) THEN [s3 EXCEPT !.globals[name] = value] ELSE s3
<1>1. BumpStructure(s, 1) \in NamespaceState
  BY BumpStructureType
<1>2. [s EXCEPT !.environment_version = Advance(@, 1)] \in NamespaceState
  BY AdvanceType DEF NamespaceState
<1>3. s1 \in NamespaceState
  BY <1>1, <1>2
<1> HIDE DEF s1
<1>4. s2 \in NamespaceState
  BY <1>3, BumpModuleType
<1> HIDE DEF s2
<1>5. s3 \in NamespaceState
  BY <1>4 DEF NamespaceState, Binding
<1> HIDE DEF s3
<1>6. s4 \in NamespaceState
  BY <1>5 DEF NamespaceState, Binding
<1>7. SyncedWrite(s, r, name, value) =
        IF s.disabled THEN BumpStructure(s4, 1) ELSE s4
  BY DEF SyncedWrite, s1, s2, s3, s4
<1> HIDE DEF s4
<1> QED BY <1>6, <1>7, BumpStructureType

\* So does removing a name (delete_module_global_binding).
LEMMA RemovedType ==
    ASSUME NEW s \in NamespaceState, NEW r \in Root, NEW name \in Name
    PROVE  Removed(s, r, name) \in NamespaceState
<1> DEFINE s1 == [s EXCEPT !.values[name] = Unset, !.globals[name] = Unset]
           k == IF s.disabled /\ s.globals[name] # Unset THEN 2 ELSE 1
<1>1. s1 \in NamespaceState /\ k \in Nat
  BY DEF NamespaceState, Binding
<1>2. Removed(s, r, name) = BumpModule(BumpStructure(s1, k), r, 1)
  BY DEF Removed
<1> HIDE DEF s1, k
<1> QED BY <1>1, <1>2, BumpStructureType, BumpModuleType

\* Entering or leaving a Script frame (register_namespace_fastlocals).
LEMMA TurnEpochType ==
    ASSUME NEW s \in NamespaceState, NEW code \in Code
    PROVE  TurnEpoch(s, code) \in NamespaceState
BY AdvanceType DEF TurnEpoch, NamespaceState

\* Writing one root's record keeps the others (every namespace action).
LEMMA ReplaceRootType ==
    ASSUME TypeOK, NEW r \in Root, NEW s \in NamespaceState
    PROVE  [ns EXCEPT ![r] = s] \in [Root -> NamespaceState]
BY DEF TypeOK

\* The running frame is a frame, of a root, with a code object.
LEMMA TopType ==
    ASSUME TypeOK, frames # <<>>
    PROVE  /\ Top \in Frame
           /\ Top.root \in Root /\ Top.code \in Code /\ Top.regs \in Binding
           /\ ns[Top.root] \in NamespaceState
           /\ Len(frames) \in DOMAIN frames
<1>1. frames \in Seq(Frame)
  BY DEF TypeOK
<1>2. Len(frames) \in 1 .. Len(frames) /\ DOMAIN frames = 1 .. Len(frames)
  BY <1>1
<1>3. Top \in Frame
  BY <1>1, <1>2 DEF Top
<1> QED BY <1>2, <1>3 DEF Frame, TypeOK

-----------------------------------------------------------------------------
(* Type correctness *)

\* The seeded namespaces, the empty frame stack and the empty caches are
\* well formed (a root after seed_module_dunders).
LEMMA InitType == Init => TypeOK
<1> SUFFICES ASSUME Init PROVE TypeOK
  OBVIOUS
<1>1. 0 \in Version /\ Seed \in Binding /\ InitBuiltins \in Binding
  BY ConstantAssumption DEF Version, Binding
<1>2. MasksOf({n \in Name : Seed[n] # Unset}) \in SUBSET Bit
  BY MasksType
<1>3. FreshNamespace \in NamespaceState
  BY <1>1, <1>2 DEF FreshNamespace, NamespaceState
<1>4. EmptyEntry \in CacheEntry
  BY <1>1 DEF EmptyEntry, CacheEntry
<1> QED BY <1>1, <1>3, <1>4 DEF Init, TypeOK

\* Every step keeps every variable well formed.
LEMMA NextType == TypeOK /\ [Next]_vars => TypeOK'
<1> SUFFICES ASSUME TypeOK, [Next]_vars PROVE TypeOK'
  OBVIOUS
<1>0. /\ frames \in Seq(Frame) /\ DOMAIN frames = 1 .. Len(frames)
      /\ \A r \in Root : ns[r] \in NamespaceState
      /\ Unset \in Value \cup {Unset}
  BY DEF TypeOK
<1>1. ASSUME NEW site \in Site, NEW r \in Root, LoadGlobal(site, r)
      PROVE  TypeOK'
  <2>1. SiteName[site] \in Name
    BY ConstantAssumption
  <2>2. RegisterInterest(ns[r], site, r) \in NamespaceState
    BY <1>0, <2>1, ConstantAssumption DEF RegisterInterest, NamespaceState
  <2>3. SyncName(ns[r], SiteName[site]) \in NamespaceState
    BY <1>0, <2>1, SyncNameType
  <2>4. ns' \in [Root -> NamespaceState]
    BY <1>1, <2>2, <2>3, ReplaceRootType DEF LoadGlobal, TypeOK
  <2>5. global_cache' \in [Site -> CacheEntry]
    BY <1>1, FilledEntryType DEF LoadGlobal, TypeOK
  <2> QED BY <1>1, <2>4, <2>5 DEF LoadGlobal, TypeOK
<1>2. ASSUME NEW r \in Root, NEW name \in Name, NEW value \in Value,
             AssignName(r, name, value)
      PROVE  TypeOK'
  <2> DEFINE new == [n \in Name |-> value]
  <2>1. new \in Binding
    BY ConstantBinding
  <2> HIDE DEF new
  <2>2. AssignedNames(ns[r], r, {name}, new) \in NamespaceState
    BY <1>0, <2>1, AssignedNamesType
  <2>3. SetSlots(frames, r, {name}, new) \in Seq(Frame)
    BY <1>0, <2>1, SetSlotsType
  <2> QED BY <1>2, <2>2, <2>3, ReplaceRootType DEF AssignName, TypeOK, new
<1>3. ASSUME NEW name \in Name, NEW value \in Value, StoreScriptLocal(name, value)
      PROVE  TypeOK'
  <2> DEFINE new == [n \in Name |-> value]
             stored == [frames EXCEPT ![Len(frames)].regs[name] = value]
  <2>1. new \in Binding
    BY ConstantBinding
  <2>2. /\ Top.root \in Root /\ ns[Top.root] \in NamespaceState
        /\ Top \in Frame /\ Len(frames) \in 1 .. Len(frames)
    BY <1>0, <1>3, TopType DEF StoreScriptLocal, Running
  <2>3. stored \in Seq(Frame)
    <3>1. [Top EXCEPT !.regs[name] = value] \in Frame
      BY <2>2 DEF Frame, Binding
    <3>2. stored = [frames EXCEPT ![Len(frames)] = [Top EXCEPT !.regs[name] = value]]
      BY <1>0, <2>2 DEF Top
    <3> QED BY <1>0, <2>2, <3>1, <3>2
  <2> HIDE DEF new, stored
  <2>4. SetSlots(stored, Top.root, {name}, new) \in Seq(Frame)
    BY <2>1, <2>2, <2>3, SetSlotsType
  <2>5. frames' \in Seq(Frame)
    BY <1>3, <2>3, <2>4 DEF StoreScriptLocal, new, stored
  <2>6. SyncedWrite(ns[Top.root], Top.root, name, value) \in NamespaceState
    BY <2>2, SyncedWriteType
  <2> QED BY <1>3, <2>2, <2>5, <2>6, ReplaceRootType DEF StoreScriptLocal, TypeOK
<1>4. ASSUME NEW name \in Name, NEW raise \in BOOLEAN, DeleteScriptLocal(name, raise)
      PROVE  TypeOK'
  <2> DEFINE cleared == [frames EXCEPT ![Len(frames)].regs[name] = Unset]
  <2>1. /\ Top.root \in Root /\ ns[Top.root] \in NamespaceState
        /\ Top \in Frame /\ Len(frames) \in 1 .. Len(frames)
    BY <1>0, <1>4, TopType DEF DeleteScriptLocal, Running
  <2>2. cleared \in Seq(Frame)
    <3>1. [Top EXCEPT !.regs[name] = Unset] \in Frame
      BY <2>1 DEF Frame, Binding
    <3>2. cleared = [frames EXCEPT ![Len(frames)] = [Top EXCEPT !.regs[name] = Unset]]
      BY <1>0, <2>1 DEF Top
    <3> QED BY <1>0, <2>1, <3>1, <3>2
  <2> HIDE DEF cleared
  <2>3. ClearedSlots(cleared, Top.root, name) \in Seq(Frame)
    BY <1>0, <2>1, <2>2, SetSlotsType, ConstantBinding DEF ClearedSlots
  <2>4. frames' \in Seq(Frame)
    BY <1>4, <2>3 DEF DeleteScriptLocal, cleared
  <2>5. Removed(ns[Top.root], Top.root, name) \in NamespaceState
    BY <2>1, RemovedType
  <2> QED BY <1>4, <2>1, <2>4, <2>5, ReplaceRootType DEF DeleteScriptLocal, TypeOK
<1>5. ASSUME NEW name \in Name, BeginDelete(name)
      PROVE  TypeOK'
  <2>1. Top \in Frame /\ Len(frames) \in 1 .. Len(frames)
    BY <1>0, <1>5, TopType DEF BeginDelete, Running
  <2>2. [Top EXCEPT !.regs[name] = Unset, !.deleting = name] \in Frame
    BY <2>1 DEF Frame, Binding
  <2>3. frames' = [frames EXCEPT ![Len(frames)] =
                     [Top EXCEPT !.regs[name] = Unset, !.deleting = name]]
    BY <1>0, <1>5, <2>1 DEF BeginDelete, Top
  <2>4. frames' \in Seq(Frame)
    BY <1>0, <2>1, <2>2, <2>3
  <2> QED BY <1>5, <2>4 DEF BeginDelete, TypeOK
<1>6. ASSUME FinishDelete
      PROVE  TypeOK'
  <2> DEFINE idle == [frames EXCEPT ![Len(frames)].deleting = Unset]
  <2>1. /\ Top.root \in Root /\ ns[Top.root] \in NamespaceState
        /\ Top \in Frame /\ Len(frames) \in 1 .. Len(frames)
    BY <1>0, <1>6, TopType DEF FinishDelete
  <2>2. Top.deleting \in Name
    BY <1>6, <2>1 DEF FinishDelete, Frame
  <2>3. idle \in Seq(Frame)
    <3>1. [Top EXCEPT !.deleting = Unset] \in Frame
      BY <2>1 DEF Frame
    <3>2. idle = [frames EXCEPT ![Len(frames)] = [Top EXCEPT !.deleting = Unset]]
      BY <1>0, <2>1 DEF Top
    <3> QED BY <1>0, <2>1, <3>1, <3>2
  <2> HIDE DEF idle
  <2>4. ClearedSlots(idle, Top.root, Top.deleting) \in Seq(Frame)
    BY <1>0, <2>1, <2>2, <2>3, SetSlotsType, ConstantBinding DEF ClearedSlots
  <2>5. Removed(ns[Top.root], Top.root, Top.deleting) \in NamespaceState
    BY <2>1, <2>2, RemovedType
  <2>6. frames' \in Seq(Frame)
    BY <1>6, <2>4 DEF FinishDelete, idle
  <2> QED BY <1>6, <2>1, <2>5, <2>6, ReplaceRootType DEF FinishDelete, TypeOK
<1>7. ASSUME NEW r \in Root, NEW name \in Name, DeleteName(r, name)
      PROVE  TypeOK'
  <2>1. ClearedSlots(frames, r, name) \in Seq(Frame)
    BY <1>0, SetSlotsType, ConstantBinding DEF ClearedSlots
  <2>2. Removed(ns[r], r, name) \in NamespaceState
    BY <1>0, RemovedType
  <2> QED BY <1>7, <2>1, <2>2, ReplaceRootType DEF DeleteName, TypeOK
<1>8. ASSUME NEW r \in Root, NEW code \in Code, StartScript(r, code)
      PROVE  TypeOK'
  <2>1. [root |-> r, code |-> code, regs |-> [n \in Name |-> Unset],
         deleting |-> Unset] \in Frame
    BY DEF Frame, Binding
  <2>2. frames' \in Seq(Frame)
    BY <1>0, <1>8, <2>1 DEF StartScript
  <2>3. TurnEpoch(ns[r], code) \in NamespaceState
    BY <1>0, TurnEpochType
  <2> QED BY <1>8, <2>2, <2>3, ReplaceRootType DEF StartScript, TypeOK
<1>9. ASSUME EndScript
      PROVE  TypeOK'
  <2> DEFINE written == {n \in Name : Top.regs[n] # Unset}
             outer == SubSeq(frames, 1, Len(frames) - 1)
  <2>1. /\ Top.root \in Root /\ Top.code \in Code /\ Top.regs \in Binding
        /\ ns[Top.root] \in NamespaceState /\ Len(frames) \in 1 .. Len(frames)
    BY <1>0, <1>9, TopType DEF EndScript, Running
  <2>2. outer \in Seq(Frame)
    BY <1>0, <2>1
  <2>3. written \in SUBSET Name
    OBVIOUS
  <2> HIDE DEF written, outer
  <2>4. SetSlots(outer, Top.root, written, Top.regs) \in Seq(Frame)
    BY <2>1, <2>2, <2>3, SetSlotsType
  <2>5. AssignedNames(TurnEpoch(ns[Top.root], Top.code), Top.root, written, Top.regs)
          \in NamespaceState
    BY <2>1, <2>3, TurnEpochType, AssignedNamesType
  <2> QED BY <1>9, <2>1, <2>4, <2>5, ReplaceRootType
          DEF EndScript, TypeOK, written, outer
<1>10. ASSUME NEW r \in Root, ExposeGlobals(r)
       PROVE  TypeOK'
  <2> DEFINE s1 == [ns[r] EXCEPT !.disabled = TRUE, !.globals = Snapshot(r),
                      !.module_version = IF r \in FsRoot THEN MaxVersion ELSE @]
  <2>1. Snapshot(r) \in Binding
    BY <1>0, FastLocalType DEF Snapshot, NamespaceState, Binding
  <2>2. MaxVersion \in Version
    BY ConstantAssumption DEF Version
  <2>3. ns' = [ns EXCEPT ![r] = s1]
    BY <1>10 DEF ExposeGlobals, TypeOK
  <2>4. s1 \in NamespaceState
    BY <1>0, <2>1, <2>2 DEF NamespaceState
  <2> HIDE DEF s1
  <2>5. ns' \in [Root -> NamespaceState]
    BY <2>3, <2>4, ReplaceRootType
  <2> QED BY <1>10, <2>5 DEF ExposeGlobals, TypeOK
<1>11. ASSUME NEW r \in Root, NEW name \in Name, NEW value \in Value \cup {Unset},
              AliasKeyMutation(r, name, value)
       PROVE  TypeOK'
  <2>1. [ns[r] EXCEPT !.globals[name] = value] \in NamespaceState
    BY <1>0 DEF NamespaceState, Binding
  <2>2. BumpStructure([ns[r] EXCEPT !.globals[name] = value], 1) \in NamespaceState
    BY <2>1, BumpStructureType
  <2>3. SetSlots(frames, r, {name}, [n \in Name |-> value]) \in Seq(Frame)
    BY <1>0, SetSlotsType, ConstantBinding
  <2> QED BY <1>11, <2>2, <2>3, ReplaceRootType DEF AliasKeyMutation, TypeOK
<1>12. ASSUME NEW r \in Root, AliasFullMutation(r)
       PROVE  TypeOK'
  <2>1. [ns[r] EXCEPT !.globals = [n \in Name |-> Unset]] \in NamespaceState
    BY <1>0, ConstantBinding DEF NamespaceState
  <2>2. BumpStructure([ns[r] EXCEPT !.globals = [n \in Name |-> Unset]], 1)
          \in NamespaceState
    BY <2>1, BumpStructureType
  <2>3. SetSlots(frames, r, Name, [n \in Name |-> Unset]) \in Seq(Frame)
    BY <1>0, SetSlotsType, ConstantBinding
  <2> QED BY <1>12, <2>2, <2>3, ReplaceRootType DEF AliasFullMutation, TypeOK
<1>13. ASSUME NEW r \in Root, NEW name \in Name, NEW value \in Value,
              InsertAttr(r, name, value)
       PROVE  TypeOK'
  <2> DEFINE s1 == [ns[r] EXCEPT !.globals[name] = value, !.values[name] = value,
                                 !.env_interest = @ \cup Mask[name]]
             k == IF ns[r].disabled THEN 2 ELSE 1
  <2>1. s1 \in NamespaceState /\ k \in Nat
    BY <1>0, ConstantAssumption DEF NamespaceState, Binding
  <2>2. ns' = [ns EXCEPT ![r] = BumpModule(BumpStructure(s1, k), r, 1)]
    BY <1>13 DEF InsertAttr
  <2> HIDE DEF s1, k
  <2>3. BumpModule(BumpStructure(s1, k), r, 1) \in NamespaceState
    BY <2>1, BumpStructureType, BumpModuleType
  <2>4. SetSlots(frames, r, {name}, [n \in Name |-> value]) \in Seq(Frame)
    BY <1>0, SetSlotsType, ConstantBinding
  <2> QED BY <1>13, <2>2, <2>3, <2>4, ReplaceRootType DEF InsertAttr, TypeOK
<1>14. ASSUME NEW r \in Root, NEW name \in Name, RemoveAttr(r, name)
       PROVE  TypeOK'
  <2>1. SetSlots(frames, r, {name}, [n \in Name |-> Unset]) \in Seq(Frame)
    BY <1>0, SetSlotsType, ConstantBinding
  <2>2. Removed(ns[r], r, name) \in NamespaceState
    BY <1>0, RemovedType
  <2> QED BY <1>14, <2>1, <2>2, ReplaceRootType DEF RemoveAttr, TypeOK
<1>15. ASSUME NEW name \in Name, NEW value \in Value \cup {Unset},
              BuiltinsMutation(name, value)
       PROVE  TypeOK'
  BY <1>15, AdvanceType DEF BuiltinsMutation, TypeOK, Binding
<1>16. ASSUME UNCHANGED vars
       PROVE  TypeOK'
  BY <1>16 DEF vars, TypeOK
<1> QED
  BY <1>1, <1>2, <1>3, <1>4, <1>5, <1>6, <1>7, <1>8, <1>9, <1>10, <1>11,
     <1>12, <1>13, <1>14, <1>15, <1>16 DEF Next

\* In every reachable state the generations are saturating u64 counters, the
\* masks are masks, every register and every cached value is an object or
\* unset (RootNamespaceState, GlobalCacheEntry).
THEOREM TypeCorrect == Spec => []TypeOK
<1>1. Init => TypeOK
  BY InitType
<1>2. TypeOK /\ [Next]_vars => TypeOK'
  BY NextType
<1> QED BY <1>1, <1>2, PTL DEF Spec

-----------------------------------------------------------------------------
(* The inductive invariant *)

\* What the registers of the live Script frames of r hold for a name.
Held(fs, r, n) ==
    {fs[i].regs[n] : i \in {j \in 1 .. Len(fs) : fs[j].root = r}} \ {Unset}

\* With the namespace record s and the registers holding h, the name n of
\* root r denotes v, wherever one looks.
Means(s, h, r, n, v) ==
    /\ h \subseteq {v} \ {Unset}
    /\ IF s.disabled THEN s.globals[n] = v
       ELSE /\ s.values[n] \in {v, Unset}
            /\ r \in FsRoot => s.globals[n] = v
            /\ r \notin FsRoot =>
                 /\ s.globals[n] # Unset => s.values[n] # Unset
                 /\ v # Unset => s.values[n] = v \/ h # {}

\* The same, of the current state and of the next one.
Meaning(r, n, v) == Means(ns[r], Held(frames, r, n), r, n, v)
MeaningAfter(r, n, v) == Means(ns'[r], Held(frames', r, n), r, n, v)

\* A register is bound only inside the layout of its code object.
LayoutOK(fs) ==
    \A i \in 1 .. Len(fs), n \in Name :
        fs[i].regs[n] # Unset => n \in LocalNames[fs[i].code]

\* A name in EnvValues is in the mask that tells a register store to write it.
EnvKnown(s) == \A n \in Name : s.values[n] # Unset => Interested(s.env_interest, n)

\* The inductive invariant: whatever the layout of copies, every name denotes
\* one value.
CopiesInv ==
    /\ TypeOK
    /\ LayoutOK(frames)
    /\ \A r \in Root : EnvKnown(ns[r])
    /\ \A r \in Root, n \in Name : \E v \in Value \cup {Unset} : Meaning(r, n, v)

-----------------------------------------------------------------------------
(* Registers *)

\* Changing one entry of a sequence.
LEMMA SeqReplace ==
    ASSUME NEW S, NEW s \in Seq(S), NEW e \in S, NEW m \in 1 .. Len(s)
    PROVE  LET s1 == [s EXCEPT ![m] = e]
           IN  /\ s1 \in Seq(S) /\ Len(s1) = Len(s) /\ s1[m] = e
               /\ \A i \in 1 .. Len(s) : i # m => s1[i] = s[i]
OBVIOUS

\* Dropping the last entry of a sequence.
LEMMA SeqDrop ==
    ASSUME NEW S, NEW s \in Seq(S), s # <<>>
    PROVE  LET s1 == SubSeq(s, 1, Len(s) - 1)
           IN  /\ s1 \in Seq(S) /\ Len(s1) = Len(s) - 1
               /\ Len(s) \in 1 .. Len(s) /\ 1 .. Len(s) - 1 \subseteq 1 .. Len(s)
               /\ \A i \in 1 .. Len(s) - 1 : s1[i] = s[i]
<1>1. Len(s) \in Nat /\ Len(s) # 0
  OBVIOUS
<1>2. Len(s) \in 1 .. Len(s) /\ 1 .. Len(s) - 1 \subseteq 1 .. Len(s) /\ Len(s) - 1 \in Nat
  BY <1>1
<1>3. \A n \in 0 .. Len(s) : /\ SubSeq(s, 1, n) \in Seq(S) /\ Len(SubSeq(s, 1, n)) = n
                            /\ \A i \in 1 .. n : SubSeq(s, 1, n)[i] = s[i]
  OBVIOUS
<1>4. Len(s) - 1 \in 0 .. Len(s)
  BY <1>1
<1> QED BY <1>2, <1>3, <1>4

\* A register value is held.
LEMMA HeldIntro ==
    ASSUME NEW fs \in Seq(Frame), NEW r, NEW n,
           NEW i \in 1 .. Len(fs), fs[i].root = r, fs[i].regs[n] # Unset
    PROVE  fs[i].regs[n] \in Held(fs, r, n)
BY DEF Held

\* What is held is in a register.
LEMMA HeldElim ==
    ASSUME NEW fs \in Seq(Frame), NEW r, NEW n, NEW x \in Held(fs, r, n)
    PROVE  /\ x # Unset
           /\ \E i \in 1 .. Len(fs) : fs[i].root = r /\ fs[i].regs[n] = x
BY DEF Held

\* fs1 is fs with every name of `names` given its value in `new` in each
\* frame of r that has a register for it.
Synchronized(fs, fs1, r, names, new) ==
    /\ fs1 \in Seq(Frame) /\ Len(fs1) = Len(fs)
    /\ \A i \in 1 .. Len(fs) :
         /\ fs1[i].root = fs[i].root /\ fs1[i].code = fs[i].code
         /\ \A n \in Name :
              fs1[i].regs[n] =
                IF fs[i].root = r /\ n \in names \cap LocalNames[fs[i].code]
                THEN new[n] ELSE fs[i].regs[n]

\* That is what a synchronization does to each register.
LEMMA SetSlotsFacts ==
    ASSUME NEW fs \in Seq(Frame), NEW r \in Root, NEW names \in SUBSET Name,
           NEW new \in Binding
    PROVE  Synchronized(fs, SetSlots(fs, r, names, new), r, names, new)
<1> DEFINE fs1 == SetSlots(fs, r, names, new)
<1>1. fs1 \in Seq(Frame)
  BY SetSlotsType
<1>2. DOMAIN fs = 1 .. Len(fs) /\ \A i \in 1 .. Len(fs) : fs[i] \in Frame
  OBVIOUS
<1>3. DOMAIN fs1 = 1 .. Len(fs)
  BY <1>2 DEF SetSlots
<1>4. Len(fs1) = Len(fs)
  BY <1>1, <1>3
<1>5. ASSUME NEW i \in 1 .. Len(fs)
      PROVE  /\ fs1[i].root = fs[i].root /\ fs1[i].code = fs[i].code
             /\ \A n \in Name :
                  fs1[i].regs[n] =
                    IF fs[i].root = r /\ n \in names \cap LocalNames[fs[i].code]
                    THEN new[n] ELSE fs[i].regs[n]
  <2> DEFINE regs == [name \in Name |->
                        IF name \in names \cap LocalNames[fs[i].code]
                        THEN new[name] ELSE fs[i].regs[name]]
  <2>1. fs1[i] = IF fs[i].root = r THEN [fs[i] EXCEPT !.regs = regs] ELSE fs[i]
    BY <1>2 DEF SetSlots
  <2>2. \A n \in Name : regs[n] = IF n \in names \cap LocalNames[fs[i].code]
                                  THEN new[n] ELSE fs[i].regs[n]
    OBVIOUS
  <2> HIDE DEF regs
  <2> QED BY <1>2, <2>1, <2>2 DEF Frame
<1> HIDE DEF fs1
<1>6. Synchronized(fs, fs1, r, names, new)
  BY <1>1, <1>4, <1>5 DEF Synchronized
<1> QED BY <1>6 DEF fs1

\* A synchronized name is held with its new value or not at all, the others
\* as before.
LEMMA SyncHeld ==
    ASSUME NEW fs \in Seq(Frame), NEW fs1, NEW r0, NEW names,
           NEW new, LayoutOK(fs), Synchronized(fs, fs1, r0, names, new)
    PROVE  /\ fs1 \in Seq(Frame) /\ LayoutOK(fs1) /\ Len(fs1) = Len(fs)
           /\ \A r \in Root, n \in Name :
                IF r = r0 /\ n \in names
                THEN Held(fs1, r, n) \subseteq {new[n]} \ {Unset}
                ELSE Held(fs1, r, n) = Held(fs, r, n)
<1>1. /\ fs1 \in Seq(Frame) /\ Len(fs1) = Len(fs)
      /\ \A i \in 1 .. Len(fs) :
           /\ fs1[i].root = fs[i].root /\ fs1[i].code = fs[i].code
           /\ \A n \in Name :
                fs1[i].regs[n] =
                  IF fs[i].root = r0 /\ n \in names \cap LocalNames[fs[i].code]
                  THEN new[n] ELSE fs[i].regs[n]
  BY DEF Synchronized
<1>2. LayoutOK(fs1)
  BY <1>1 DEF LayoutOK
<1>3. ASSUME NEW r \in Root, NEW n \in Name, r = r0 /\ n \in names
      PROVE  Held(fs1, r, n) \subseteq {new[n]} \ {Unset}
  <2> SUFFICES ASSUME NEW x \in Held(fs1, r, n) PROVE x = new[n] /\ x # Unset
    OBVIOUS
  <2>1. PICK i \in 1 .. Len(fs1) : fs1[i].root = r /\ fs1[i].regs[n] = x /\ x # Unset
    BY <1>1, HeldElim
  <2> QED BY <1>1, <1>3, <2>1 DEF LayoutOK
<1>4. ASSUME NEW r \in Root, NEW n \in Name, ~ (r = r0 /\ n \in names)
      PROVE  Held(fs1, r, n) = Held(fs, r, n)
  <2>1. \A i \in 1 .. Len(fs) : fs[i].root = r => fs1[i].regs[n] = fs[i].regs[n]
    BY <1>1, <1>4
  <2> QED BY <1>1, <2>1 DEF Held
<1> QED BY <1>1, <1>2, <1>3, <1>4

\* fs1 is fs with f for its newest frame, which f is but for the register of
\* `name` (and for the pending deletion).
Replaced(fs, fs1, f, name) ==
    /\ fs1 \in Seq(Frame) /\ Len(fs1) = Len(fs) /\ Len(fs) \in 1 .. Len(fs)
    /\ fs1[Len(fs)] = f
    /\ \A i \in 1 .. Len(fs) : i # Len(fs) => fs1[i] = fs[i]
    /\ f.root = fs[Len(fs)].root /\ f.code = fs[Len(fs)].code
    /\ \A n \in Name : n # name => f.regs[n] = fs[Len(fs)].regs[n]

\* Writing the register of the running frame.
LEMMA ReplaceFacts ==
    ASSUME NEW fs \in Seq(Frame), fs # <<>>, NEW name \in Name, NEW f \in Frame,
           f.root = fs[Len(fs)].root, f.code = fs[Len(fs)].code,
           \A n \in Name : n # name => f.regs[n] = fs[Len(fs)].regs[n]
    PROVE  Replaced(fs, [fs EXCEPT ![Len(fs)] = f], f, name)
<1> DEFINE fs1 == [fs EXCEPT ![Len(fs)] = f]
<1>1. Len(fs) \in 1 .. Len(fs)
  BY SeqDrop
<1>2. /\ fs1 \in Seq(Frame) /\ Len(fs1) = Len(fs)
      /\ fs1[Len(fs)] = f /\ \A i \in 1 .. Len(fs) : i # Len(fs) => fs1[i] = fs[i]
  BY <1>1, SeqReplace
<1> HIDE DEF fs1
<1>3. Replaced(fs, fs1, f, name)
  BY <1>1, <1>2 DEF Replaced
<1> QED BY <1>3 DEF fs1

\* Only what the written name holds changes, and to no more than the value
\* written.
LEMMA ReplaceHeld ==
    ASSUME NEW fs \in Seq(Frame), NEW fs1, NEW f, NEW name, LayoutOK(fs),
           Replaced(fs, fs1, f, name),
           f.regs[name] # Unset => name \in LocalNames[f.code]
    PROVE  /\ fs1 \in Seq(Frame) /\ LayoutOK(fs1) /\ Len(fs1) = Len(fs)
           /\ \A r \in Root, n \in Name :
                IF r = f.root /\ n = name
                THEN /\ Held(fs1, r, n) \subseteq
                          (Held(fs, r, n) \cup {f.regs[name]}) \ {Unset}
                     /\ f.regs[name] # Unset => f.regs[name] \in Held(fs1, r, n)
                ELSE Held(fs1, r, n) = Held(fs, r, n)
<1>1. /\ fs1 \in Seq(Frame) /\ Len(fs1) = Len(fs) /\ Len(fs) \in 1 .. Len(fs)
      /\ fs1[Len(fs)] = f
      /\ \A i \in 1 .. Len(fs) : i # Len(fs) => fs1[i] = fs[i]
      /\ f.root = fs[Len(fs)].root /\ f.code = fs[Len(fs)].code
      /\ \A n \in Name : n # name => f.regs[n] = fs[Len(fs)].regs[n]
  BY DEF Replaced
<1>3. LayoutOK(fs1)
  <2> SUFFICES ASSUME NEW i \in 1 .. Len(fs), NEW n \in Name, fs1[i].regs[n] # Unset
               PROVE  n \in LocalNames[fs1[i].code]
    BY <1>1 DEF LayoutOK
  <2>1. CASE i = Len(fs)
    BY <1>1, <2>1 DEF LayoutOK
  <2>2. CASE i # Len(fs)
    BY <1>1, <2>2 DEF LayoutOK
  <2> QED BY <2>1, <2>2
<1>4. ASSUME NEW r \in Root, NEW n \in Name, r = f.root /\ n = name
      PROVE  /\ Held(fs1, r, n) \subseteq (Held(fs, r, n) \cup {f.regs[name]}) \ {Unset}
             /\ f.regs[name] # Unset => f.regs[name] \in Held(fs1, r, n)
  <2>1. ASSUME NEW x \in Held(fs1, r, n)
        PROVE  x \in (Held(fs, r, n) \cup {f.regs[name]}) \ {Unset}
    <3>1. PICK i \in 1 .. Len(fs1) : fs1[i].root = r /\ fs1[i].regs[n] = x /\ x # Unset
      BY <1>1, HeldElim
    <3>2. CASE i = Len(fs)
      BY <1>1, <1>4, <3>1, <3>2
    <3>3. CASE i # Len(fs)
      BY <1>1, <3>1, <3>3, HeldIntro
    <3> QED BY <3>2, <3>3
  <2>2. f.regs[name] # Unset => f.regs[name] \in Held(fs1, r, n)
    BY <1>1, <1>4, HeldIntro
  <2> QED BY <2>1, <2>2
<1>5. ASSUME NEW r \in Root, NEW n \in Name, ~ (r = f.root /\ n = name)
      PROVE  Held(fs1, r, n) = Held(fs, r, n)
  <2>1. \A i \in 1 .. Len(fs) : /\ fs1[i].root = fs[i].root
                                /\ fs[i].root = r => fs1[i].regs[n] = fs[i].regs[n]
    BY <1>1, <1>5
  <2> QED BY <1>1, <2>1 DEF Held
<1> QED BY <1>1, <1>3, <1>4, <1>5

\* A new frame holds nothing.
LEMMA PushHeld ==
    ASSUME NEW fs \in Seq(Frame), NEW f \in Frame, LayoutOK(fs),
           \A n \in Name : f.regs[n] = Unset
    PROVE  /\ Append(fs, f) \in Seq(Frame) /\ LayoutOK(Append(fs, f))
           /\ Len(Append(fs, f)) = Len(fs) + 1
           /\ \A r \in Root, n \in Name : Held(Append(fs, f), r, n) = Held(fs, r, n)
<1> DEFINE m == Len(fs)
           fs1 == Append(fs, f)
<1>1. /\ fs1 \in Seq(Frame) /\ Len(fs1) = m + 1 /\ m \in Nat
      /\ fs1[m + 1] = f /\ \A i \in 1 .. m : fs1[i] = fs[i]
  OBVIOUS
<1>2. \A i \in 1 .. m + 1 : i \in 1 .. m \/ i = m + 1
  BY <1>1
<1>3. 1 .. m \subseteq 1 .. m + 1
  BY <1>1
<1> HIDE DEF fs1
<1>4. LayoutOK(fs1)
  BY <1>1, <1>2 DEF LayoutOK
<1>5. ASSUME NEW r \in Root, NEW n \in Name
      PROVE  Held(fs1, r, n) = Held(fs, r, n)
  <2>1. ASSUME NEW x \in Held(fs1, r, n) PROVE x \in Held(fs, r, n)
    <3>1. PICK i \in 1 .. m + 1 : fs1[i].root = r /\ fs1[i].regs[n] = x /\ x # Unset
      BY <1>1, HeldElim
    <3>2. i \in 1 .. m /\ fs1[i] = fs[i]
      BY <1>1, <1>2, <3>1
    <3> QED BY <3>1, <3>2, HeldIntro
  <2>2. ASSUME NEW x \in Held(fs, r, n) PROVE x \in Held(fs1, r, n)
    <3>1. PICK i \in 1 .. m : fs[i].root = r /\ fs[i].regs[n] = x /\ x # Unset
      BY HeldElim
    <3>2. i \in 1 .. Len(fs1) /\ fs1[i] = fs[i]
      BY <1>1, <1>3
    <3> QED BY <1>1, <3>1, <3>2, HeldIntro
  <2> QED BY <2>1, <2>2
<1> QED BY <1>1, <1>4, <1>5 DEF fs1

\* fs1 is fs without its newest frame.
Popped(fs, fs1) ==
    /\ fs1 \in Seq(Frame) /\ Len(fs1) = Len(fs) - 1
    /\ Len(fs) \in Nat /\ Len(fs) \in 1 .. Len(fs)
    /\ 1 .. Len(fs) - 1 \subseteq 1 .. Len(fs)
    /\ \A i \in 1 .. Len(fs) - 1 : fs1[i] = fs[i]

\* That is what leaving a Script frame does to the stack.
LEMMA PopFacts ==
    ASSUME NEW fs \in Seq(Frame), fs # <<>>
    PROVE  Popped(fs, SubSeq(fs, 1, Len(fs) - 1))
BY SeqDrop DEF Popped

\* The newest frame goes, and with it what it held.
LEMMA PopHeld ==
    ASSUME NEW fs \in Seq(Frame), NEW fs1, LayoutOK(fs), Popped(fs, fs1)
    PROVE  /\ fs1 \in Seq(Frame) /\ LayoutOK(fs1) /\ Len(fs1) = Len(fs) - 1
           /\ \A r \in Root, n \in Name :
                /\ Held(fs1, r, n) \subseteq Held(fs, r, n)
                /\ fs[Len(fs)].root # r \/ fs[Len(fs)].regs[n] = Unset =>
                     Held(fs1, r, n) = Held(fs, r, n)
<1>1. /\ fs1 \in Seq(Frame) /\ Len(fs1) = Len(fs) - 1
      /\ Len(fs) \in Nat /\ Len(fs) \in 1 .. Len(fs)
      /\ 1 .. Len(fs) - 1 \subseteq 1 .. Len(fs)
      /\ \A i \in 1 .. Len(fs) - 1 : fs1[i] = fs[i]
  BY DEF Popped
<1>2. \A i \in 1 .. Len(fs1) : i \in 1 .. Len(fs) /\ fs1[i] = fs[i]
  BY <1>1
<1>3. \A i \in 1 .. Len(fs) : i = Len(fs) \/ i \in 1 .. Len(fs1)
  BY <1>1
<1>4. LayoutOK(fs1)
  BY <1>2 DEF LayoutOK
<1>5. ASSUME NEW r \in Root, NEW n \in Name
      PROVE  Held(fs1, r, n) \subseteq Held(fs, r, n)
  BY <1>2 DEF Held
<1>6. ASSUME NEW r \in Root, NEW n \in Name,
             fs[Len(fs)].root # r \/ fs[Len(fs)].regs[n] = Unset
      PROVE  Held(fs, r, n) \subseteq Held(fs1, r, n)
  BY <1>2, <1>3, <1>6 DEF Held
<1> QED BY <1>1, <1>4, <1>5, <1>6

-----------------------------------------------------------------------------
(* Namespace records *)

\* A generation b that no copy stamped with a can match.
Later(a, b) == b > a \/ b = MaxVersion

\* A saturating generation never goes back, and an advance is seen.
LEMMA AdvanceLater ==
    ASSUME NEW v \in Version, NEW k \in Nat
    PROVE  v <= Advance(v, k) /\ (k # 0 => Later(v, Advance(v, k)))
BY ConstantAssumption DEF Advance, Version, Later

\* Masks and generations only grow, and an escaped dictionary stays escaped.
Grows(s, s1) ==
    /\ s.disabled => s1.disabled
    /\ s.value_interest \subseteq s1.value_interest
    /\ s.fallback_interest \subseteq s1.fallback_interest
    /\ s.environment_version <= s1.environment_version
    /\ s.structure_version <= s1.structure_version
    /\ s.mirror_epoch <= s1.mirror_epoch

\* Only the names in `names` can have moved, and if there are any both
\* generations tell.
Touches(s, s1, names) ==
    /\ s1 \in NamespaceState /\ Grows(s, s1)
    /\ s1.disabled = s.disabled /\ s1.mirror_epoch = s.mirror_epoch
    /\ names # {} => /\ Later(s.environment_version, s1.environment_version)
                     /\ Later(s.structure_version, s1.structure_version)
    /\ \A n \in Name \ names : s1.values[n] = s.values[n] /\ s1.globals[n] = s.globals[n]

\* The bumps that end every namespace write change generations and nothing else.
Bumps(s, s1, k) ==
    /\ s1 \in NamespaceState /\ Grows(s, s1)
    /\ s1.disabled = s.disabled /\ s1.mirror_epoch = s.mirror_epoch
    /\ s1.env_interest = s.env_interest
    /\ s1.values = s.values /\ s1.globals = s.globals
    /\ k # 0 => /\ Later(s.environment_version, s1.environment_version)
                /\ Later(s.structure_version, s1.structure_version)

\* bump_structure_version is such a bump.
LEMMA StructureBumps ==
    ASSUME NEW s \in NamespaceState, NEW k \in Nat
    PROVE  Bumps(s, BumpStructure(s, k), k)
<1> DEFINE s1 == BumpStructure(s, k)
<1>1. s1 \in NamespaceState
  BY BumpStructureType
<1>2. /\ s1.environment_version = Advance(s.environment_version, k)
      /\ s1.structure_version = Advance(s.structure_version, k)
      /\ s1.mirror_epoch = s.mirror_epoch /\ s1.disabled = s.disabled
      /\ s1.value_interest = s.value_interest
      /\ s1.fallback_interest = s.fallback_interest
      /\ s1.env_interest = s.env_interest
      /\ s1.values = s.values /\ s1.globals = s.globals
  BY DEF BumpStructure, NamespaceState
<1>3. /\ s.environment_version \in Version /\ s.structure_version \in Version
      /\ s.mirror_epoch <= s.mirror_epoch
  BY DEF NamespaceState, Version
<1> HIDE DEF s1
<1>4. Bumps(s, s1, k)
  BY <1>1, <1>2, <1>3, AdvanceLater DEF Bumps, Grows
<1> QED BY <1>4 DEF s1

\* Followed by bump_filesystem_module_mutation it still is.
LEMMA ModuleBumps ==
    ASSUME NEW s \in NamespaceState, NEW r \in Root, NEW k \in Nat, NEW j \in Nat
    PROVE  Bumps(s, BumpModule(BumpStructure(s, k), r, j), k)
<1> DEFINE s1 == BumpStructure(s, k)
           s2 == BumpModule(s1, r, j)
<1>1. Bumps(s, s1, k)
  BY StructureBumps
<1>2. s1 \in NamespaceState
  BY <1>1 DEF Bumps
<1> HIDE DEF s1
<1>3. s2 \in NamespaceState
  BY <1>2, BumpModuleType
<1>4. /\ s2.environment_version = s1.environment_version
      /\ s2.structure_version = s1.structure_version
      /\ s2.mirror_epoch = s1.mirror_epoch /\ s2.disabled = s1.disabled
      /\ s2.value_interest = s1.value_interest
      /\ s2.fallback_interest = s1.fallback_interest
      /\ s2.env_interest = s1.env_interest
      /\ s2.values = s1.values /\ s2.globals = s1.globals
  BY <1>2 DEF BumpModule, NamespaceState
<1> HIDE DEF s2
<1>5. Bumps(s, s2, k)
  BY <1>1, <1>3, <1>4 DEF Bumps, Grows
<1> QED BY <1>5 DEF s1, s2

\* The names in `names` are bound by name.
Wrote(s, s1, r, names, new) ==
    /\ Touches(s, s1, names)
    /\ s1.env_interest = s.env_interest \cup MasksOf(names)
    /\ \A n \in names : /\ s1.values[n] = new[n]
                        /\ s1.globals[n] = IF MirrorsDict(s, r) THEN new[n]
                                           ELSE s.globals[n]

\* assign_name does that.
LEMMA AssignedFacts ==
    ASSUME NEW s \in NamespaceState, NEW r \in Root, NEW names \in SUBSET Name,
           NEW new \in Binding
    PROVE  Wrote(s, AssignedNames(s, r, names, new), r, names, new)
<1> DEFINE k == Cardinality(names) * (IF s.disabled THEN 2 ELSE 1)
           written(old) == [name \in Name |->
                              IF name \in names THEN new[name] ELSE old[name]]
           s1 == [s EXCEPT !.values = written(@),
                           !.env_interest = @ \cup MasksOf(names),
                           !.globals = IF MirrorsDict(s, r) THEN written(@) ELSE @]
           s2 == BumpModule(BumpStructure(s1, k), r, Cardinality(names))
<1>1. Cardinality(names) \in Nat /\ k \in Nat
  BY CountType
<1>2. \A old \in Binding : written(old) \in Binding
  BY DEF Binding
<1>3. s1 \in NamespaceState
  BY <1>2, MasksType DEF NamespaceState
<1>4. s2 = AssignedNames(s, r, names, new)
  BY DEF AssignedNames
<1>5. names # {} => k # 0
  <2>1. IsFiniteSet(names)
    BY ConstantAssumption, FS_Subset
  <2>2. names # {} => Cardinality(names) # 0
    BY <2>1, FS_EmptySet
  <2> QED BY <1>1, <2>2
<1>6. /\ s1.environment_version = s.environment_version
      /\ s1.structure_version = s.structure_version
      /\ s1.mirror_epoch = s.mirror_epoch /\ s1.disabled = s.disabled
      /\ s1.value_interest = s.value_interest
      /\ s1.fallback_interest = s.fallback_interest
      /\ s1.env_interest = s.env_interest \cup MasksOf(names)
      /\ \A n \in Name :
           /\ s1.values[n] = IF n \in names THEN new[n] ELSE s.values[n]
           /\ s1.globals[n] = IF n \in names /\ MirrorsDict(s, r) THEN new[n]
                              ELSE s.globals[n]
  BY DEF NamespaceState
<1> HIDE DEF s1, k
<1>7. Bumps(s1, s2, k)
  BY <1>1, <1>3, ModuleBumps
<1> HIDE DEF s2
<1>8. Grows(s, s2)
  BY <1>6, <1>7 DEF Bumps, Grows
<1>9. Touches(s, s2, names)
  BY <1>5, <1>6, <1>7, <1>8 DEF Bumps, Touches
<1>10. Wrote(s, s2, r, names, new)
  BY <1>6, <1>7, <1>9 DEF Bumps, Wrote
<1> QED BY <1>4, <1>10

\* So does PyModule::insert_attr.
LEMMA InsertedFacts ==
    ASSUME NEW s \in NamespaceState, NEW r \in FsRoot, NEW name \in Name,
           NEW value \in Value, NEW k \in Nat \ {0}
    PROVE  LET s1 == [s EXCEPT !.globals[name] = value, !.values[name] = value,
                               !.env_interest = @ \cup Mask[name]]
           IN  Wrote(s, BumpModule(BumpStructure(s1, k), r, 1), r, {name},
                     [n \in Name |-> value])
<1> DEFINE s1 == [s EXCEPT !.globals[name] = value, !.values[name] = value,
                           !.env_interest = @ \cup Mask[name]]
           s2 == BumpModule(BumpStructure(s1, k), r, 1)
<1>0. r \in Root
  BY ConstantAssumption
<1>1. s1 \in NamespaceState
  BY ConstantAssumption DEF NamespaceState, Binding
<1>2. /\ s1.environment_version = s.environment_version
      /\ s1.structure_version = s.structure_version
      /\ s1.mirror_epoch = s.mirror_epoch /\ s1.disabled = s.disabled
      /\ s1.value_interest = s.value_interest
      /\ s1.fallback_interest = s.fallback_interest
      /\ s1.env_interest = s.env_interest \cup Mask[name]
      /\ \A n \in Name :
           /\ s1.values[n] = IF n = name THEN value ELSE s.values[n]
           /\ s1.globals[n] = IF n = name THEN value ELSE s.globals[n]
  BY DEF NamespaceState, Binding
<1> HIDE DEF s1
<1>3. Bumps(s1, s2, k)
  BY <1>0, <1>1, ModuleBumps
<1> HIDE DEF s2
<1>4. Grows(s, s2)
  BY <1>2, <1>3 DEF Bumps, Grows
<1>5. Touches(s, s2, {name})
  BY <1>2, <1>3, <1>4 DEF Bumps, Touches
<1>6. MasksOf({name}) = Mask[name]
  <2>1. {Mask[n] : n \in {name}} = {Mask[name]}
    OBVIOUS
  <2>2. UNION {Mask[name]} = Mask[name]
    OBVIOUS
  <2> QED BY <2>1, <2>2, Zenon DEF MasksOf
<1>7. Wrote(s, s2, r, {name}, [n \in Name |-> value])
  BY <1>2, <1>3, <1>5, <1>6 DEF Bumps, Wrote, MirrorsDict
<1> QED BY <1>7 DEF s1, s2

\* A name is unbound by name.
Dropped(s, s1, name) ==
    /\ Touches(s, s1, {name})
    /\ s1.env_interest = s.env_interest
    /\ s1.values[name] = Unset /\ s1.globals[name] = Unset

\* delete_module_global_binding does that.
LEMMA RemovedFacts ==
    ASSUME NEW s \in NamespaceState, NEW r \in Root, NEW name \in Name
    PROVE  Dropped(s, Removed(s, r, name), name)
<1> DEFINE s1 == [s EXCEPT !.values[name] = Unset, !.globals[name] = Unset]
           k == IF s.disabled /\ s.globals[name] # Unset THEN 2 ELSE 1
           s2 == BumpModule(BumpStructure(s1, k), r, 1)
<1>1. s1 \in NamespaceState /\ k \in Nat /\ k # 0
  <2>1. s1 \in NamespaceState
    BY DEF NamespaceState, Binding
  <2>2. k \in Nat /\ k # 0
    OBVIOUS
  <2> QED BY <2>1, <2>2
<1>2. Removed(s, r, name) = s2
  BY DEF Removed
<1>3. /\ s1.environment_version = s.environment_version
      /\ s1.structure_version = s.structure_version
      /\ s1.mirror_epoch = s.mirror_epoch /\ s1.disabled = s.disabled
      /\ s1.value_interest = s.value_interest
      /\ s1.fallback_interest = s.fallback_interest
      /\ s1.env_interest = s.env_interest
      /\ \A n \in Name :
           /\ s1.values[n] = IF n = name THEN Unset ELSE s.values[n]
           /\ s1.globals[n] = IF n = name THEN Unset ELSE s.globals[n]
  BY DEF NamespaceState, Binding
<1> HIDE DEF s1, k
<1>4. Bumps(s1, s2, k)
  BY <1>1, ModuleBumps
<1> HIDE DEF s2
<1>5. Grows(s, s2)
  BY <1>3, <1>4 DEF Bumps, Grows
<1>6. Touches(s, s2, {name})
  BY <1>1, <1>3, <1>4, <1>5 DEF Bumps, Touches
<1>7. Dropped(s, s2, name)
  BY <1>3, <1>4, <1>6 DEF Bumps, Dropped
<1> QED BY <1>2, <1>7

\* The dictionary of an escaped namespace is mutated through an alias.
Mutated(s, s1, names, value) ==
    /\ Touches(s, s1, names)
    /\ s1.env_interest = s.env_interest /\ s1.values = s.values
    /\ \A n \in names : s1.globals[n] = value

\* synchronize_alias_key_mutation and synchronize_alias_full_mutation do that.
LEMMA MutatedFacts ==
    ASSUME NEW s \in NamespaceState, NEW names \in SUBSET Name,
           NEW value \in Value \cup {Unset}, NEW g \in Binding,
           \A n \in Name : g[n] = IF n \in names THEN value ELSE s.globals[n]
    PROVE  Mutated(s, BumpStructure([s EXCEPT !.globals = g], 1), names, value)
<1> DEFINE s1 == [s EXCEPT !.globals = g]
           s2 == BumpStructure(s1, 1)
<1>1. s1 \in NamespaceState
  BY DEF NamespaceState
<1>2. /\ s1.environment_version = s.environment_version
      /\ s1.structure_version = s.structure_version
      /\ s1.mirror_epoch = s.mirror_epoch /\ s1.disabled = s.disabled
      /\ s1.value_interest = s.value_interest
      /\ s1.fallback_interest = s.fallback_interest
      /\ s1.env_interest = s.env_interest
      /\ s1.values = s.values /\ s1.globals = g
  BY DEF NamespaceState
<1> HIDE DEF s1
<1>3. Bumps(s1, s2, 1)
  BY <1>1, StructureBumps
<1> HIDE DEF s2
<1>4. Grows(s, s2)
  BY <1>2, <1>3 DEF Bumps, Grows
<1>5. Touches(s, s2, names)
  BY <1>2, <1>3, <1>4 DEF Bumps, Touches
<1>6. Mutated(s, s2, names, value)
  BY <1>2, <1>3, <1>5 DEF Bumps, Mutated
<1> QED BY <1>6 DEF s1, s2

\* A register store of the running script is synchronized: the generations
\* tell whoever is interested, and EnvValues is written if its mask says so.
Stored(s, s1, r, name, value) ==
    /\ s1 \in NamespaceState /\ Grows(s, s1)
    /\ s1.disabled = s.disabled /\ s1.mirror_epoch = s.mirror_epoch
    /\ s1.env_interest = s.env_interest
    /\ Interested(s.fallback_interest, name) =>
         /\ Later(s.environment_version, s1.environment_version)
         /\ Later(s.structure_version, s1.structure_version)
    /\ Interested(s.value_interest, name) =>
         Later(s.environment_version, s1.environment_version)
    /\ \A n \in Name :
         /\ s1.values[n] = IF n = name /\ Interested(s.env_interest, name)
                           THEN value ELSE s.values[n]
         /\ s1.globals[n] = IF n = name /\ MirrorsDict(s, r)
                            THEN value ELSE s.globals[n]

\* prepare_namespace_module_write and sync_module_global_binding do that.
LEMMA SyncedFacts ==
    ASSUME NEW s \in NamespaceState, NEW r \in Root, NEW name \in Name,
           NEW value \in Value
    PROVE  Stored(s, SyncedWrite(s, r, name, value), r, name, value)
<1> DEFINE s1 == CASE Interested(s.fallback_interest, name) -> BumpStructure(s, 1)
                   [] /\ ~ Interested(s.fallback_interest, name)
                      /\ Interested(s.value_interest, name) ->
                        [s EXCEPT !.environment_version = Advance(@, 1)]
                   [] OTHER -> s
           s2 == BumpModule(s1, r, 1)
           s3 == IF Interested(s.env_interest, name)
                 THEN [s2 EXCEPT !.values[name] = value] ELSE s2
           s4 == IF MirrorsDict(s, r) THEN [s3 EXCEPT !.globals[name] = value] ELSE s3
           s5 == IF s.disabled THEN BumpStructure(s4, 1) ELSE s4
           Same(t, u) == /\ t.disabled = u.disabled /\ t.mirror_epoch = u.mirror_epoch
                         /\ t.value_interest = u.value_interest
                         /\ t.fallback_interest = u.fallback_interest
                         /\ t.env_interest = u.env_interest
           SameVersions(t, u) == /\ t.environment_version = u.environment_version
                                 /\ t.structure_version = u.structure_version
<1>1. SyncedWrite(s, r, name, value) = s5
  BY DEF SyncedWrite
<1>2. /\ s1 \in NamespaceState /\ Grows(s, s1) /\ Same(s, s1)
      /\ s1.values = s.values /\ s1.globals = s.globals
      /\ Interested(s.fallback_interest, name) =>
           /\ Later(s.environment_version, s1.environment_version)
           /\ Later(s.structure_version, s1.structure_version)
      /\ Interested(s.value_interest, name) =>
           Later(s.environment_version, s1.environment_version)
  <2>1. CASE Interested(s.fallback_interest, name)
    <3>1. Bumps(s, BumpStructure(s, 1), 1)
      BY StructureBumps
    <3>2. BumpStructure(s, 1).value_interest = s.value_interest
          /\ BumpStructure(s, 1).fallback_interest = s.fallback_interest
      BY DEF BumpStructure, NamespaceState
    <3> QED BY <2>1, <3>1, <3>2 DEF Bumps
  <2>2. CASE /\ ~ Interested(s.fallback_interest, name)
             /\ Interested(s.value_interest, name)
    <3> DEFINE t == [s EXCEPT !.environment_version = Advance(@, 1)]
    <3>1. s1 = t
      BY <2>2
    <3>2. s.environment_version \in Version
      BY DEF NamespaceState
    <3>3. /\ Advance(s.environment_version, 1) \in Version
          /\ s.environment_version <= Advance(s.environment_version, 1)
          /\ Later(s.environment_version, Advance(s.environment_version, 1))
      BY <3>2, AdvanceType, AdvanceLater
    <3>4. /\ t \in NamespaceState /\ Same(s, t)
          /\ t.environment_version = Advance(s.environment_version, 1)
          /\ t.structure_version = s.structure_version
          /\ t.values = s.values /\ t.globals = s.globals
      BY <3>3 DEF NamespaceState
    <3>5. /\ s.structure_version <= s.structure_version
          /\ s.mirror_epoch <= s.mirror_epoch
      BY DEF NamespaceState, Version
    <3> HIDE DEF s1, t
    <3>6. Grows(s, t)
      BY <3>3, <3>4, <3>5 DEF Grows
    <3> QED BY <2>2, <3>1, <3>3, <3>4, <3>6
  <2>3. CASE /\ ~ Interested(s.fallback_interest, name)
             /\ ~ Interested(s.value_interest, name)
    <3>1. s1 = s
      BY <2>3
    <3>2. Grows(s, s)
      BY DEF Grows, NamespaceState, Version
    <3> QED BY <2>3, <3>1, <3>2
  <2> QED BY <2>1, <2>2, <2>3
<1> HIDE DEF s1
<1>3. /\ s2 \in NamespaceState /\ Same(s1, s2) /\ SameVersions(s1, s2)
      /\ s2.values = s1.values /\ s2.globals = s1.globals
  <2>1. s2 \in NamespaceState
    BY <1>2, BumpModuleType
  <2> QED BY <1>2, <2>1 DEF BumpModule, NamespaceState
<1> HIDE DEF s2
<1>4. /\ s3 \in NamespaceState /\ Same(s2, s3) /\ SameVersions(s2, s3)
      /\ s3.globals = s2.globals
      /\ \A n \in Name :
           s3.values[n] = IF n = name /\ Interested(s.env_interest, name)
                          THEN value ELSE s2.values[n]
  BY <1>3 DEF NamespaceState, Binding
<1> HIDE DEF s3
<1>5. /\ s4 \in NamespaceState /\ Same(s3, s4) /\ SameVersions(s3, s4)
      /\ s4.values = s3.values
      /\ \A n \in Name :
           s4.globals[n] = IF n = name /\ MirrorsDict(s, r)
                           THEN value ELSE s3.globals[n]
  BY <1>4 DEF NamespaceState, Binding
<1> HIDE DEF s4
<1>6. Stored(s, s4, r, name, value)
  <2>1. Grows(s, s4)
    BY <1>2, <1>3, <1>4, <1>5 DEF Grows
  <2> QED BY <1>2, <1>3, <1>4, <1>5, <2>1 DEF Stored
<1>7. Stored(s, s5, r, name, value)
  <2>1. CASE ~ s.disabled
    BY <1>6, <2>1
  <2>2. CASE s.disabled
    <3>1. Bumps(s4, s5, 1)
      BY <1>5, <2>2, StructureBumps
    <3>2. s5 \in NamespaceState /\ s4 \in NamespaceState
      BY <1>5, <3>1 DEF Bumps
    <3>3. /\ s.environment_version \in Nat /\ s4.environment_version \in Nat
          /\ s5.environment_version \in Nat /\ s5.environment_version <= MaxVersion
          /\ s.structure_version \in Nat /\ s4.structure_version \in Nat
          /\ s5.structure_version \in Nat /\ s5.structure_version <= MaxVersion
          /\ s.mirror_epoch \in Nat
      BY <3>2, ConstantAssumption DEF NamespaceState, Version
    <3> HIDE DEF s5
    <3>4. Grows(s, s5)
      BY <1>6, <3>1, <3>3 DEF Stored, Grows, Bumps
    <3>5. /\ Later(s.environment_version, s5.environment_version)
          /\ Later(s.structure_version, s5.structure_version)
      BY <1>6, <3>1, <3>3 DEF Stored, Grows, Bumps, Later
    <3> QED BY <1>6, <3>1, <3>2, <3>4, <3>5 DEF Stored, Bumps
  <2> QED BY <2>1, <2>2
<1> QED BY <1>1, <1>7

\* The mirror epoch turns and nothing else.
Turned(s, s1, code) ==
    /\ s1 \in NamespaceState /\ Grows(s, s1)
    /\ s1.disabled = s.disabled /\ s1.env_interest = s.env_interest
    /\ s1.values = s.values /\ s1.globals = s.globals
    /\ s1.environment_version = s.environment_version
    /\ s1.structure_version = s.structure_version
    /\ s1.mirror_epoch = IF LocalNames[code] = {} THEN s.mirror_epoch
                         ELSE Advance(s.mirror_epoch, 1)
    /\ LocalNames[code] # {} => Later(s.mirror_epoch, s1.mirror_epoch)

\* register_namespace_fastlocals and the drop of its guard do that.
LEMMA TurnEpochFacts ==
    ASSUME NEW s \in NamespaceState, NEW code \in Code
    PROVE  Turned(s, TurnEpoch(s, code), code)
<1> DEFINE s1 == TurnEpoch(s, code)
<1>1. s1 \in NamespaceState
  BY TurnEpochType
<1>2. /\ s1.environment_version = s.environment_version
      /\ s1.structure_version = s.structure_version
      /\ s1.disabled = s.disabled
      /\ s1.mirror_epoch = IF LocalNames[code] = {} THEN s.mirror_epoch
                           ELSE Advance(s.mirror_epoch, 1)
      /\ s1.value_interest = s.value_interest
      /\ s1.fallback_interest = s.fallback_interest
      /\ s1.env_interest = s.env_interest
      /\ s1.values = s.values /\ s1.globals = s.globals
  BY DEF TurnEpoch, NamespaceState
<1>3. /\ s.mirror_epoch \in Version /\ s.mirror_epoch <= s.mirror_epoch
      /\ s.environment_version <= s.environment_version
      /\ s.structure_version <= s.structure_version
  BY DEF NamespaceState, Version
<1> HIDE DEF s1
<1>4. /\ s.mirror_epoch <= s1.mirror_epoch
      /\ LocalNames[code] # {} => Later(s.mirror_epoch, s1.mirror_epoch)
  BY <1>2, <1>3, AdvanceLater
<1>5. Turned(s, s1, code)
  BY <1>1, <1>2, <1>3, <1>4 DEF Turned, Grows
<1> QED BY <1>5 DEF s1

-----------------------------------------------------------------------------
(* What an operation on a record does to the meaning of one name, and what   *)
(* the stamps of a cached copy can tell about it                             *)

\* Going from the record s and the held values h to s1 and h1, whatever a
\* cached copy of n relied on is still so, or a generation it is stamped
\* with has moved on.  The one exception is a register cleared before its
\* finalizer runs: what it held has no weak handle that upgrades for free.
CacheStep(s, h, s1, h1, n) ==
    /\ Grows(s, s1)
    /\ ~ s1.disabled =>
         /\ Interested(s.value_interest, n) =>
              \/ Later(s.environment_version, s1.environment_version)
              \/ /\ s1.values[n] = s.values[n] /\ s1.globals[n] = s.globals[n]
                 /\ h1 = h \/ (h1 \subseteq h /\ h \cap AllocFree = {})
         /\ Interested(s.fallback_interest, n) =>
              \/ Later(s.structure_version, s1.structure_version)
              \/ /\ s1.values[n] = s.values[n] /\ s1.globals[n] = s.globals[n]
                 /\ h1 \subseteq h

\* A namespace that is left alone keeps every copy valid.
LEMMA CacheStepSame ==
    ASSUME NEW s \in NamespaceState, NEW h, NEW n
    PROVE  CacheStep(s, h, s, h, n)
<1>1. Grows(s, s)
  BY DEF Grows, NamespaceState, Version
<1> QED BY <1>1 DEF CacheStep

\* Binding names by name: they mean what was written.
LEMMA WroteMeans ==
    ASSUME NEW s \in NamespaceState, NEW s1, NEW r, NEW names, NEW new,
           Wrote(s, s1, r, names, new),
           NEW n \in Name, NEW h, NEW h1, NEW v, Means(s, h, r, n, v), NEW w,
           \/ n \in names /\ w = new[n] /\ w # Unset /\ h1 \subseteq {w} \ {Unset}
           \/ n \notin names /\ w = v /\ h1 = h
    PROVE  Means(s1, h1, r, n, w) /\ CacheStep(s, h, s1, h1, n)
<1>1. CASE n \in names
  <2>1. Means(s1, h1, r, n, w)
    BY <1>1 DEF Means, Wrote, Touches, MirrorsDict
  <2>2. CacheStep(s, h, s1, h1, n)
    BY <1>1 DEF CacheStep, Wrote, Touches
  <2> QED BY <1>1, <2>1, <2>2
<1>2. CASE n \notin names
  <2>1. Means(s1, h1, r, n, w)
    BY <1>2 DEF Means, Wrote, Touches
  <2>2. CacheStep(s, h, s1, h1, n)
    BY <1>2 DEF CacheStep, Wrote, Touches
  <2> QED BY <1>2, <2>1, <2>2
<1> QED BY <1>1, <1>2

\* The mask of EnvValues grows with it.
LEMMA WroteKnown ==
    ASSUME NEW s, NEW s1, NEW r, NEW names \in SUBSET Name, NEW new,
           Wrote(s, s1, r, names, new), EnvKnown(s)
    PROVE  EnvKnown(s1)
<1>1. \A n \in names : Mask[n] \subseteq MasksOf(names)
  BY DEF MasksOf
<1>2. /\ s1.env_interest = s.env_interest \cup MasksOf(names)
      /\ \A n \in Name \ names : s1.values[n] = s.values[n]
  BY DEF Wrote, Touches
<1> QED BY <1>1, <1>2 DEF EnvKnown, Interested

\* Unbinding a name leaves it without a meaning, if no register holds it.
LEMMA DroppedMeans ==
    ASSUME NEW s \in NamespaceState, NEW s1, NEW r, NEW name \in Name,
           Dropped(s, s1, name),
           NEW n \in Name, NEW h, NEW h1, NEW v, Means(s, h, r, n, v),
           n = name => h1 = {}, n # name => h1 = h
    PROVE  /\ Means(s1, h1, r, n, IF n \in {name} THEN Unset ELSE v)
           /\ CacheStep(s, h, s1, h1, n)
<1>1. CASE n = name
  <2>1. Means(s1, h1, r, n, Unset)
    BY <1>1 DEF Means, Dropped, Touches
  <2>2. CacheStep(s, h, s1, h1, n)
    BY <1>1 DEF CacheStep, Dropped, Touches
  <2> QED BY <1>1, <2>1, <2>2
<1>2. CASE n # name
  <2>1. Means(s1, h1, r, n, v)
    BY <1>2 DEF Means, Dropped, Touches
  <2>2. CacheStep(s, h, s1, h1, n)
    BY <1>2 DEF CacheStep, Dropped, Touches
  <2> QED BY <1>2, <2>1, <2>2
<1> QED BY <1>1, <1>2

\* Unbinding keeps the mask of EnvValues.
LEMMA DroppedKnown ==
    ASSUME NEW s, NEW s1, NEW name \in Name, Dropped(s, s1, name), EnvKnown(s)
    PROVE  EnvKnown(s1)
BY DEF EnvKnown, Dropped, Touches

\* An escaped dictionary means what its holder writes.
LEMMA MutatedMeans ==
    ASSUME NEW s \in NamespaceState, NEW s1, NEW r, NEW names, NEW value,
           Mutated(s, s1, names, value), s.disabled,
           NEW n \in Name, NEW h, NEW h1, NEW v, Means(s, h, r, n, v),
           n \in names => h1 \subseteq {value} \ {Unset}, n \notin names => h1 = h
    PROVE  /\ Means(s1, h1, r, n, IF n \in names THEN value ELSE v)
           /\ CacheStep(s, h, s1, h1, n)
<1>1. CASE n \in names
  <2>1. Means(s1, h1, r, n, value)
    BY <1>1 DEF Means, Mutated, Touches
  <2>2. CacheStep(s, h, s1, h1, n)
    BY <1>1 DEF CacheStep, Mutated, Touches
  <2> QED BY <1>1, <2>1, <2>2
<1>2. CASE n \notin names
  <2>1. Means(s1, h1, r, n, v)
    BY <1>2 DEF Means, Mutated, Touches
  <2>2. CacheStep(s, h, s1, h1, n)
    BY <1>2 DEF CacheStep, Mutated, Touches
  <2> QED BY <1>2, <2>1, <2>2
<1> QED BY <1>1, <1>2

\* A synchronized register store means what was stored.
LEMMA StoredMeans ==
    ASSUME NEW s \in NamespaceState, NEW s1, NEW r, NEW name, NEW value,
           Stored(s, s1, r, name, value), EnvKnown(s), value # Unset,
           NEW n \in Name, NEW h, NEW h1, NEW v, Means(s, h, r, n, v),
           n = name => h1 = {value}, n # name => h1 = h
    PROVE  /\ Means(s1, h1, r, n, IF n \in {name} THEN value ELSE v)
           /\ CacheStep(s, h, s1, h1, n)
<1>1. CASE n = name
  <2>1. Means(s1, h1, r, n, value)
    BY <1>1 DEF Means, Stored, EnvKnown, MirrorsDict
  <2>2. CacheStep(s, h, s1, h1, n)
    BY <1>1 DEF CacheStep, Stored
  <2> QED BY <1>1, <2>1, <2>2
<1>2. CASE n # name
  <2>1. Means(s1, h1, r, n, v)
    BY <1>2 DEF Means, Stored
  <2>2. CacheStep(s, h, s1, h1, n)
    BY <1>2 DEF CacheStep, Stored
  <2> QED BY <1>2, <2>1, <2>2
<1> QED BY <1>1, <1>2

\* A register store keeps EnvValues inside its mask.
LEMMA StoredKnown ==
    ASSUME NEW s, NEW s1, NEW r, NEW name, NEW value,
           Stored(s, s1, r, name, value), EnvKnown(s)
    PROVE  EnvKnown(s1)
BY DEF EnvKnown, Stored

-----------------------------------------------------------------------------
(* What each action does to the meanings *)

\* The step gives the names in `names` of root r0 the meaning w and every
\* other name the meaning it had; copies that go stale can be told.
Effect(r0, names, w) ==
    /\ LayoutOK(frames')
    /\ \A r \in Root : EnvKnown(ns'[r])
    /\ \A r \in Root, n \in Name, v \in Value \cup {Unset} :
         Meaning(r, n, v) => MeaningAfter(r, n, IF r = r0 /\ n \in names THEN w ELSE v)
    /\ \A r \in Root, n \in Name :
         CacheStep(ns[r], Held(frames, r, n), ns'[r], Held(frames', r, n), n)

\* A step on one root is judged on that root alone.
LEMMA OneRoot ==
    ASSUME CopiesInv, NEW r0 \in Root, NEW s1, NEW names, NEW w,
           ns' = [ns EXCEPT ![r0] = s1],
           LayoutOK(frames'), EnvKnown(s1),
           \A r \in Root, n \in Name : r # r0 => Held(frames', r, n) = Held(frames, r, n),
           \A n \in Name, v \in Value \cup {Unset} :
             Means(ns[r0], Held(frames, r0, n), r0, n, v) =>
               /\ Means(s1, Held(frames', r0, n), r0, n, IF n \in names THEN w ELSE v)
               /\ CacheStep(ns[r0], Held(frames, r0, n), s1, Held(frames', r0, n), n)
    PROVE  Effect(r0, names, w)
<1>1. /\ ns'[r0] = s1 /\ \A r \in Root : r # r0 => ns'[r] = ns[r]
      /\ \A r \in Root : ns[r] \in NamespaceState /\ EnvKnown(ns[r])
  BY DEF CopiesInv, TypeOK
<1>2. \A r \in Root : EnvKnown(ns'[r])
  BY <1>1
<1>3. ASSUME NEW r \in Root, NEW n \in Name, NEW v \in Value \cup {Unset},
             Meaning(r, n, v)
      PROVE  MeaningAfter(r, n, IF r = r0 /\ n \in names THEN w ELSE v)
  <2>1. CASE r = r0
    BY <1>1, <1>3, <2>1 DEF Meaning, MeaningAfter
  <2>2. CASE r # r0
    BY <1>1, <1>3, <2>2 DEF Meaning, MeaningAfter
  <2> QED BY <2>1, <2>2
<1>4. ASSUME NEW r \in Root, NEW n \in Name
      PROVE  CacheStep(ns[r], Held(frames, r, n), ns'[r], Held(frames', r, n), n)
  <2>1. CASE r = r0
    <3>1. PICK v \in Value \cup {Unset} : Meaning(r0, n, v)
      BY DEF CopiesInv
    <3> QED BY <1>1, <2>1, <3>1 DEF Meaning
  <2>2. CASE r # r0
    BY <1>1, <2>2, CacheStepSame
  <2> QED BY <2>1, <2>2
<1> QED BY <1>2, <1>3, <1>4 DEF Effect

\* What CopiesInv says of the state, unpacked.
LEMMA CopiesFacts ==
    ASSUME CopiesInv
    PROVE  /\ TypeOK /\ frames \in Seq(Frame) /\ LayoutOK(frames)
           /\ \A r \in Root : ns[r] \in NamespaceState /\ EnvKnown(ns[r])
BY DEF CopiesInv, TypeOK

\* The running frame, with its registers.
LEMMA RunningFacts ==
    ASSUME CopiesInv, frames # <<>>
    PROVE  /\ Top = frames[Len(frames)] /\ Top \in Frame
           /\ Top.root \in Root /\ Top.code \in Code /\ Top.regs \in Binding
           /\ Len(frames) \in 1 .. Len(frames)
           /\ \A n \in Name : Top.regs[n] # Unset =>
                /\ Top.regs[n] \in Held(frames, Top.root, n)
                /\ n \in LocalNames[Top.code]
<1>1. TypeOK /\ frames \in Seq(Frame) /\ LayoutOK(frames)
  BY CopiesFacts
<1>2. /\ Top \in Frame /\ Top.root \in Root /\ Top.code \in Code
      /\ Top.regs \in Binding /\ Len(frames) \in 1 .. Len(frames)
  BY <1>1, TopType DEF TypeOK
<1>3. Top = frames[Len(frames)]
  BY DEF Top
<1>4. ASSUME NEW n \in Name, Top.regs[n] # Unset
      PROVE  Top.regs[n] \in Held(frames, Top.root, n) /\ n \in LocalNames[Top.code]
  BY <1>1, <1>2, <1>3, <1>4, HeldIntro DEF LayoutOK
<1> QED BY <1>2, <1>3, <1>4

\* A LoadGlobal changes no meaning, filling its slot or not.
LEMMA LoadEffect ==
    ASSUME CopiesInv, NEW site \in Site, NEW r \in Root, LoadGlobal(site, r)
    PROVE  Effect(r, {}, Unset)
<1> DEFINE name == SiteName[site]
           s == ns[r]
<1>1. name \in Name
  BY ConstantAssumption
<1>2. frames' = frames /\ LayoutOK(frames) /\ s \in NamespaceState /\ EnvKnown(s)
  BY CopiesFacts DEF LoadGlobal
<1>3. CASE ns' = [ns EXCEPT ![r] = RegisterInterest(s, site, r)]
  <2> DEFINE s1 == RegisterInterest(s, site, r)
  <2>1. /\ s1.values = s.values /\ s1.globals = s.globals /\ s1.disabled = s.disabled
        /\ s1.env_interest = s.env_interest /\ Grows(s, s1)
    BY <1>2 DEF RegisterInterest, NamespaceState, Version, Grows
  <2> HIDE DEF s1, s
  <2>2. EnvKnown(s1)
    BY <1>2, <2>1 DEF EnvKnown
  <2>3. ASSUME NEW n \in Name, NEW v, NEW h, Means(s, h, r, n, v)
        PROVE  Means(s1, h, r, n, v) /\ CacheStep(s, h, s1, h, n)
    BY <2>1, <2>3 DEF Means, CacheStep
  <2> QED BY <1>2, <1>3, <2>2, <2>3, OneRoot DEF s1, s
<1>4. CASE ns' = [ns EXCEPT ![r] = SyncName(s, name)]
  <2> DEFINE s1 == SyncName(s, name)
  <2>1. /\ s1.globals = s.globals /\ s1.disabled = s.disabled /\ Grows(s, s1)
        /\ s.env_interest \subseteq s1.env_interest
        /\ s.disabled /\ s.globals[name] # Unset => Mask[name] \subseteq s1.env_interest
        /\ \A n \in Name : s1.values[n] = IF s.disabled /\ n = name THEN s.globals[n]
                                          ELSE s.values[n]
    BY <1>1, <1>2 DEF SyncName, NamespaceState, Version, Binding, Grows
  <2> HIDE DEF s1, s, name
  <2>2. EnvKnown(s1)
    BY <1>1, <1>2, <2>1 DEF EnvKnown, Interested
  <2>3. ASSUME NEW n \in Name, NEW v, NEW h, Means(s, h, r, n, v)
        PROVE  Means(s1, h, r, n, v) /\ CacheStep(s, h, s1, h, n)
    BY <1>1, <2>1, <2>3 DEF Means, CacheStep
  <2> QED BY <1>2, <1>4, <2>2, <2>3, OneRoot DEF s1, s
<1> QED BY <1>3, <1>4 DEF LoadGlobal

\* Whatever binds names by name and synchronizes the registers gives them
\* that meaning.
LEMMA BindEffect ==
    ASSUME CopiesInv, NEW r \in Root, NEW names \in SUBSET Name,
           NEW value \in Value, NEW new \in Binding, NEW s1,
           \A n \in names : new[n] = value,
           ns' = [ns EXCEPT ![r] = s1], Wrote(ns[r], s1, r, names, new),
           Synchronized(frames, frames', r, names, new)
    PROVE  Effect(r, names, value)
<1>1. /\ frames \in Seq(Frame) /\ LayoutOK(frames) /\ value # Unset
      /\ ns[r] \in NamespaceState /\ EnvKnown(ns[r])
  BY CopiesFacts, ConstantAssumption
<1>2. /\ LayoutOK(frames')
      /\ \A q \in Root, n \in Name :
           IF q = r /\ n \in names
           THEN Held(frames', q, n) \subseteq {new[n]} \ {Unset}
           ELSE Held(frames', q, n) = Held(frames, q, n)
  BY <1>1, SyncHeld
<1>3. EnvKnown(s1)
  BY <1>1, WroteKnown
<1>4. ASSUME NEW n \in Name, NEW v \in Value \cup {Unset},
             Means(ns[r], Held(frames, r, n), r, n, v)
      PROVE  /\ Means(s1, Held(frames', r, n), r, n, IF n \in names THEN value ELSE v)
             /\ CacheStep(ns[r], Held(frames, r, n), s1, Held(frames', r, n), n)
  <2> DEFINE w == IF n \in names THEN value ELSE v
  <2>1. \/ /\ n \in names /\ w = new[n] /\ w # Unset
           /\ Held(frames', r, n) \subseteq {w} \ {Unset}
        \/ n \notin names /\ w = v /\ Held(frames', r, n) = Held(frames, r, n)
    BY <1>1, <1>2
  <2> HIDE DEF w
  <2>2. /\ Means(s1, Held(frames', r, n), r, n, w)
        /\ CacheStep(ns[r], Held(frames, r, n), s1, Held(frames', r, n), n)
    BY <1>1, <1>4, <2>1, WroteMeans
  <2> QED BY <2>2 DEF w
<1> QED BY <1>2, <1>3, <1>4, OneRoot

\* A store to a global name gives it the stored value.
LEMMA AssignEffect ==
    ASSUME CopiesInv, NEW r \in Root, NEW name \in Name, NEW value \in Value,
           AssignName(r, name, value)
    PROVE  Effect(r, {name}, value)
<1> DEFINE new == [n \in Name |-> value]
           names == {name}
           s1 == AssignedNames(ns[r], r, names, new)
<1>1. frames \in Seq(Frame) /\ ns[r] \in NamespaceState
  BY CopiesFacts
<1>2. new \in Binding /\ names \in SUBSET Name /\ \A n \in names : new[n] = value
  BY ConstantBinding
<1>3. ns' = [ns EXCEPT ![r] = s1] /\ frames' = SetSlots(frames, r, names, new)
  BY DEF AssignName
<1> HIDE DEF new, names
<1>4. Wrote(ns[r], s1, r, names, new)
  BY <1>1, <1>2, AssignedFacts
<1>5. Synchronized(frames, frames', r, names, new)
  BY <1>1, <1>2, <1>3, SetSlotsFacts
<1> HIDE DEF s1
<1>6. Effect(r, names, value)
  BY <1>2, <1>3, <1>4, <1>5, BindEffect
<1> QED BY <1>6 DEF names

\* PyModule::insert_attr binds like a store.
LEMMA InsertEffect ==
    ASSUME CopiesInv, NEW r \in Root, NEW name \in Name, NEW value \in Value,
           InsertAttr(r, name, value)
    PROVE  Effect(r, {name}, value)
<1> DEFINE new == [n \in Name |-> value]
           names == {name}
           s0 == [ns[r] EXCEPT !.globals[name] = value, !.values[name] = value,
                               !.env_interest = @ \cup Mask[name]]
           k == IF ns[r].disabled THEN 2 ELSE 1
           s1 == BumpModule(BumpStructure(s0, k), r, 1)
<1>1. frames \in Seq(Frame) /\ ns[r] \in NamespaceState /\ r \in FsRoot
  BY CopiesFacts DEF InsertAttr
<1>2. new \in Binding /\ names \in SUBSET Name /\ \A n \in names : new[n] = value
  BY ConstantBinding
<1>3. ns' = [ns EXCEPT ![r] = s1] /\ frames' = SetSlots(frames, r, names, new)
  BY DEF InsertAttr
<1>4. k \in Nat \ {0}
  OBVIOUS
<1> HIDE DEF k
<1>5. Wrote(ns[r], s1, r, names, new)
  BY <1>1, <1>4, InsertedFacts
<1> HIDE DEF new, names, s1
<1>6. Synchronized(frames, frames', r, names, new)
  BY <1>1, <1>2, <1>3, SetSlotsFacts
<1>7. Effect(r, names, value)
  BY <1>2, <1>3, <1>5, <1>6, BindEffect
<1> QED BY <1>7 DEF names

\* Whatever unbinds a name by name and leaves it in no register takes its
\* meaning.
LEMMA UnbindEffect ==
    ASSUME CopiesInv, NEW r \in Root, NEW name \in Name, NEW s1,
           ns' = [ns EXCEPT ![r] = s1], Dropped(ns[r], s1, name),
           LayoutOK(frames'), Held(frames', r, name) = {},
           \A q \in Root, n \in Name :
             q # r \/ n # name => Held(frames', q, n) = Held(frames, q, n)
    PROVE  Effect(r, {name}, Unset)
<1>1. ns[r] \in NamespaceState /\ EnvKnown(ns[r])
  BY CopiesFacts
<1>2. EnvKnown(s1)
  BY <1>1, DroppedKnown
<1>3. ASSUME NEW n \in Name, NEW v \in Value \cup {Unset},
             Means(ns[r], Held(frames, r, n), r, n, v)
      PROVE  /\ Means(s1, Held(frames', r, n), r, n, IF n \in {name} THEN Unset ELSE v)
             /\ CacheStep(ns[r], Held(frames, r, n), s1, Held(frames', r, n), n)
  BY <1>1, <1>3, DroppedMeans
<1> QED BY <1>2, <1>3, OneRoot

\* Clearing the registers of a removed name leaves it in none: where the code
\* skips them the dictionary, and so every register, had no such name.
LEMMA ClearedHeld ==
    ASSUME CopiesInv, NEW r \in Root, NEW name \in Name, NEW fs \in Seq(Frame),
           LayoutOK(fs), Held(fs, r, name) \subseteq Held(frames, r, name),
           \A q \in Root, n \in Name :
             q # r \/ n # name => Held(fs, q, n) = Held(frames, q, n)
    PROVE  /\ LayoutOK(ClearedSlots(fs, r, name))
           /\ Held(ClearedSlots(fs, r, name), r, name) = {}
           /\ \A q \in Root, n \in Name :
                q # r \/ n # name =>
                  Held(ClearedSlots(fs, r, name), q, n) = Held(frames, q, n)
<1> DEFINE fs1 == ClearedSlots(fs, r, name)
           new == [n \in Name |-> Unset]
           names == {name}
<1>1. CASE ~ ns[r].disabled \/ ns[r].globals[name] # Unset
  <2>1. fs1 = SetSlots(fs, r, names, new)
    BY <1>1 DEF ClearedSlots
  <2>2. new \in Binding /\ new[name] = Unset /\ names \in SUBSET Name
    BY ConstantBinding
  <2>3. \A n \in Name : n \in names <=> n = name
    OBVIOUS
  <2> HIDE DEF new, fs1, names
  <2>4. Synchronized(fs, fs1, r, names, new)
    BY <2>1, <2>2, SetSlotsFacts
  <2>5. /\ LayoutOK(fs1)
        /\ \A q \in Root, n \in Name :
             IF q = r /\ n \in names
             THEN Held(fs1, q, n) \subseteq {new[n]} \ {Unset}
             ELSE Held(fs1, q, n) = Held(fs, q, n)
    BY <2>4, SyncHeld
  <2> QED BY <2>2, <2>3, <2>5 DEF fs1
<1>2. CASE ns[r].disabled /\ ns[r].globals[name] = Unset
  <2>1. fs1 = fs
    BY <1>2 DEF ClearedSlots
  <2>2. PICK v \in Value \cup {Unset} : Meaning(r, name, v)
    BY DEF CopiesInv
  <2>3. Held(frames, r, name) = {}
    BY <1>2, <2>2 DEF Meaning, Means
  <2> QED BY <2>1, <2>3
<1> QED BY <1>1, <1>2

\* The frame t with x in the register of a name.
Rewritten(t, name, x, d) == [t EXCEPT !.regs[name] = x, !.deleting = d]

\* The register of the running frame is written; nothing else in the stack is.
LEMMA WriteRegister ==
    ASSUME CopiesInv, frames # <<>>, NEW name \in Name, NEW x \in Value \cup {Unset},
           NEW d \in Name \cup {Unset}
    PROVE  /\ Rewritten(Top, name, x, d) \in Frame
           /\ Rewritten(Top, name, x, d).root = Top.root
           /\ Rewritten(Top, name, x, d).code = Top.code
           /\ Rewritten(Top, name, x, d).regs[name] = x
           /\ Replaced(frames, [frames EXCEPT ![Len(frames)] = Rewritten(Top, name, x, d)],
                       Rewritten(Top, name, x, d), name)
<1> DEFINE f == Rewritten(Top, name, x, d)
<1>1. frames \in Seq(Frame) /\ Top = frames[Len(frames)] /\ Top \in Frame
  BY CopiesFacts, RunningFacts
<1>2. /\ f \in Frame /\ f.root = Top.root /\ f.code = Top.code
      /\ f.regs[name] = x /\ \A n \in Name : n # name => f.regs[n] = Top.regs[n]
  BY <1>1 DEF Frame, Binding, Rewritten
<1> HIDE DEF f
<1>3. Replaced(frames, [frames EXCEPT ![Len(frames)] = f], f, name)
  BY <1>1, <1>2, ReplaceFacts
<1> QED BY <1>2, <1>3 DEF f

\* With a single mirror the running frame is the only one with registers.
LEMMA SingleMirror ==
    ASSUME CopiesInv, frames # <<>>, LocalNames[Top.code] # {},
           ~ (Cardinality(Mirrors(Top.root)) > 1), NEW i \in Mirrors(Top.root)
    PROVE  i = Len(frames)
<1> DEFINE M == Mirrors(Top.root)
<1>1. frames \in Seq(Frame) /\ Len(frames) \in 1 .. Len(frames) /\ Len(frames) \in Nat
  BY CopiesFacts, RunningFacts
<1>2. DOMAIN frames = 1 .. Len(frames)
  BY <1>1
<1>3. M \in SUBSET (1 .. Len(frames)) /\ Len(frames) \in M
  BY <1>1, <1>2, RunningFacts DEF Mirrors
<1> HIDE DEF M
<1>4. IsFiniteSet(1 .. Len(frames))
  BY <1>1, FS_Interval
<1>5. IsFiniteSet(M)
  BY <1>3, <1>4, FS_Subset
<1>6. Cardinality(M) \in Nat /\ Cardinality(M) # 0
  BY <1>3, <1>5, FS_CardinalityType, FS_EmptySet
<1>7. Cardinality(M) = 1
  BY <1>6 DEF M
<1>8. PICK x : M = {x}
  BY <1>5, <1>7, FS_Singleton
<1> QED BY <1>3, <1>8 DEF M

\* A register store gives its name the stored value, in the single mirror
\* fast path too.
LEMMA StoreEffect ==
    ASSUME CopiesInv, NEW name \in Name, NEW value \in Value,
           StoreScriptLocal(name, value)
    PROVE  Effect(Top.root, {name}, value)
<1> DEFINE r == Top.root
           new == [n \in Name |-> value]
           names == {name}
           f == Rewritten(Top, name, value, Top.deleting)
           stored == [frames EXCEPT ![Len(frames)] = f]
           s1 == SyncedWrite(ns[r], r, name, value)
           many == ns[r].disabled \/ Cardinality(Mirrors(r)) > 1
<1>1. /\ frames # <<>> /\ name \in LocalNames[Top.code]
      /\ ns' = [ns EXCEPT ![r] = s1]
  BY DEF StoreScriptLocal, Running
<1>2. /\ frames \in Seq(Frame) /\ LayoutOK(frames)
      /\ Top = frames[Len(frames)] /\ Top \in Frame /\ r \in Root
      /\ Len(frames) \in 1 .. Len(frames)
      /\ ns[r] \in NamespaceState /\ EnvKnown(ns[r])
  BY <1>1, CopiesFacts, RunningFacts
<1>3. frames' = IF many THEN SetSlots(stored, r, names, new) ELSE stored
  <2>1. [Top EXCEPT !.regs[name] = value] = f
    BY <1>2 DEF Frame, Rewritten
  <2>2. [frames EXCEPT ![Len(frames)].regs[name] = value] =
          [frames EXCEPT ![Len(frames)] = [Top EXCEPT !.regs[name] = value]]
    BY <1>2
  <2> QED BY <2>1, <2>2 DEF StoreScriptLocal
<1>4. Top.deleting \in Name \cup {Unset} /\ value \in Value \cup {Unset} /\ value # Unset
  BY <1>2, ConstantAssumption DEF Frame
<1>5. /\ f \in Frame /\ f.root = r /\ f.code = Top.code /\ f.regs[name] = value
      /\ Replaced(frames, stored, f, name)
  BY <1>1, <1>4, WriteRegister
<1>6. Stored(ns[r], s1, r, name, value)
  BY <1>2, SyncedFacts
<1>7. new \in Binding /\ new[name] = value /\ names \in SUBSET Name
  BY ConstantBinding
<1>8. \A n \in Name : n \in names <=> n = name
  OBVIOUS
<1> HIDE DEF f, stored, s1, new, names, many
<1>9. /\ stored \in Seq(Frame) /\ LayoutOK(stored) /\ Len(stored) = Len(frames)
      /\ \A q \in Root, n \in Name :
           IF q = r /\ n = name
           THEN /\ Held(stored, q, n) \subseteq (Held(frames, q, n) \cup {value}) \ {Unset}
                /\ value \in Held(stored, q, n)
           ELSE Held(stored, q, n) = Held(frames, q, n)
  <2>1. /\ stored \in Seq(Frame) /\ LayoutOK(stored) /\ Len(stored) = Len(frames)
        /\ \A q \in Root, n \in Name :
             IF q = f.root /\ n = name
             THEN /\ Held(stored, q, n) \subseteq
                       (Held(frames, q, n) \cup {f.regs[name]}) \ {Unset}
                  /\ f.regs[name] # Unset => f.regs[name] \in Held(stored, q, n)
             ELSE Held(stored, q, n) = Held(frames, q, n)
    BY <1>1, <1>2, <1>5, ReplaceHeld
  <2> QED BY <1>4, <1>5, <2>1
<1>10. /\ LayoutOK(frames') /\ Held(frames', r, name) = {value}
       /\ \A q \in Root, n \in Name :
            q # r \/ n # name => Held(frames', q, n) = Held(frames, q, n)
  <2>1. CASE many
    <3>1. Synchronized(stored, frames', r, names, new)
      BY <1>2, <1>3, <1>7, <1>9, <2>1, SetSlotsFacts
    <3>2. /\ LayoutOK(frames') /\ frames' \in Seq(Frame)
          /\ \A q \in Root, n \in Name :
               IF q = r /\ n \in names
               THEN Held(frames', q, n) \subseteq {new[n]} \ {Unset}
               ELSE Held(frames', q, n) = Held(stored, q, n)
      BY <1>9, <3>1, SyncHeld
    <3>3. value \in Held(frames', r, name)
      <4>1. /\ Len(frames') = Len(frames) /\ frames'[Len(frames)].root = r
            /\ frames'[Len(frames)].regs[name] = value
        <5>1. /\ Len(stored) = Len(frames) /\ stored[Len(frames)] = f
          BY <1>5 DEF Replaced
        <5>2. name \in names \cap LocalNames[f.code]
          BY <1>1, <1>5, <1>8
        <5> QED BY <1>2, <1>5, <1>7, <3>1, <5>1, <5>2 DEF Synchronized
      <4> QED BY <1>2, <1>4, <3>2, <4>1, HeldIntro
    <3> QED BY <1>2, <1>7, <1>8, <1>9, <3>2, <3>3
  <2>2. CASE ~ many
    <3>1. frames' = stored
      BY <1>3, <2>2
    <3>2. ASSUME NEW x \in Held(stored, r, name) PROVE x = value
      <4>1. PICK i \in 1 .. Len(stored) : stored[i].root = r /\ stored[i].regs[name] = x
                                          /\ x # Unset
        BY <1>9, HeldElim
      <4>2. name \in LocalNames[stored[i].code]
        BY <1>9, <4>1 DEF LayoutOK
      <4>3. frames[i].root = r /\ frames[i].code = stored[i].code
        BY <1>2, <1>5, <4>1 DEF Replaced
      <4>4. i \in Mirrors(r)
        BY <1>2, <1>9, <4>2, <4>3 DEF Mirrors
      <4>5. i = Len(frames)
        BY <1>1, <2>2, <4>4, SingleMirror DEF many
      <4> QED BY <1>5, <4>1, <4>5 DEF Replaced
    <3> QED BY <1>2, <1>9, <3>1, <3>2
  <2> QED BY <2>1, <2>2
<1>11. EnvKnown(s1)
  BY <1>2, <1>6, StoredKnown
<1>12. ASSUME NEW n \in Name, NEW v \in Value \cup {Unset},
              Means(ns[r], Held(frames, r, n), r, n, v)
       PROVE  /\ Means(s1, Held(frames', r, n), r, n, IF n \in {name} THEN value ELSE v)
              /\ CacheStep(ns[r], Held(frames, r, n), s1, Held(frames', r, n), n)
  BY <1>2, <1>4, <1>6, <1>10, <1>12, StoredMeans
<1> QED BY <1>1, <1>2, <1>10, <1>11, <1>12, OneRoot

\* In the stack fs the running frame may have let go of a name.
Cleared(fs, name) ==
    /\ fs \in Seq(Frame) /\ LayoutOK(fs)
    /\ Held(fs, Top.root, name) \subseteq Held(frames, Top.root, name)
    /\ \A q \in Root, n \in Name :
         q # Top.root \/ n # name => Held(fs, q, n) = Held(frames, q, n)

\* Clearing the register of the running frame takes at most what it held.
LEMMA ClearRegister ==
    ASSUME CopiesInv, frames # <<>>, NEW name \in Name, NEW d \in Name \cup {Unset}
    PROVE  Cleared([frames EXCEPT ![Len(frames)] = Rewritten(Top, name, Unset, d)], name)
<1> DEFINE f == Rewritten(Top, name, Unset, d)
           fs == [frames EXCEPT ![Len(frames)] = f]
<1>1. frames \in Seq(Frame) /\ LayoutOK(frames) /\ Top.root \in Root
  BY CopiesFacts, RunningFacts
<1>2. f.root = Top.root /\ f.regs[name] = Unset /\ Replaced(frames, fs, f, name)
  BY WriteRegister
<1> HIDE DEF f, fs
<1>3. /\ fs \in Seq(Frame) /\ LayoutOK(fs)
      /\ \A q \in Root, n \in Name :
           IF q = f.root /\ n = name
           THEN /\ Held(fs, q, n) \subseteq
                     (Held(frames, q, n) \cup {f.regs[name]}) \ {Unset}
                /\ f.regs[name] # Unset => f.regs[name] \in Held(fs, q, n)
           ELSE Held(fs, q, n) = Held(frames, q, n)
  BY <1>1, <1>2, ReplaceHeld
<1>4. Cleared(fs, name)
  BY <1>1, <1>2, <1>3 DEF Cleared
<1> QED BY <1>4 DEF f, fs

\* `del` of a register variable takes its meaning.
LEMMA DeleteLocalEffect ==
    ASSUME CopiesInv, NEW name \in Name, NEW raise \in BOOLEAN,
           DeleteScriptLocal(name, raise)
    PROVE  Effect(Top.root, {name}, Unset)
<1> DEFINE r == Top.root
           cleared == [frames EXCEPT ![Len(frames)] =
                          Rewritten(Top, name, Unset, Top.deleting)]
           s1 == Removed(ns[r], r, name)
<1>1. frames # <<>> /\ ns' = [ns EXCEPT ![r] = s1]
  BY DEF DeleteScriptLocal, Running
<1>2. /\ frames \in Seq(Frame) /\ Len(frames) \in 1 .. Len(frames)
      /\ Top = frames[Len(frames)] /\ Top \in Frame /\ r \in Root
      /\ ns[r] \in NamespaceState
  BY <1>1, CopiesFacts, RunningFacts
<1>3. frames' = ClearedSlots(cleared, r, name)
  <2>1. [Top EXCEPT !.regs[name] = Unset] = Rewritten(Top, name, Unset, Top.deleting)
    BY <1>2 DEF Frame, Rewritten
  <2>2. [frames EXCEPT ![Len(frames)].regs[name] = Unset] =
          [frames EXCEPT ![Len(frames)] = [Top EXCEPT !.regs[name] = Unset]]
    BY <1>2
  <2> QED BY <2>1, <2>2 DEF DeleteScriptLocal
<1>4. Top.deleting \in Name \cup {Unset}
  BY <1>2 DEF Frame
<1>5. /\ cleared \in Seq(Frame) /\ LayoutOK(cleared)
      /\ Held(cleared, r, name) \subseteq Held(frames, r, name)
      /\ \A q \in Root, n \in Name :
           q # r \/ n # name => Held(cleared, q, n) = Held(frames, q, n)
  <2>1. Cleared(cleared, name)
    BY <1>1, <1>4, ClearRegister
  <2> QED BY <2>1 DEF Cleared
<1> HIDE DEF cleared
<1>6. /\ LayoutOK(frames') /\ Held(frames', r, name) = {}
      /\ \A q \in Root, n \in Name :
           q # r \/ n # name => Held(frames', q, n) = Held(frames, q, n)
  BY <1>2, <1>3, <1>5, ClearedHeld
<1>7. Dropped(ns[r], s1, name)
  BY <1>2, RemovedFacts
<1> HIDE DEF s1
<1> QED BY <1>1, <1>2, <1>6, <1>7, UnbindEffect

\* The tail of a deletion, after the finalizer, takes the meaning whatever
\* the finalizer did.
LEMMA FinishDeleteEffect ==
    ASSUME CopiesInv, FinishDelete
    PROVE  Effect(Top.root, {Top.deleting}, Unset) /\ Top.deleting \in Name
<1> DEFINE r == Top.root
           name == Top.deleting
           f == [Top EXCEPT !.deleting = Unset]
           idle == [frames EXCEPT ![Len(frames)] = f]
           s1 == Removed(ns[r], r, name)
<1>1. frames # <<>> /\ Top.deleting # Unset /\ ns' = [ns EXCEPT ![r] = s1]
  BY DEF FinishDelete
<1>2. /\ frames \in Seq(Frame) /\ LayoutOK(frames) /\ Len(frames) \in 1 .. Len(frames)
      /\ Top = frames[Len(frames)] /\ Top \in Frame /\ r \in Root
      /\ ns[r] \in NamespaceState
  BY <1>1, CopiesFacts, RunningFacts
<1>3. name \in Name
  BY <1>1, <1>2 DEF Frame
<1>4. frames' = ClearedSlots(idle, r, name)
  <2>1. [frames EXCEPT ![Len(frames)].deleting = Unset] = idle
    BY <1>2
  <2> QED BY <2>1 DEF FinishDelete
<1>5. f \in Frame /\ f.root = Top.root /\ f.code = Top.code /\ f.regs = Top.regs
  BY <1>2 DEF Frame
<1> HIDE DEF f
<1>6. Replaced(frames, idle, f, name)
  BY <1>1, <1>2, <1>3, <1>5, ReplaceFacts
<1> HIDE DEF idle, name
<1>7. f.regs[name] # Unset => name \in LocalNames[f.code]
  BY <1>1, <1>3, <1>5, RunningFacts
<1>8. /\ idle \in Seq(Frame) /\ LayoutOK(idle)
      /\ \A q \in Root, n \in Name :
           IF q = f.root /\ n = name
           THEN /\ Held(idle, q, n) \subseteq
                     (Held(frames, q, n) \cup {f.regs[name]}) \ {Unset}
                /\ f.regs[name] # Unset => f.regs[name] \in Held(idle, q, n)
           ELSE Held(idle, q, n) = Held(frames, q, n)
  BY <1>2, <1>6, <1>7, ReplaceHeld
<1>9. f.regs[name] # Unset => f.regs[name] \in Held(frames, r, name)
  BY <1>1, <1>3, <1>5, RunningFacts
<1>10. Held(idle, r, name) \subseteq Held(frames, r, name)
  BY <1>2, <1>3, <1>5, <1>8, <1>9
<1>11. \A q \in Root, n \in Name :
         q # r \/ n # name => Held(idle, q, n) = Held(frames, q, n)
  BY <1>5, <1>8
<1>12. /\ LayoutOK(frames') /\ Held(frames', r, name) = {}
       /\ \A q \in Root, n \in Name :
            q # r \/ n # name => Held(frames', q, n) = Held(frames, q, n)
  BY <1>2, <1>3, <1>4, <1>8, <1>10, <1>11, ClearedHeld
<1>13. Dropped(ns[r], s1, name)
  BY <1>2, <1>3, RemovedFacts
<1> HIDE DEF s1
<1>14. Effect(r, {name}, Unset)
  BY <1>1, <1>2, <1>3, <1>12, <1>13, UnbindEffect
<1> QED BY <1>3, <1>14 DEF name

\* `del` of a global name takes its meaning.
LEMMA DeleteNameEffect ==
    ASSUME CopiesInv, NEW r \in Root, NEW name \in Name, DeleteName(r, name)
    PROVE  Effect(r, {name}, Unset)
<1> DEFINE s1 == Removed(ns[r], r, name)
<1>1. /\ frames \in Seq(Frame) /\ LayoutOK(frames) /\ ns[r] \in NamespaceState
      /\ ns' = [ns EXCEPT ![r] = s1] /\ frames' = ClearedSlots(frames, r, name)
  BY CopiesFacts DEF DeleteName
<1>2. /\ LayoutOK(frames') /\ Held(frames', r, name) = {}
      /\ \A q \in Root, n \in Name :
           q # r \/ n # name => Held(frames', q, n) = Held(frames, q, n)
  BY <1>1, ClearedHeld
<1>3. Dropped(ns[r], s1, name)
  BY <1>1, RemovedFacts
<1> HIDE DEF s1
<1> QED BY <1>1, <1>2, <1>3, UnbindEffect

\* PyModule::remove_attr takes the meaning of the attribute.
LEMMA RemoveAttrEffect ==
    ASSUME CopiesInv, NEW r \in Root, NEW name \in Name, RemoveAttr(r, name)
    PROVE  Effect(r, {name}, Unset)
<1> DEFINE s1 == Removed(ns[r], r, name)
<1>1. /\ frames \in Seq(Frame) /\ LayoutOK(frames) /\ ns[r] \in NamespaceState
      /\ ns' = [ns EXCEPT ![r] = s1] /\ frames' = ClearedSlots(frames, r, name)
  BY CopiesFacts DEF RemoveAttr, ClearedSlots
<1>2. /\ LayoutOK(frames') /\ Held(frames', r, name) = {}
      /\ \A q \in Root, n \in Name :
           q # r \/ n # name => Held(frames', q, n) = Held(frames, q, n)
  BY <1>1, ClearedHeld
<1>3. Dropped(ns[r], s1, name)
  BY <1>1, RemovedFacts
<1> HIDE DEF s1
<1> QED BY <1>1, <1>2, <1>3, UnbindEffect

\* A register cleared before its finalizer runs takes the meaning if it was
\* the only one to hold it, and changes nothing otherwise.
LEMMA BeginDeleteEffect ==
    ASSUME CopiesInv, NEW name \in Name, BeginDelete(name)
    PROVE  Effect(Top.root, {}, Unset) \/ Effect(Top.root, {name}, Unset)
<1> DEFINE r == Top.root
           s == ns[r]
           h == Held(frames, r, name)
           h1 == Held(frames', r, name)
<1>1. /\ frames # <<>> /\ ns' = ns /\ RunsFinalizer(name)
  BY DEF BeginDelete, Running
<1>2. /\ frames \in Seq(Frame) /\ Len(frames) \in 1 .. Len(frames)
      /\ Top = frames[Len(frames)] /\ Top \in Frame /\ r \in Root
      /\ s \in NamespaceState /\ EnvKnown(s)
  BY <1>1, CopiesFacts, RunningFacts
<1>3. frames' = [frames EXCEPT ![Len(frames)] = Rewritten(Top, name, Unset, name)]
  <2>1. frames' = [frames EXCEPT ![Len(frames)] =
                     [Top EXCEPT !.regs[name] = Unset, !.deleting = name]]
    BY <1>2 DEF BeginDelete
  <2> QED BY <2>1 DEF Rewritten
<1>4. /\ LayoutOK(frames') /\ h1 \subseteq h
      /\ \A q \in Root, n \in Name :
           q # r \/ n # name => Held(frames', q, n) = Held(frames, q, n)
  <2>1. Cleared(frames', name)
    BY <1>1, <1>3, ClearRegister
  <2> QED BY <2>1 DEF Cleared
<1>5. PICK u \in Value \cup {Unset} : Means(s, h, r, name, u)
  BY <1>2 DEF CopiesInv, Meaning
<1>6. /\ Top.regs[name] \in Finalizable /\ Top.regs[name] # Unset
      /\ s.values[name] # Top.regs[name]
      /\ ~ s.disabled /\ r \notin FsRoot
  BY <1>1, ConstantAssumption DEF RunsFinalizer, LastBinding, MirrorsDict
<1>7. u = Top.regs[name] /\ h \cap AllocFree = {}
  BY <1>1, <1>5, <1>6, RunningFacts, FinalizerAssumption DEF Means
<1>8. s.values[name] = Unset /\ s.globals[name] = Unset
  BY <1>5, <1>6, <1>7 DEF Means
<1>9. ns' = [ns EXCEPT ![r] = s]
  BY <1>1, <1>2 DEF CopiesInv, TypeOK
<1>10. \A n \in Name : CacheStep(s, Held(frames, r, n), s, Held(frames', r, n), n)
  <2>1. Grows(s, s)
    BY <1>2 DEF Grows, NamespaceState, Version
  <2>2. \A n \in Name : n # name => Held(frames', r, n) = Held(frames, r, n)
    BY <1>2, <1>4
  <2> HIDE DEF s, h, h1
  <2>3. ASSUME NEW n \in Name, n # name
        PROVE  CacheStep(s, Held(frames, r, n), s, Held(frames', r, n), n)
    BY <2>1, <2>2, <2>3 DEF CacheStep
  <2>4. CacheStep(s, h, s, h1, name)
    BY <1>4, <1>7, <2>1 DEF CacheStep
  <2> QED BY <2>3, <2>4 DEF h, h1
<1>11. CASE h1 = {}
  <2>1. ASSUME NEW n \in Name, NEW v \in Value \cup {Unset},
               Means(s, Held(frames, r, n), r, n, v)
        PROVE  Means(s, Held(frames', r, n), r, n, IF n \in {name} THEN Unset ELSE v)
    <3>1. CASE n = name
      <4>1. Means(s, h1, r, name, Unset)
        BY <1>4, <1>6, <1>8, <1>11, <2>1, <3>1 DEF Means
      <4> QED BY <3>1, <4>1
    <3>2. CASE n # name
      BY <1>2, <1>4, <2>1, <3>2
    <3> QED BY <3>1, <3>2
  <2>2. Effect(r, {name}, Unset)
    BY <1>2, <1>4, <1>9, <1>10, <2>1, OneRoot
  <2> QED BY <2>2
<1>12. CASE h1 # {}
  <2>1. ASSUME NEW n \in Name, NEW v \in Value \cup {Unset},
               Means(s, Held(frames, r, n), r, n, v)
        PROVE  Means(s, Held(frames', r, n), r, n, IF n \in {} THEN Unset ELSE v)
    <3>1. CASE n = name
      <4>1. Means(s, h1, r, name, v)
        BY <1>4, <1>6, <1>8, <1>12, <2>1, <3>1 DEF Means
      <4> QED BY <3>1, <4>1
    <3>2. CASE n # name
      BY <1>2, <1>4, <2>1, <3>2
    <3> QED BY <3>1, <3>2
  <2>2. Effect(r, {}, Unset)
    BY <1>2, <1>4, <1>9, <1>10, <2>1, OneRoot
  <2> QED BY <2>2
<1> QED BY <1>11, <1>12

\* Entering a Script frame changes no meaning.
LEMMA StartEffect ==
    ASSUME CopiesInv, NEW r \in Root, NEW code \in Code, StartScript(r, code)
    PROVE  Effect(r, {}, Unset)
<1> DEFINE f == [root |-> r, code |-> code, regs |-> [n \in Name |-> Unset],
                 deleting |-> Unset]
           s1 == TurnEpoch(ns[r], code)
<1>1. /\ frames \in Seq(Frame) /\ LayoutOK(frames)
      /\ ns[r] \in NamespaceState /\ EnvKnown(ns[r])
      /\ ns' = [ns EXCEPT ![r] = s1] /\ frames' = Append(frames, f)
  BY CopiesFacts DEF StartScript
<1>2. f \in Frame /\ \A n \in Name : f.regs[n] = Unset
  BY DEF Frame, Binding
<1>3. Turned(ns[r], s1, code)
  BY <1>1, TurnEpochFacts
<1> HIDE DEF f, s1
<1>4. /\ LayoutOK(frames')
      /\ \A q \in Root, n \in Name : Held(frames', q, n) = Held(frames, q, n)
  BY <1>1, <1>2, PushHeld
<1>5. EnvKnown(s1)
  BY <1>1, <1>3 DEF EnvKnown, Turned
<1>6. ASSUME NEW n \in Name, NEW v \in Value \cup {Unset}, NEW h,
             Means(ns[r], h, r, n, v)
      PROVE  Means(s1, h, r, n, v) /\ CacheStep(ns[r], h, s1, h, n)
  BY <1>3, <1>6 DEF Means, CacheStep, Turned
<1>7. \A n \in Name, v \in Value \cup {Unset} :
        Means(ns[r], Held(frames, r, n), r, n, v) =>
          /\ Means(s1, Held(frames', r, n), r, n, IF n \in {} THEN Unset ELSE v)
          /\ CacheStep(ns[r], Held(frames, r, n), s1, Held(frames', r, n), n)
  BY <1>4, <1>6
<1> QED BY <1>1, <1>4, <1>5, <1>7, OneRoot

\* Leaving a Script frame changes no meaning: what its registers held is
\* written back by name.
LEMMA EndEffect ==
    ASSUME CopiesInv, EndScript
    PROVE  Effect(Top.root, {}, Unset)
<1> DEFINE r == Top.root
           regs == Top.regs
           written == {n \in Name : regs[n] # Unset}
           outer == SubSeq(frames, 1, Len(frames) - 1)
           t == TurnEpoch(ns[r], Top.code)
           s1 == AssignedNames(t, r, written, regs)
<1>1. /\ frames # <<>> /\ ns' = [ns EXCEPT ![r] = s1]
      /\ frames' = SetSlots(outer, r, written, regs)
  BY DEF EndScript, Running
<1>2. /\ frames \in Seq(Frame) /\ LayoutOK(frames) /\ Top = frames[Len(frames)]
      /\ r \in Root /\ Top.code \in Code /\ regs \in Binding
      /\ ns[r] \in NamespaceState /\ EnvKnown(ns[r])
  BY <1>1, CopiesFacts, RunningFacts
<1>3. written \in SUBSET Name /\ \A n \in Name : n \in written <=> regs[n] # Unset
  OBVIOUS
<1>4. \A n \in written : regs[n] \in Held(frames, r, n)
  BY <1>1, RunningFacts
<1>5. Popped(frames, outer)
  BY <1>1, <1>2, PopFacts
<1>6. Turned(ns[r], t, Top.code)
  BY <1>2, TurnEpochFacts
<1> HIDE DEF written, outer, t, regs
<1>7. t \in NamespaceState
  BY <1>6 DEF Turned
<1>8. Wrote(t, s1, r, written, regs)
  BY <1>2, <1>3, <1>7, AssignedFacts
<1>9. /\ outer \in Seq(Frame) /\ LayoutOK(outer)
      /\ \A q \in Root, n \in Name :
           r # q \/ regs[n] = Unset => Held(outer, q, n) = Held(frames, q, n)
  BY <1>2, <1>5, PopHeld DEF regs
<1>10. Synchronized(outer, frames', r, written, regs)
  BY <1>1, <1>2, <1>3, <1>9, SetSlotsFacts
<1> HIDE DEF s1
<1>11. /\ LayoutOK(frames')
       /\ \A q \in Root, n \in Name :
            IF q = r /\ n \in written
            THEN Held(frames', q, n) \subseteq {regs[n]} \ {Unset}
            ELSE Held(frames', q, n) = Held(outer, q, n)
  BY <1>9, <1>10, SyncHeld
<1>12. EnvKnown(t)
  BY <1>2, <1>6 DEF EnvKnown, Turned
<1>13. EnvKnown(s1)
  BY <1>3, <1>8, <1>12, WroteKnown
<1>14. s1 \in NamespaceState
  BY <1>8 DEF Wrote, Touches
<1>15. Grows(ns[r], s1)
  <2>1. Grows(ns[r], t) /\ Grows(t, s1)
    BY <1>6, <1>8 DEF Turned, Wrote, Touches
  <2>2. \A a, b, c \in Version : a <= b /\ b <= c => a <= c
    BY ConstantAssumption DEF Version
  <2> QED BY <1>2, <1>7, <1>14, <2>1, <2>2 DEF Grows, NamespaceState
<1>16. ASSUME NEW n \in Name, NEW v \in Value \cup {Unset},
              Means(ns[r], Held(frames, r, n), r, n, v)
       PROVE  /\ Means(s1, Held(frames', r, n), r, n, v)
              /\ CacheStep(ns[r], Held(frames, r, n), s1, Held(frames', r, n), n)
  <2> DEFINE h == Held(frames, r, n)
             h1 == Held(frames', r, n)
  <2>1. Means(t, h, r, n, v)
    BY <1>6, <1>16 DEF Means, Turned
  <2>2. \/ n \in written /\ v = regs[n] /\ v # Unset /\ h1 \subseteq {v} \ {Unset}
        \/ n \notin written /\ v = v /\ h1 = h
    <3>1. CASE n \in written
      <4>1. v = regs[n] /\ v # Unset
        BY <1>3, <1>4, <1>16, <3>1 DEF Means
      <4> QED BY <1>2, <1>11, <3>1, <4>1
    <3>2. CASE n \notin written
      BY <1>2, <1>3, <1>9, <1>11, <3>2
    <3> QED BY <3>1, <3>2
  <2> HIDE DEF h, h1
  <2>3. Means(s1, h1, r, n, v) /\ CacheStep(t, h, s1, h1, n)
    BY <1>7, <1>8, <2>1, <2>2, WroteMeans
  <2>4. CacheStep(ns[r], h, s1, h1, n)
    <3>1. /\ Interested(ns[r].value_interest, n) => Interested(t.value_interest, n)
          /\ Interested(ns[r].fallback_interest, n) => Interested(t.fallback_interest, n)
      BY <1>6 DEF Turned, Grows, Interested
    <3> QED BY <1>6, <1>15, <2>3, <3>1 DEF CacheStep, Turned
  <2> QED BY <2>3, <2>4 DEF h, h1
<1>17. \A n \in Name, v \in Value \cup {Unset} :
         Means(ns[r], Held(frames, r, n), r, n, v) =>
           /\ Means(s1, Held(frames', r, n), r, n, IF n \in {} THEN Unset ELSE v)
           /\ CacheStep(ns[r], Held(frames, r, n), s1, Held(frames', r, n), n)
  BY <1>16
<1>18. \A q \in Root, n \in Name : q # r => Held(frames', q, n) = Held(frames, q, n)
  BY <1>9, <1>11
<1> QED BY <1>1, <1>2, <1>11, <1>13, <1>17, <1>18, OneRoot

\* The newest bound register is one of those that hold the name.
LEMMA FastLocalHeld ==
    ASSUME frames \in Seq(Frame), NEW r \in Root, NEW n \in Name
    PROVE  /\ Unset \notin Held(frames, r, n)
           /\ BoundSlots(r, n) = {} <=> Held(frames, r, n) = {}
           /\ Held(frames, r, n) = {} => FastLocal(r, n) = Unset
           /\ Held(frames, r, n) # {} => FastLocal(r, n) \in Held(frames, r, n)
<1>1. DOMAIN frames = 1 .. Len(frames)
  OBVIOUS
<1>2. Unset \notin Held(frames, r, n)
  BY DEF Held
<1>3. BoundSlots(r, n) = {} <=> Held(frames, r, n) = {}
  BY <1>1 DEF BoundSlots, Held
<1>4. CASE BoundSlots(r, n) = {}
  BY <1>2, <1>3, <1>4 DEF FastLocal
<1>5. CASE BoundSlots(r, n) # {}
  <2> DEFINE i == Innermost(BoundSlots(r, n))
  <2>1. i \in BoundSlots(r, n)
    BY <1>5, FastLocalType
  <2>2. FastLocal(r, n) = frames[i].regs[n]
    BY <1>5 DEF FastLocal
  <2> HIDE DEF i
  <2>3. i \in 1 .. Len(frames) /\ frames[i].root = r /\ frames[i].regs[n] # Unset
    BY <1>1, <2>1 DEF BoundSlots
  <2>4. frames[i].regs[n] \in Held(frames, r, n)
    BY <2>3, HeldIntro
  <2> QED BY <1>2, <1>3, <1>5, <2>2, <2>4
<1> QED BY <1>4, <1>5

\* Handing out the globals dictionary changes no meaning: the snapshot finds
\* every name wherever it is.
LEMMA ExposeEffect ==
    ASSUME CopiesInv, NEW r \in Root, ExposeGlobals(r)
    PROVE  Effect(r, {}, Unset)
<1> DEFINE s == ns[r]
           s1 == [s EXCEPT !.disabled = TRUE, !.globals = Snapshot(r),
                     !.module_version = IF r \in FsRoot THEN MaxVersion ELSE @]
<1>1. /\ frames \in Seq(Frame) /\ LayoutOK(frames) /\ s \in NamespaceState /\ EnvKnown(s)
      /\ frames' = frames /\ ~ s.disabled
  BY CopiesFacts DEF ExposeGlobals
<1>2. ns' = [ns EXCEPT ![r] = s1]
  BY DEF ExposeGlobals, CopiesInv, TypeOK
<1>3. /\ s1.disabled /\ s1.globals = Snapshot(r) /\ s1.values = s.values
      /\ s1.env_interest = s.env_interest /\ Grows(s, s1)
  BY <1>1 DEF NamespaceState, Version, Grows
<1> HIDE DEF s1
<1>4. EnvKnown(s1)
  BY <1>1, <1>3 DEF EnvKnown
<1>5. ASSUME NEW n \in Name, NEW v \in Value \cup {Unset},
             Means(s, Held(frames, r, n), r, n, v)
      PROVE  /\ Means(s1, Held(frames', r, n), r, n, IF n \in {} THEN Unset ELSE v)
             /\ CacheStep(s, Held(frames, r, n), s1, Held(frames', r, n), n)
  <2> DEFINE h == Held(frames, r, n)
             x == FastLocal(r, n)
  <2>1. /\ Unset \notin h /\ h = {} => x = Unset
        /\ h # {} => x \in h
    BY <1>1, FastLocalHeld
  <2>2. Snapshot(r)[n] = CASE x # Unset -> x
                           [] x = Unset /\ s.values[n] # Unset -> s.values[n]
                           [] OTHER -> s.globals[n]
    BY DEF Snapshot
  <2> HIDE DEF h, x, s
  <2>3. Snapshot(r)[n] = v
    BY <1>1, <1>5, <2>1, <2>2 DEF Means, h
  <2>4. Means(s1, h, r, n, v) /\ CacheStep(s, h, s1, h, n)
    BY <1>3, <1>5, <2>3 DEF Means, CacheStep, h
  <2> QED BY <1>1, <2>4 DEF h
<1> QED BY <1>1, <1>2, <1>4, <1>5, OneRoot

\* Whatever mutates an escaped dictionary and synchronizes the registers
\* gives the mutated names that meaning.
LEMMA AliasEffect ==
    ASSUME CopiesInv, NEW r \in Root, NEW names \in SUBSET Name,
           NEW value \in Value \cup {Unset}, NEW s1, ns[r].disabled,
           ns' = [ns EXCEPT ![r] = s1], Mutated(ns[r], s1, names, value),
           frames' = SetSlots(frames, r, names, [n \in Name |-> value])
    PROVE  Effect(r, names, value)
<1> DEFINE new == [n \in Name |-> value]
<1>1. /\ frames \in Seq(Frame) /\ LayoutOK(frames)
      /\ ns[r] \in NamespaceState /\ EnvKnown(ns[r])
  BY CopiesFacts
<1>2. new \in Binding /\ \A n \in Name : new[n] = value
  BY ConstantBinding
<1>3. frames' = SetSlots(frames, r, names, new)
  OBVIOUS
<1> HIDE DEF new
<1>4. Synchronized(frames, frames', r, names, new)
  BY <1>1, <1>2, <1>3, SetSlotsFacts
<1>5. /\ LayoutOK(frames')
      /\ \A q \in Root, n \in Name :
           IF q = r /\ n \in names
           THEN Held(frames', q, n) \subseteq {new[n]} \ {Unset}
           ELSE Held(frames', q, n) = Held(frames, q, n)
  BY <1>1, <1>4, SyncHeld
<1>6. EnvKnown(s1)
  BY <1>1 DEF EnvKnown, Mutated
<1>7. ASSUME NEW n \in Name, NEW v \in Value \cup {Unset},
             Means(ns[r], Held(frames, r, n), r, n, v)
      PROVE  /\ Means(s1, Held(frames', r, n), r, n, IF n \in names THEN value ELSE v)
             /\ CacheStep(ns[r], Held(frames, r, n), s1, Held(frames', r, n), n)
  <2>1. /\ n \in names => Held(frames', r, n) \subseteq {value} \ {Unset}
        /\ n \notin names => Held(frames', r, n) = Held(frames, r, n)
    BY <1>2, <1>5
  <2> QED BY <1>1, <1>7, <2>1, MutatedMeans
<1> QED BY <1>5, <1>6, <1>7, OneRoot

\* d[name] = value and del d[name] through an alias.
LEMMA AliasKeyEffect ==
    ASSUME CopiesInv, NEW r \in Root, NEW name \in Name,
           NEW value \in Value \cup {Unset}, AliasKeyMutation(r, name, value)
    PROVE  Effect(r, {name}, value)
<1> DEFINE g == [ns[r].globals EXCEPT ![name] = value]
           s1 == BumpStructure([ns[r] EXCEPT !.globals = g], 1)
           names == {name}
<1>1. ns[r] \in NamespaceState
  BY CopiesFacts
<1>2. /\ g \in Binding /\ names \in SUBSET Name
      /\ \A n \in Name : g[n] = IF n \in names THEN value ELSE ns[r].globals[n]
  BY <1>1 DEF NamespaceState, Binding
<1>3. /\ ns[r].disabled /\ ns' = [ns EXCEPT ![r] = s1]
      /\ frames' = SetSlots(frames, r, names, [n \in Name |-> value])
  BY <1>1 DEF AliasKeyMutation, NamespaceState
<1> HIDE DEF g, names
<1>4. Mutated(ns[r], s1, names, value)
  BY <1>1, <1>2, MutatedFacts
<1> HIDE DEF s1
<1>5. Effect(r, names, value)
  BY <1>2, <1>3, <1>4, AliasEffect
<1> QED BY <1>5 DEF names

\* d.clear() through an alias.
LEMMA AliasFullEffect ==
    ASSUME CopiesInv, NEW r \in Root, AliasFullMutation(r)
    PROVE  Effect(r, Name, Unset)
<1> DEFINE g == [n \in Name |-> Unset]
           s1 == BumpStructure([ns[r] EXCEPT !.globals = g], 1)
<1>1. ns[r] \in NamespaceState /\ Unset \in Value \cup {Unset} /\ Name \in SUBSET Name
  BY CopiesFacts
<1>2. g \in Binding /\ \A n \in Name : g[n] = IF n \in Name THEN Unset
                                              ELSE ns[r].globals[n]
  BY DEF Binding
<1>3. /\ ns[r].disabled /\ ns' = [ns EXCEPT ![r] = s1]
      /\ frames' = SetSlots(frames, r, Name, [n \in Name |-> Unset])
  BY DEF AliasFullMutation
<1> HIDE DEF g
<1>4. Mutated(ns[r], s1, Name, Unset)
  BY <1>1, <1>2, MutatedFacts
<1> HIDE DEF s1
<1> QED BY <1>1, <1>3, <1>4, AliasEffect

\* A step that touches neither a namespace nor a frame changes no meaning.
LEMMA IdleEffect ==
    ASSUME CopiesInv, UNCHANGED <<ns, frames>>
    PROVE  Effect(Unset, {}, Unset)
<1>1. \A r \in Root, n \in Name :
        CacheStep(ns[r], Held(frames, r, n), ns[r], Held(frames, r, n), n)
  BY CopiesFacts, CacheStepSame
<1> QED BY <1>1, CopiesFacts DEF Effect, Meaning, MeaningAfter

-----------------------------------------------------------------------------
(* The invariant is inductive *)

\* A seeded root holds each dunder in EnvValues and in the dictionary alike.
LEMMA InitCopies == Init => CopiesInv
<1> SUFFICES ASSUME Init PROVE CopiesInv
  OBVIOUS
<1>1. TypeOK
  BY InitType
<1>2. frames = <<>> /\ ns = [r \in Root |-> FreshNamespace]
  BY DEF Init
<1>3. LayoutOK(frames) /\ \A r \in Root, n \in Name : Held(frames, r, n) = {}
  BY <1>2 DEF LayoutOK, Held
<1>4. EnvKnown(FreshNamespace)
  <2> DEFINE seeded == {n \in Name : Seed[n] # Unset}
  <2>1. \A n \in seeded : Mask[n] \subseteq MasksOf(seeded)
    BY DEF MasksOf
  <2>2. /\ FreshNamespace.values = Seed
        /\ FreshNamespace.env_interest = MasksOf(seeded)
    BY DEF FreshNamespace
  <2> QED BY <2>1, <2>2 DEF EnvKnown, Interested
<1>5. ASSUME NEW r \in Root, NEW n \in Name
      PROVE  Meaning(r, n, Seed[n]) /\ Seed[n] \in Value \cup {Unset}
  <2>1. /\ ns[r].values = Seed /\ ns[r].globals = Seed /\ ~ ns[r].disabled
    BY <1>2 DEF FreshNamespace
  <2>2. Held(frames, r, n) = {}
    BY <1>3
  <2> QED BY <2>1, <2>2, ConstantAssumption DEF Meaning, Means
<1>6. \A r \in Root : EnvKnown(ns[r])
  BY <1>2, <1>4
<1> QED BY <1>1, <1>3, <1>5, <1>6 DEF CopiesInv

\* Every step gives at most some names of one root one meaning.
LEMMA StepEffect ==
    ASSUME CopiesInv, [Next]_vars
    PROVE  \E r0 \in Root \cup {Unset}, names \in SUBSET Name,
              w \in Value \cup {Unset} : Effect(r0, names, w)
<1>0. /\ \A name \in Name : {name} \in SUBSET Name
      /\ {} \in SUBSET Name /\ Name \in SUBSET Name
      /\ \A v \in Value : v \in Value \cup {Unset}
      /\ \A r \in Root : r \in Root \cup {Unset}
      /\ Unset \in Value \cup {Unset} /\ Unset \in Root \cup {Unset}
  OBVIOUS
<1>a. frames # <<>> => Top.root \in Root \cup {Unset}
  BY RunningFacts
<1>1. CASE \E site \in Site, r \in Root : LoadGlobal(site, r)
  BY <1>0, <1>1, LoadEffect
<1>2. CASE \E r \in Root, name \in Name, value \in Value : AssignName(r, name, value)
  BY <1>0, <1>2, AssignEffect
<1>3. CASE \E name \in Name, value \in Value : StoreScriptLocal(name, value)
  <2>1. PICK name \in Name, value \in Value : StoreScriptLocal(name, value)
    BY <1>3
  <2>2. Effect(Top.root, {name}, value) /\ frames # <<>>
    BY <2>1, StoreEffect DEF StoreScriptLocal, Running
  <2> QED BY <1>0, <1>a, <2>2
<1>4. CASE \E name \in Name, raise \in BOOLEAN : DeleteScriptLocal(name, raise)
  <2>1. PICK name \in Name, raise \in BOOLEAN : DeleteScriptLocal(name, raise)
    BY <1>4
  <2>2. Effect(Top.root, {name}, Unset) /\ frames # <<>>
    BY <2>1, DeleteLocalEffect DEF DeleteScriptLocal, Running
  <2> QED BY <1>0, <1>a, <2>2
<1>5. CASE \E name \in Name : BeginDelete(name)
  <2>1. PICK name \in Name : BeginDelete(name)
    BY <1>5
  <2>2. (Effect(Top.root, {}, Unset) \/ Effect(Top.root, {name}, Unset)) /\ frames # <<>>
    BY <2>1, BeginDeleteEffect DEF BeginDelete, Running
  <2> QED BY <1>0, <1>a, <2>2
<1>6. CASE FinishDelete
  <2>1. Effect(Top.root, {Top.deleting}, Unset) /\ Top.deleting \in Name /\ frames # <<>>
    BY <1>6, FinishDeleteEffect DEF FinishDelete
  <2> QED BY <1>0, <1>a, <2>1
<1>7. CASE \E r \in Root, name \in Name : DeleteName(r, name)
  BY <1>0, <1>7, DeleteNameEffect
<1>8. CASE \E r \in Root, code \in Code : StartScript(r, code)
  BY <1>0, <1>8, StartEffect
<1>9. CASE EndScript
  <2>1. Effect(Top.root, {}, Unset) /\ frames # <<>>
    BY <1>9, EndEffect DEF EndScript, Running
  <2> QED BY <1>0, <1>a, <2>1
<1>10. CASE \E r \in Root : ExposeGlobals(r)
  BY <1>0, <1>10, ExposeEffect
<1>11. CASE \E r \in Root, name \in Name, value \in Value \cup {Unset} :
              AliasKeyMutation(r, name, value)
  BY <1>0, <1>11, AliasKeyEffect
<1>12. CASE \E r \in Root : AliasFullMutation(r)
  BY <1>0, <1>12, AliasFullEffect
<1>13. CASE \E r \in Root, name \in Name, value \in Value : InsertAttr(r, name, value)
  BY <1>0, <1>13, InsertEffect
<1>14. CASE \E r \in Root, name \in Name : RemoveAttr(r, name)
  BY <1>0, <1>14, RemoveAttrEffect
<1>15. CASE \E name \in Name, value \in Value \cup {Unset} : BuiltinsMutation(name, value)
  BY <1>0, <1>15, IdleEffect DEF BuiltinsMutation
<1>16. CASE UNCHANGED vars
  BY <1>0, <1>16, IdleEffect DEF vars
<1> QED BY <1>1, <1>2, <1>3, <1>4, <1>5, <1>6, <1>7, <1>8, <1>9, <1>10, <1>11,
           <1>12, <1>13, <1>14, <1>15, <1>16 DEF Next

\* Such a step leaves every name with one meaning.
LEMMA NextCopies == CopiesInv /\ [Next]_vars => CopiesInv'
<1> SUFFICES ASSUME CopiesInv, [Next]_vars PROVE CopiesInv'
  OBVIOUS
<1>1. TypeOK'
  BY NextType DEF CopiesInv
<1>2. PICK r0 \in Root \cup {Unset}, names \in SUBSET Name, w \in Value \cup {Unset} :
        Effect(r0, names, w)
  BY StepEffect
<1>3. LayoutOK(frames') /\ \A r \in Root : EnvKnown(ns'[r])
  BY <1>2 DEF Effect
<1>4. ASSUME NEW r \in Root, NEW n \in Name
      PROVE  \E v \in Value \cup {Unset} : MeaningAfter(r, n, v)
  <2>1. PICK v \in Value \cup {Unset} : Meaning(r, n, v)
    BY DEF CopiesInv
  <2>2. MeaningAfter(r, n, IF r = r0 /\ n \in names THEN w ELSE v)
    BY <1>2, <2>1 DEF Effect
  <2>3. (IF r = r0 /\ n \in names THEN w ELSE v) \in Value \cup {Unset}
    OBVIOUS
  <2> QED BY <2>2, <2>3
<1> QED BY <1>1, <1>3, <1>4 DEF CopiesInv, Meaning, MeaningAfter

-----------------------------------------------------------------------------
(* What the invariant gives *)

\* What a name means is what Python code sees.
MeaningVisible ==
    \A r \in Root, n \in Name, v \in Value \cup {Unset} :
        TypeOK /\ Meaning(r, n, v) => Visible(r, n) = v

\* That is so in every state.
LEMMA VisibleIs == MeaningVisible
<1> SUFFICES ASSUME NEW r \in Root, NEW n \in Name, NEW v \in Value \cup {Unset},
                    TypeOK, Meaning(r, n, v)
             PROVE  Visible(r, n) = v
  BY DEF MeaningVisible
<1>1. frames \in Seq(Frame) /\ ns[r] \in NamespaceState
  BY DEF TypeOK
<1>2. /\ Held(frames, r, n) = {} => FastLocal(r, n) = Unset
      /\ Held(frames, r, n) # {} => FastLocal(r, n) \in Held(frames, r, n)
  BY <1>1, FastLocalHeld
<1>3. Means(ns[r], Held(frames, r, n), r, n, v) /\ ns[r].disabled \in BOOLEAN
  BY <1>1 DEF Meaning, NamespaceState
<1> QED BY <1>2, <1>3 DEF Means, Visible

\* Before and after a step, what Python code sees changes as the meanings do.
LEMMA EffectVisible ==
    ASSUME CopiesInv, TypeOK', NEW r0, NEW names,
           NEW w \in Value \cup {Unset}, Effect(r0, names, w),
           NEW r \in Root, NEW n \in Name
    PROVE  Visible(r, n)' = IF r = r0 /\ n \in names THEN w ELSE Visible(r, n)
<1>1. PICK v \in Value \cup {Unset} : Meaning(r, n, v)
  BY DEF CopiesInv
<1>2. Visible(r, n) = v
  BY <1>1, VisibleIs DEF CopiesInv, MeaningVisible
<1> DEFINE u == IF r = r0 /\ n \in names THEN w ELSE v
<1>3. u \in Value \cup {Unset}
  OBVIOUS
<1>4. MeaningAfter(r, n, u)
  BY <1>1 DEF Effect
<1>5. MeaningVisible'
  BY VisibleIs, PTL
<1> HIDE DEF u
<1>6. Meaning(r, n, u)'
  BY <1>4 DEF Meaning, MeaningAfter
<1>7. Visible(r, n)' = u
  BY <1>3, <1>5, <1>6 DEF MeaningVisible
<1> QED BY <1>2, <1>7 DEF u

\* In every reachable state every name of every module has one meaning.
LEMMA CopiesInvariant == Spec => []CopiesInv
<1>1. Init => CopiesInv
  BY InitCopies
<1>2. CopiesInv /\ [Next]_vars => CopiesInv'
  BY NextCopies
<1> QED BY <1>1, <1>2, PTL DEF Spec

\* All copies of one module binding agree, in any number of roots, frames,
\* names and values (sync_module_global_binding, assign_name,
\* write_back_script_locals, the alias notifications).
THEOREM CopiesAlwaysAgree == Spec => []CopiesAgree
<1>1. CopiesInv => CopiesAgree
  <2> SUFFICES ASSUME CopiesInv, NEW r \in Root, NEW name \in Name
               PROVE  /\ \A i \in BoundSlots(r, name) :
                           frames[i].regs[name] = Visible(r, name)
                      /\ MirrorsDict(ns[r], r) => ns[r].globals[name] = Visible(r, name)
    BY DEF CopiesAgree
  <2>1. PICK v \in Value \cup {Unset} : Meaning(r, name, v)
    BY DEF CopiesInv
  <2>2. Visible(r, name) = v
    BY <2>1, VisibleIs DEF CopiesInv, MeaningVisible
  <2>3. ASSUME NEW i \in BoundSlots(r, name) PROVE frames[i].regs[name] = v
    <3>1. /\ frames \in Seq(Frame) /\ i \in 1 .. Len(frames)
          /\ frames[i].root = r /\ frames[i].regs[name] # Unset
      BY CopiesFacts DEF BoundSlots
    <3>2. frames[i].regs[name] \in Held(frames, r, name)
      BY <3>1, HeldIntro
    <3> QED BY <2>1, <3>2 DEF Meaning, Means
  <2>4. MirrorsDict(ns[r], r) => ns[r].globals[name] = v
    BY <2>1 DEF Meaning, Means, MirrorsDict
  <2> QED BY <2>2, <2>3, <2>4
<1> QED BY <1>1, CopiesInvariant, PTL

\* Filling a cache slot, entering and leaving a Script frame and handing out
\* the dictionary never change what a name means, though each of them moves
\* bindings (load_global_cached, register_namespace_fastlocals,
\* write_back_script_locals, sync_module_env_to_globals_dict).
THEOREM MovesNeverShow == Spec => MovesAreInvisible
<1> DEFINE Moves == \/ \E site \in Site, r \in Root : LoadGlobal(site, r)
                    \/ \E r \in Root, code \in Code : StartScript(r, code)
                    \/ EndScript
                    \/ \E r \in Root : ExposeGlobals(r)
           Same == \A r \in Root, name \in Name : Visible(r, name)' = Visible(r, name)
<1>1. CopiesInv /\ [Next]_vars => [Moves => Same]_vars
  <2> SUFFICES ASSUME CopiesInv, [Next]_vars, Moves PROVE Same
    OBVIOUS
  <2>1. TypeOK'
    BY NextType DEF CopiesInv
  <2>2. \E r0 : Effect(r0, {}, Unset)
    BY LoadEffect, StartEffect, EndEffect, ExposeEffect
  <2>3. PICK r0 : Effect(r0, {}, Unset)
    BY <2>2
  <2>4. ASSUME NEW r \in Root, NEW name \in Name
        PROVE  Visible(r, name)' = Visible(r, name)
    <3>1. Unset \in Value \cup {Unset}
      OBVIOUS
    <3> DEFINE none == {}
    <3>2. Effect(r0, none, Unset) /\ ~ (r = r0 /\ name \in none)
      BY <2>3
    <3> HIDE DEF none
    <3> QED BY <2>1, <3>1, <3>2, EffectVisible
  <2> QED BY <2>4
<1> HIDE DEF Moves, Same
<1>2. Spec => [][Moves => Same]_vars
  BY <1>1, CopiesInvariant, PTL DEF Spec
<1> QED BY <1>2 DEF MovesAreInvisible, Moves, Same

-----------------------------------------------------------------------------
(* One mapping per module *)

\* Only handing out the dictionary makes a namespace an escaped one.
LEMMA EscapedKept ==
    ASSUME CopiesInv, [Next]_vars, ~ \E r \in Root : ExposeGlobals(r)
    PROVE  \A r \in Root : ns'[r].disabled = ns[r].disabled
<1> DEFINE Kept(r, s1) == ns' = [ns EXCEPT ![r] = s1] /\ s1.disabled = ns[r].disabled
<1>0. /\ TypeOK /\ frames \in Seq(Frame)
      /\ ns \in [Root -> NamespaceState]
      /\ \A r \in Root : ns[r] \in NamespaceState
  BY CopiesFacts DEF TypeOK
<1>a. ASSUME NEW r \in Root, NEW s1, Kept(r, s1)
      PROVE  \A q \in Root : ns'[q].disabled = ns[q].disabled
  BY <1>0, <1>a
<1>b. ASSUME NEW r \in Root, NEW name \in Name
      PROVE  Removed(ns[r], r, name).disabled = ns[r].disabled
  BY <1>0, RemovedFacts DEF Dropped, Touches
<1>c. frames # <<>> => Top.root \in Root /\ Top.code \in Code /\ Top.regs \in Binding
  BY RunningFacts
<1>1. ASSUME NEW site \in Site, NEW r \in Root, LoadGlobal(site, r)
      PROVE  \E s1 : Kept(r, s1)
  <2>1. /\ RegisterInterest(ns[r], site, r).disabled = ns[r].disabled
        /\ SyncName(ns[r], SiteName[site]).disabled = ns[r].disabled
    BY <1>0 DEF RegisterInterest, SyncName, NamespaceState
  <2> QED BY <1>1, <2>1 DEF LoadGlobal
<1>2. ASSUME NEW r \in Root, NEW name \in Name, NEW value \in Value,
             AssignName(r, name, value)
      PROVE  \E s1 : Kept(r, s1)
  <2>1. [n \in Name |-> value] \in Binding /\ {name} \in SUBSET Name
    BY ConstantBinding
  <2>2. Wrote(ns[r], AssignedNames(ns[r], r, {name}, [n \in Name |-> value]), r, {name},
              [n \in Name |-> value])
    BY <1>0, <2>1, AssignedFacts
  <2> QED BY <1>2, <2>2 DEF AssignName, Wrote, Touches
<1>3. ASSUME NEW name \in Name, NEW value \in Value, StoreScriptLocal(name, value)
      PROVE  Top.root \in Root /\ \E s1 : Kept(Top.root, s1)
  <2>1. Top.root \in Root
    BY <1>3, <1>c DEF StoreScriptLocal, Running
  <2>2. SyncedWrite(ns[Top.root], Top.root, name, value).disabled = ns[Top.root].disabled
    BY <1>0, <2>1, SyncedFacts DEF Stored
  <2> QED BY <1>3, <2>1, <2>2 DEF StoreScriptLocal
<1>4. ASSUME NEW name \in Name, NEW raise \in BOOLEAN, DeleteScriptLocal(name, raise)
      PROVE  Top.root \in Root /\ \E s1 : Kept(Top.root, s1)
  <2>1. Top.root \in Root
    BY <1>4, <1>c DEF DeleteScriptLocal, Running
  <2> QED BY <1>4, <1>b, <2>1 DEF DeleteScriptLocal
<1>6. ASSUME FinishDelete
      PROVE  Top.root \in Root /\ \E s1 : Kept(Top.root, s1)
  <2>1. Top.root \in Root
    BY <1>6, <1>c DEF FinishDelete
  <2>2. Top.deleting \in Name
    BY <1>6, FinishDeleteEffect
  <2> QED BY <1>6, <1>b, <2>1, <2>2 DEF FinishDelete
<1>7. ASSUME NEW r \in Root, NEW name \in Name, DeleteName(r, name)
      PROVE  \E s1 : Kept(r, s1)
  BY <1>7, <1>b DEF DeleteName
<1>8. ASSUME NEW r \in Root, NEW code \in Code, StartScript(r, code)
      PROVE  \E s1 : Kept(r, s1)
  <2>1. TurnEpoch(ns[r], code).disabled = ns[r].disabled
    BY <1>0, TurnEpochFacts DEF Turned
  <2> QED BY <1>8, <2>1 DEF StartScript
<1>9. ASSUME EndScript
      PROVE  Top.root \in Root /\ \E s1 : Kept(Top.root, s1)
  <2> DEFINE r == Top.root
             written == {n \in Name : Top.regs[n] # Unset}
             t == TurnEpoch(ns[r], Top.code)
  <2>1. r \in Root /\ Top.code \in Code /\ Top.regs \in Binding /\ written \in SUBSET Name
    BY <1>9, <1>c DEF EndScript, Running
  <2>2. Turned(ns[r], t, Top.code)
    BY <1>0, <2>1, TurnEpochFacts
  <2>3. t \in NamespaceState /\ t.disabled = ns[r].disabled
    BY <2>2 DEF Turned
  <2> HIDE DEF t
  <2>4. Wrote(t, AssignedNames(t, r, written, Top.regs), r, written, Top.regs)
    BY <2>1, <2>3, AssignedFacts
  <2>5. AssignedNames(t, r, written, Top.regs).disabled = ns[r].disabled
    BY <2>3, <2>4 DEF Wrote, Touches
  <2>6. ns' = [ns EXCEPT ![r] = AssignedNames(t, r, written, Top.regs)]
    BY <1>9 DEF EndScript, t
  <2> QED BY <2>1, <2>5, <2>6
<1>11. ASSUME NEW r \in Root, NEW name \in Name, NEW value \in Value \cup {Unset},
              AliasKeyMutation(r, name, value)
       PROVE  \E s1 : Kept(r, s1)
  <2>1. BumpStructure([ns[r] EXCEPT !.globals[name] = value], 1).disabled = ns[r].disabled
    BY <1>0 DEF BumpStructure, NamespaceState
  <2> QED BY <1>11, <2>1 DEF AliasKeyMutation
<1>12. ASSUME NEW r \in Root, AliasFullMutation(r)
       PROVE  \E s1 : Kept(r, s1)
  <2>1. BumpStructure([ns[r] EXCEPT !.globals = [n \in Name |-> Unset]], 1).disabled
          = ns[r].disabled
    BY <1>0 DEF BumpStructure, NamespaceState
  <2> QED BY <1>12, <2>1 DEF AliasFullMutation
<1>13. ASSUME NEW r \in Root, NEW name \in Name, NEW value \in Value,
              InsertAttr(r, name, value)
       PROVE  \E s1 : Kept(r, s1)
  <2> DEFINE s0 == [ns[r] EXCEPT !.globals[name] = value, !.values[name] = value,
                                 !.env_interest = @ \cup Mask[name]]
             k == IF ns[r].disabled THEN 2 ELSE 1
  <2>1. s0 \in NamespaceState /\ s0.disabled = ns[r].disabled
    BY <1>0, ConstantAssumption DEF NamespaceState, Binding
  <2>2. k \in Nat
    OBVIOUS
  <2>3. ns' = [ns EXCEPT ![r] = BumpModule(BumpStructure(s0, k), r, 1)]
    BY <1>13 DEF InsertAttr
  <2> HIDE DEF s0, k
  <2>4. BumpModule(BumpStructure(s0, k), r, 1).disabled = ns[r].disabled
    BY <2>1, <2>2, ModuleBumps DEF Bumps
  <2> QED BY <2>3, <2>4
<1>14. ASSUME NEW r \in Root, NEW name \in Name, RemoveAttr(r, name)
       PROVE  \E s1 : Kept(r, s1)
  BY <1>14, <1>b DEF RemoveAttr
<1>15. ASSUME \/ \E name \in Name : BeginDelete(name)
              \/ \E name \in Name, value \in Value \cup {Unset} : BuiltinsMutation(name, value)
              \/ UNCHANGED vars
       PROVE  ns' = ns
  BY <1>15 DEF BeginDelete, BuiltinsMutation, vars
<1> HIDE DEF Kept
<1> QED BY <1>a, <1>1, <1>2, <1>3, <1>4, <1>6, <1>7, <1>8, <1>9, <1>11, <1>12,
           <1>13, <1>14, <1>15 DEF Next

\* A function of functions changed at one place.
LEMMA ExceptTwice ==
    ASSUME NEW S, NEW T, NEW V, NEW f \in [S -> [T -> V]], NEW a \in S, NEW b \in T,
           NEW w
    PROVE  [f EXCEPT ![a][b] = w] =
             [x \in S |-> [y \in T |-> IF x = a /\ y = b THEN w ELSE f[x][y]]]
<1> DEFINE g == [f[a] EXCEPT ![b] = w]
           R == [x \in S |-> [y \in T |-> IF x = a /\ y = b THEN w ELSE f[x][y]]]
<1>1. [f EXCEPT ![a][b] = w] = [f EXCEPT ![a] = g]
  OBVIOUS
<1>2. f[a] \in [T -> V] /\ g = [y \in T |-> IF y = b THEN w ELSE f[a][y]]
  OBVIOUS
<1>3. R[a] = g
  BY <1>2
<1>4. ASSUME NEW x \in S, x # a PROVE R[x] = f[x]
  <2>1. f[x] \in [T -> V] /\ R[x] = [y \in T |-> f[x][y]]
    BY <1>4
  <2> QED BY <2>1
<1>5. R = [x \in S |-> R[x]]
  OBVIOUS
<1> HIDE DEF R, g
<1>6. [f EXCEPT ![a] = g] = [x \in S |-> IF x = a THEN g ELSE f[x]]
  OBVIOUS
<1>7. R = [x \in S |-> IF x = a THEN g ELSE f[x]]
  BY <1>3, <1>4, <1>5
<1> QED BY <1>1, <1>6, <1>7 DEF R

\* What the refinement mapping takes for the abstract state.
Bindings == [r \in Root |-> [name \in Name |-> Visible(r, name)]]
Escaped == {r \in Root : ns[r].disabled}

\* The abstract binding changes exactly as the meanings do.
LEMMA BindingsAfter ==
    ASSUME CopiesInv, TypeOK', NEW r0, NEW names, NEW w \in Value \cup {Unset},
           Effect(r0, names, w)
    PROVE  Bindings' = [r \in Root |-> [name \in Name |->
                          IF r = r0 /\ name \in names THEN w ELSE Bindings[r][name]]]
<1>1. \A r \in Root, name \in Name :
        Visible(r, name)' = IF r = r0 /\ name \in names THEN w ELSE Visible(r, name)
  BY EffectVisible
<1>2. Bindings' = [r \in Root |-> [name \in Name |-> Visible(r, name)']]
  BY DEF Bindings
<1>3. \A r \in Root, name \in Name : Bindings[r][name] = Visible(r, name)
  BY DEF Bindings
<1> QED BY <1>1, <1>2, <1>3

\* One name changed, as Bind and Unbind say it.
LEMMA OneNameAfter ==
    ASSUME CopiesInv, TypeOK', NEW r0 \in Root, NEW name \in Name,
           NEW w \in Value \cup {Unset}, Effect(r0, {name}, w)
    PROVE  Bindings' = [Bindings EXCEPT ![r0][name] = w]
<1> DEFINE names == {name}
<1>1. \A n \in Name : n \in names <=> n = name
  OBVIOUS
<1>2. Effect(r0, names, w)
  OBVIOUS
<1> HIDE DEF names
<1>3. Bindings' = [r \in Root |-> [n \in Name |->
                     IF r = r0 /\ n \in names THEN w ELSE Bindings[r][n]]]
  BY <1>2, BindingsAfter
<1> DEFINE V == {Visible(r, n) : r \in Root, n \in Name}
<1>4. Bindings \in [Root -> [Name -> V]]
  BY DEF Bindings
<1> HIDE DEF V
<1>5. [Bindings EXCEPT ![r0][name] = w] =
        [r \in Root |-> [n \in Name |->
            IF r = r0 /\ n = name THEN w ELSE Bindings[r][n]]]
  BY <1>4, ExceptTwice
<1> QED BY <1>1, <1>3, <1>5

\* No name changed.
LEMMA NoNameAfter ==
    ASSUME CopiesInv, TypeOK', NEW r0, Effect(r0, {}, Unset)
    PROVE  Bindings' = Bindings
<1> DEFINE names == {}
<1>1. Effect(r0, names, Unset) /\ Unset \in Value \cup {Unset}
      /\ \A n \in Name : n \notin names
  OBVIOUS
<1> HIDE DEF names
<1>2. Bindings' = [r \in Root |-> [n \in Name |->
                     IF r = r0 /\ n \in names THEN Unset ELSE Bindings[r][n]]]
  BY <1>1, BindingsAfter
<1>3. \A r \in Root, name \in Name : Bindings[r][name] = Visible(r, name)
  BY DEF Bindings
<1>4. Bindings' = [r \in Root |-> [n \in Name |-> Visible(r, n)]]
  BY <1>1, <1>2, <1>3
<1> QED BY <1>4 DEF Bindings

\* A step of the copies is a step of the mapping, or none.
LEMMA MappingStep ==
    CopiesInv /\ [Next]_vars => [Mapping!Next]_(Mapping!vars)
<1> SUFFICES ASSUME CopiesInv, [Next]_vars PROVE [Mapping!Next]_(Mapping!vars)
  OBVIOUS
<1>0. TypeOK' /\ Unset \in Value \cup {Unset} /\ \A v \in Value : v \in Value \cup {Unset}
  BY NextType DEF CopiesInv
<1>a. frames # <<>> => Top.root \in Root
  BY RunningFacts
<1>b. (\A r \in Root : ns'[r].disabled = ns[r].disabled) => Escaped' = Escaped
  BY DEF Escaped
<1>c. ASSUME NEW r \in Root, NEW name \in Name, NEW value \in Value,
             Effect(r, {name}, value), ~ \E q \in Root : ExposeGlobals(q)
      PROVE  Mapping!Next
  <2>1. Bindings' = [Bindings EXCEPT ![r][name] = value] /\ Escaped' = Escaped
    BY <1>0, <1>b, <1>c, OneNameAfter, EscapedKept
  <2>2. Mapping!Bind(r, name, value)
    BY <2>1 DEF Mapping!Bind, Bindings, Escaped
  <2> QED BY <2>2 DEF Mapping!Next
<1>d. ASSUME NEW r \in Root, NEW name \in Name,
             Effect(r, {name}, Unset), ~ \E q \in Root : ExposeGlobals(q)
      PROVE  Mapping!Next
  <2>1. Bindings' = [Bindings EXCEPT ![r][name] = Unset] /\ Escaped' = Escaped
    BY <1>0, <1>b, <1>d, OneNameAfter, EscapedKept
  <2>2. Mapping!Unbind(r, name)
    BY <2>1 DEF Mapping!Unbind, Bindings, Escaped
  <2> QED BY <2>2 DEF Mapping!Next
<1>e. ASSUME NEW r, Effect(r, {}, Unset), ~ \E q \in Root : ExposeGlobals(q)
      PROVE  UNCHANGED Mapping!vars
  <2>1. Bindings' = Bindings /\ Escaped' = Escaped
    BY <1>0, <1>b, <1>e, NoNameAfter, EscapedKept
  <2> QED BY <2>1 DEF Mapping!vars, Bindings, Escaped
<1>10. ASSUME NEW r \in Root, ExposeGlobals(r) PROVE Mapping!Next
  <2>1. Bindings' = Bindings
    BY <1>0, <1>10, ExposeEffect, NoNameAfter
  <2>2. Escaped' = Escaped \cup {r}
    <3>1. ns'[r].disabled /\ \A q \in Root : q # r => ns'[q] = ns[q]
      BY <1>10, CopiesFacts DEF ExposeGlobals, TypeOK, NamespaceState
    <3> QED BY <3>1 DEF Escaped
  <2>3. Mapping!Escape(r)
    BY <2>1, <2>2 DEF Mapping!Escape, Bindings, Escaped
  <2> QED BY <2>3 DEF Mapping!Next
<1>11. SUFFICES ASSUME ~ \E r \in Root : ExposeGlobals(r)
                PROVE  [Mapping!Next]_(Mapping!vars)
  BY <1>10
<1>1. CASE \E site \in Site, r \in Root : LoadGlobal(site, r)
  BY <1>1, <1>11, <1>e, LoadEffect
<1>2. CASE \E r \in Root, name \in Name, value \in Value : AssignName(r, name, value)
  BY <1>2, <1>11, <1>c, AssignEffect
<1>3. CASE \E name \in Name, value \in Value : StoreScriptLocal(name, value)
  <2>1. PICK name \in Name, value \in Value : StoreScriptLocal(name, value)
    BY <1>3
  <2>2. Effect(Top.root, {name}, value) /\ Top.root \in Root
    BY <1>a, <2>1, StoreEffect DEF StoreScriptLocal, Running
  <2> QED BY <1>11, <1>c, <2>2
<1>4. CASE \E name \in Name, raise \in BOOLEAN : DeleteScriptLocal(name, raise)
  <2>1. PICK name \in Name, raise \in BOOLEAN : DeleteScriptLocal(name, raise)
    BY <1>4
  <2>2. Effect(Top.root, {name}, Unset) /\ Top.root \in Root
    BY <1>a, <2>1, DeleteLocalEffect DEF DeleteScriptLocal, Running
  <2> QED BY <1>11, <1>d, <2>2
<1>5. CASE \E name \in Name : BeginDelete(name)
  <2>1. PICK name \in Name : BeginDelete(name)
    BY <1>5
  <2>2. /\ Effect(Top.root, {}, Unset) \/ Effect(Top.root, {name}, Unset)
        /\ Top.root \in Root
    BY <1>a, <2>1, BeginDeleteEffect DEF BeginDelete, Running
  <2> QED BY <1>11, <1>d, <1>e, <2>2
<1>6. CASE FinishDelete
  <2>1. /\ Effect(Top.root, {Top.deleting}, Unset) /\ Top.deleting \in Name
        /\ Top.root \in Root
    BY <1>6, <1>a, FinishDeleteEffect DEF FinishDelete
  <2> QED BY <1>11, <1>d, <2>1
<1>7. CASE \E r \in Root, name \in Name : DeleteName(r, name)
  BY <1>7, <1>11, <1>d, DeleteNameEffect
<1>8. CASE \E r \in Root, code \in Code : StartScript(r, code)
  BY <1>8, <1>11, <1>e, StartEffect
<1>9. CASE EndScript
  BY <1>9, <1>11, <1>e, EndEffect
<1>12. CASE \E r \in Root, name \in Name, value \in Value \cup {Unset} :
              AliasKeyMutation(r, name, value)
  BY <1>12, <1>11, <1>c, <1>d, AliasKeyEffect
<1>13. CASE \E r \in Root : AliasFullMutation(r)
  <2>1. PICK r \in Root : AliasFullMutation(r)
    BY <1>13
  <2>2. r \in Escaped /\ Escaped' = Escaped
    BY <1>11, <1>b, <2>1, EscapedKept DEF AliasFullMutation, Escaped
  <2>3. Bindings' = [q \in Root |-> [name \in Name |->
                       IF q = r THEN Unset ELSE Bindings[q][name]]]
    BY <1>0, <2>1, AliasFullEffect, BindingsAfter
  <2>4. Bindings' = [Bindings EXCEPT ![r] = [name \in Name |-> Unset]]
    <3>1. \A q \in Root : Bindings[q] = [name \in Name |-> Bindings[q][name]]
      BY DEF Bindings
    <3>2. Bindings = [q \in Root |-> Bindings[q]]
      BY DEF Bindings
    <3> QED BY <2>3, <3>1, <3>2
  <2>5. Mapping!Clear(r)
    BY <2>2, <2>4 DEF Mapping!Clear, Bindings, Escaped
  <2> QED BY <2>5 DEF Mapping!Next
<1>14. CASE \E r \in Root, name \in Name, value \in Value : InsertAttr(r, name, value)
  BY <1>14, <1>11, <1>c, InsertEffect
<1>15. CASE \E r \in Root, name \in Name : RemoveAttr(r, name)
  BY <1>15, <1>11, <1>d, RemoveAttrEffect
<1>16. CASE \/ \E name \in Name, value \in Value \cup {Unset} : BuiltinsMutation(name, value)
            \/ UNCHANGED vars
  <2>1. UNCHANGED <<ns, frames>>
    BY <1>16 DEF BuiltinsMutation, vars
  <2> QED BY <1>11, <1>e, <2>1, IdleEffect
<1> QED BY <1>1, <1>2, <1>3, <1>4, <1>5, <1>6, <1>7, <1>8, <1>9, <1>11, <1>12,
           <1>13, <1>14, <1>15, <1>16 DEF Next

\* The four places a binding is held in, and the moves between them, are one
\* mapping per module to Python code: ModuleNamespace.
THEOREM CopiesAreOneMapping == Spec => OneMapping
<1>1. Init => Mapping!Init
  <2> SUFFICES ASSUME Init PROVE Mapping!Init
    OBVIOUS
  <2>1. CopiesInv
    BY InitCopies
  <2>2. \A r \in Root, n \in Name : Visible(r, n) \in Value \cup {Unset}
    BY <2>1, VisibleIs DEF CopiesInv, MeaningVisible
  <2>3. \A r \in Root : ~ ns[r].disabled
    BY DEF Init, FreshNamespace
  <2> QED BY <2>2, <2>3 DEF Mapping!Init
<1>2. CopiesInv /\ [Next]_vars => [Mapping!Next]_(Mapping!vars)
  BY MappingStep
<1> QED BY <1>1, <1>2, CopiesInvariant, PTL DEF Spec, OneMapping, Mapping!Spec

-----------------------------------------------------------------------------
(* What a cache entry relies on *)

\* The entry e, filled for the name n, is stamped with generations its
\* namespace s has had, none of them saturated; the mask that makes a write of
\* n advance them is registered; and while they match, s and the registers
\* (holding h) are as they were when the entry was filled.
EntryOK(e, s, h, n) ==
    /\ e.kind = "Environment" =>
         /\ e.version <= s.environment_version /\ e.version # MaxVersion
         /\ Interested(s.value_interest, n)
         /\ e.version = s.environment_version => s.values[n] = e.value /\ e.value # Unset
    /\ e.kind = "ScriptFastLocal" =>
         /\ e.version <= s.environment_version /\ e.version # MaxVersion
         /\ e.epoch <= s.mirror_epoch /\ e.epoch # MaxVersion
         /\ Interested(s.value_interest, n)
         /\ e.version = s.environment_version /\ e.epoch = s.mirror_epoch =>
              /\ s.values[n] = Unset /\ s.globals[n] = Unset
              /\ e.value # Unset => e.value \in AllocFree /\ h = {e.value}
    /\ e.kind = "BuiltinModule" =>
         /\ e.version <= s.structure_version /\ e.version # MaxVersion
         /\ Interested(s.fallback_interest, n)
         /\ e.version = s.structure_version =>
              /\ s.values[n] = Unset /\ s.globals[n] = Unset
              /\ s.mirror_epoch = MaxVersion \/ h = {}

\* A copy of a builtin is stamped with the provider's generation.
BuiltinOK(e, n, version, attrs) ==
    e.kind = "BuiltinModule" =>
      /\ e.epoch <= version /\ e.epoch # MaxVersion
      /\ e.epoch = version => attrs[n] = e.value

\* The entry of a name slot, while its root may be cached at all.
SlotOK(site) ==
    LET e == global_cache[site]
        n == SiteName[site]
    IN  e.kind # "Empty" =>
          /\ e.namespace \in Root
          /\ ~ ns[e.namespace].disabled =>
               EntryOK(e, ns[e.namespace], Held(frames, e.namespace, n), n)
          /\ BuiltinOK(e, n, builtins_version, builtins)

\* The inductive invariant of the cache.
CacheInv ==
    /\ CopiesInv
    /\ \A site \in Site : SlotOK(site)

\* A step that keeps what the copies rely on, or moves a generation on, keeps
\* an entry sound.
LEMMA EntryStep ==
    ASSUME NEW e \in CacheEntry, NEW s \in NamespaceState, NEW s1 \in NamespaceState,
           NEW h, NEW h1, NEW n \in Name, EntryOK(e, s, h, n),
           CacheStep(s, h, s1, h1, n), ~ s1.disabled
    PROVE  EntryOK(e, s1, h1, n)
<1>0. /\ e.version \in Nat /\ e.epoch \in Nat /\ MaxVersion \in Nat
      /\ s.environment_version \in Nat /\ s1.environment_version \in Nat
      /\ s.structure_version \in Nat /\ s1.structure_version \in Nat
      /\ s.mirror_epoch \in Nat /\ s1.mirror_epoch \in Nat
      /\ s1.mirror_epoch <= MaxVersion
  BY ConstantAssumption DEF CacheEntry, NamespaceState, Version
<1>1. /\ s.environment_version <= s1.environment_version
      /\ s.structure_version <= s1.structure_version
      /\ s.mirror_epoch <= s1.mirror_epoch
      /\ Interested(s.value_interest, n) => Interested(s1.value_interest, n)
      /\ Interested(s.fallback_interest, n) => Interested(s1.fallback_interest, n)
  BY DEF CacheStep, Grows, Interested
<1>2. /\ Interested(s.value_interest, n) =>
           \/ Later(s.environment_version, s1.environment_version)
           \/ /\ s1.values[n] = s.values[n] /\ s1.globals[n] = s.globals[n]
              /\ h1 = h \/ (h1 \subseteq h /\ h \cap AllocFree = {})
      /\ Interested(s.fallback_interest, n) =>
           \/ Later(s.structure_version, s1.structure_version)
           \/ /\ s1.values[n] = s.values[n] /\ s1.globals[n] = s.globals[n]
              /\ h1 \subseteq h
  BY DEF CacheStep
<1>3. ASSUME e.kind = "Environment"
      PROVE  /\ e.version <= s1.environment_version /\ e.version # MaxVersion
             /\ Interested(s1.value_interest, n)
             /\ e.version = s1.environment_version =>
                  s1.values[n] = e.value /\ e.value # Unset
  <2>1. /\ e.version <= s.environment_version /\ e.version # MaxVersion
        /\ Interested(s.value_interest, n)
        /\ e.version = s.environment_version => s.values[n] = e.value /\ e.value # Unset
    BY <1>3 DEF EntryOK
  <2>2. e.version <= s1.environment_version
    BY <1>0, <1>1, <2>1
  <2>3. ASSUME e.version = s1.environment_version
        PROVE  /\ e.version = s.environment_version
               /\ ~ Later(s.environment_version, s1.environment_version)
    BY <1>0, <1>1, <2>1, <2>3 DEF Later
  <2> QED BY <1>1, <1>2, <2>1, <2>2, <2>3
<1>4. ASSUME e.kind = "ScriptFastLocal"
      PROVE  /\ e.version <= s1.environment_version /\ e.version # MaxVersion
             /\ e.epoch <= s1.mirror_epoch /\ e.epoch # MaxVersion
             /\ Interested(s1.value_interest, n)
             /\ e.version = s1.environment_version /\ e.epoch = s1.mirror_epoch =>
                  /\ s1.values[n] = Unset /\ s1.globals[n] = Unset
                  /\ e.value # Unset => e.value \in AllocFree /\ h1 = {e.value}
  <2>1. /\ e.version <= s.environment_version /\ e.version # MaxVersion
        /\ e.epoch <= s.mirror_epoch /\ e.epoch # MaxVersion
        /\ Interested(s.value_interest, n)
        /\ e.version = s.environment_version /\ e.epoch = s.mirror_epoch =>
             /\ s.values[n] = Unset /\ s.globals[n] = Unset
             /\ e.value # Unset => e.value \in AllocFree /\ h = {e.value}
    BY <1>4 DEF EntryOK
  <2>2. e.version <= s1.environment_version /\ e.epoch <= s1.mirror_epoch
    BY <1>0, <1>1, <2>1
  <2>3. ASSUME e.version = s1.environment_version, e.epoch = s1.mirror_epoch
        PROVE  /\ e.version = s.environment_version /\ e.epoch = s.mirror_epoch
               /\ ~ Later(s.environment_version, s1.environment_version)
    BY <1>0, <1>1, <2>1, <2>3 DEF Later
  <2> QED BY <1>1, <1>2, <2>1, <2>2, <2>3
<1>5. ASSUME e.kind = "BuiltinModule"
      PROVE  /\ e.version <= s1.structure_version /\ e.version # MaxVersion
             /\ Interested(s1.fallback_interest, n)
             /\ e.version = s1.structure_version =>
                  /\ s1.values[n] = Unset /\ s1.globals[n] = Unset
                  /\ s1.mirror_epoch = MaxVersion \/ h1 = {}
  <2>1. /\ e.version <= s.structure_version /\ e.version # MaxVersion
        /\ Interested(s.fallback_interest, n)
        /\ e.version = s.structure_version =>
             /\ s.values[n] = Unset /\ s.globals[n] = Unset
             /\ s.mirror_epoch = MaxVersion \/ h = {}
    BY <1>5 DEF EntryOK
  <2>2. e.version <= s1.structure_version
    BY <1>0, <1>1, <2>1
  <2>3. ASSUME e.version = s1.structure_version
        PROVE  /\ e.version = s.structure_version
               /\ ~ Later(s.structure_version, s1.structure_version)
    BY <1>0, <1>1, <2>1, <2>3 DEF Later
  <2>4. s.mirror_epoch = MaxVersion => s1.mirror_epoch = MaxVersion
    BY <1>0, <1>1
  <2> QED BY <1>1, <1>2, <2>1, <2>2, <2>3, <2>4
<1> QED BY <1>3, <1>4, <1>5 DEF EntryOK

\* Nothing is known of the builtins but that a mutation advances their
\* generation.
LEMMA BuiltinStep ==
    ASSUME NEW e \in CacheEntry, NEW n \in Name, NEW a \in Version, NEW b \in Version,
           NEW attrs, NEW attrs1, BuiltinOK(e, n, a, attrs),
           a <= b, Later(a, b) \/ attrs1 = attrs
    PROVE  BuiltinOK(e, n, b, attrs1)
<1>1. e.epoch \in Nat /\ a \in Nat /\ b \in Nat /\ MaxVersion \in Nat
  BY ConstantAssumption DEF CacheEntry, Version
<1> QED BY <1>1 DEF BuiltinOK, Later

\* Only BuiltinsMutation touches the builtins.
LEMMA BuiltinsAdvance ==
    ASSUME TypeOK, [Next]_vars
    PROVE  /\ builtins_version <= builtins_version'
           /\ Later(builtins_version, builtins_version') \/ builtins' = builtins
<1>1. builtins_version \in Version /\ builtins_version <= builtins_version
  BY DEF TypeOK, Version
<1>2. CASE \E name \in Name, value \in Value \cup {Unset} : BuiltinsMutation(name, value)
  BY <1>1, <1>2, AdvanceLater DEF BuiltinsMutation
<1>3. CASE builtins' = builtins /\ builtins_version' = builtins_version
  BY <1>1, <1>3
<1> QED
  BY <1>2, <1>3 DEF Next, vars, LoadGlobal, AssignName, StoreScriptLocal,
     DeleteScriptLocal, BeginDelete, FinishDelete, DeleteName, StartScript, EndScript,
     ExposeGlobals, AliasKeyMutation, AliasFullMutation, InsertAttr, RemoveAttr

-----------------------------------------------------------------------------
(* Filling a slot *)

\* Where an uncached resolution of a namespace that has not escaped looks.
LEMMA SourceIs ==
    ASSUME CopiesInv, NEW r \in Root, NEW n \in Name, ~ ns[r].disabled
    PROVE  /\ SyncName(ns[r], n) = ns[r]
           /\ Source(r, n) = "Environment" => ns[r].values[n] # Unset
           /\ Source(r, n) \in {"ScriptFastLocal", "BuiltinModule"} =>
                ns[r].values[n] = Unset /\ ns[r].globals[n] = Unset
           /\ Source(r, n) = "ScriptFastLocal" =>
                ns[r].mirror_epoch # MaxVersion /\ Held(frames, r, n) # {}
           /\ Source(r, n) = "BuiltinModule" =>
                ns[r].mirror_epoch = MaxVersion \/ Held(frames, r, n) = {}
<1>1. SyncName(ns[r], n) = ns[r]
  BY DEF SyncName
<1>2. BoundSlots(r, n) = {} <=> Held(frames, r, n) = {}
  BY CopiesFacts, FastLocalHeld
<1> QED BY <1>1, <1>2 DEF Source

\* A slot that a miss fills relies on what the miss has just read, and its
\* name's mask is registered first.
LEMMA FilledOK ==
    ASSUME CopiesInv, NEW site \in Site, NEW r \in Root, Publishes(site, r),
           NEW e, e = FilledEntry(site, r), e.kind # "Empty"
    PROVE  /\ e.namespace = r
           /\ EntryOK(e, RegisterInterest(ns[r], site, r),
                      Held(frames, r, SiteName[site]), SiteName[site])
           /\ BuiltinOK(e, SiteName[site], builtins_version, builtins)
<1> DEFINE n == SiteName[site]
           s == ns[r]
           s1 == RegisterInterest(s, site, r)
           h == Held(frames, r, n)
           src == Source(r, n)
<1>0. n \in Name /\ s \in NamespaceState /\ ~ s.disabled
  BY ConstantAssumption, CopiesFacts DEF Publishes
<1>1. /\ s.environment_version \in Nat /\ s.structure_version \in Nat
      /\ s.mirror_epoch \in Nat /\ builtins_version \in Nat
  BY <1>0, ConstantAssumption DEF NamespaceState, Version, CopiesInv, TypeOK
<1>2. /\ SyncName(s, n) = s
      /\ src = "Environment" => s.values[n] # Unset
      /\ src \in {"ScriptFastLocal", "BuiltinModule"} =>
           s.values[n] = Unset /\ s.globals[n] = Unset
      /\ src = "ScriptFastLocal" => s.mirror_epoch # MaxVersion /\ h # {}
      /\ src = "BuiltinModule" => s.mirror_epoch = MaxVersion \/ h = {}
  BY <1>0, SourceIs
<1>3. /\ s1.values = s.values /\ s1.globals = s.globals
      /\ s1.environment_version = s.environment_version
      /\ s1.structure_version = s.structure_version /\ s1.mirror_epoch = s.mirror_epoch
      /\ IF src = "BuiltinModule" THEN Interested(s1.fallback_interest, n)
         ELSE Interested(s1.value_interest, n)
  BY <1>0 DEF RegisterInterest, NamespaceState, Interested
<1>4. PICK v \in Value \cup {Unset} : Means(s, h, r, n, v)
  BY <1>0 DEF CopiesInv, Meaning
<1>5. h # {} => FastLocal(r, n) \in h
  BY <1>0, CopiesFacts, FastLocalHeld
<1>6. Unset \notin h /\ h \subseteq {v}
  BY <1>4 DEF Means
<1>7. src \in {"Environment", "Globals", "ScriptFastLocal", "BuiltinModule"}
  BY DEF Source
<1>8. CASE src = "Environment" /\ s.environment_version # MaxVersion
  <2>1. e = [kind |-> "Environment", namespace |-> r, version |-> s.environment_version,
             epoch |-> 0, layout |-> Unset, value |-> Resolve(r, n)]
    BY <1>8 DEF FilledEntry
  <2>2. Resolve(r, n) = s.values[n]
    BY <1>2, <1>8 DEF Resolve
  <2>3. /\ e.kind = "Environment" /\ e.namespace = r /\ e.value = s.values[n]
        /\ e.version = s.environment_version
    BY <2>1, <2>2
  <2> HIDE DEF s1, s, h, src, n
  <2> QED BY <1>1, <1>2, <1>3, <1>8, <2>3 DEF EntryOK, BuiltinOK, s1, s, h, n
<1>9. CASE src = "ScriptFastLocal" /\ s.environment_version # MaxVersion
  <2> DEFINE x == IF FastLocal(r, n) \in AllocFree THEN FastLocal(r, n) ELSE Unset
             code == frames[Innermost(BoundSlots(r, n))].code
  <2>1. e = [kind |-> "ScriptFastLocal", namespace |-> r,
             version |-> s.environment_version,
             epoch |-> s.mirror_epoch, layout |-> code, value |-> x]
    BY <1>9 DEF FilledEntry
  <2>2. x # Unset => x \in AllocFree /\ h = {x}
    BY <1>2, <1>5, <1>6, <1>9
  <2> HIDE DEF x, code
  <2>3. /\ e.kind = "ScriptFastLocal" /\ e.namespace = r /\ e.value = x
        /\ e.version = s.environment_version /\ e.epoch = s.mirror_epoch
    BY <2>1
  <2> HIDE DEF s1, s, h, src, n
  <2> QED BY <1>1, <1>2, <1>3, <1>9, <2>2, <2>3 DEF EntryOK, BuiltinOK, s1, s, h, n
<1>10. CASE /\ src = "BuiltinModule"
            /\ s.structure_version # MaxVersion /\ builtins_version # MaxVersion
  <2>1. e = [kind |-> "BuiltinModule", namespace |-> r, version |-> s.structure_version,
             epoch |-> builtins_version, layout |-> Unset, value |-> Resolve(r, n)]
    BY <1>10 DEF FilledEntry
  <2>2. Resolve(r, n) = builtins[n]
    BY <1>2, <1>10 DEF Resolve
  <2>3. /\ e.kind = "BuiltinModule" /\ e.namespace = r /\ e.value = builtins[n]
        /\ e.version = s.structure_version /\ e.epoch = builtins_version
    BY <2>1, <2>2
  <2> HIDE DEF s1, s, h, src, n
  <2> QED BY <1>1, <1>2, <1>3, <1>10, <2>3 DEF EntryOK, BuiltinOK, s1, s, h, n
<1>11. \/ src = "Environment" /\ s.environment_version # MaxVersion
       \/ src = "ScriptFastLocal" /\ s.environment_version # MaxVersion
       \/ /\ src = "BuiltinModule"
          /\ s.structure_version # MaxVersion /\ builtins_version # MaxVersion
       \/ e = EmptyEntry
  BY <1>7 DEF FilledEntry
<1>12. e = EmptyEntry => e.kind = "Empty"
  BY DEF EmptyEntry
<1> QED BY <1>8, <1>9, <1>10, <1>11, <1>12

-----------------------------------------------------------------------------
(* The invariant is inductive *)

\* The slots start empty.
LEMMA InitCache == Init => CacheInv
<1> SUFFICES ASSUME Init PROVE CacheInv
  OBVIOUS
<1>1. CopiesInv
  BY InitCopies
<1>2. \A site \in Site : global_cache[site].kind = "Empty"
  BY DEF Init, EmptyEntry
<1> QED BY <1>1, <1>2 DEF CacheInv, SlotOK

\* An entry that is not replaced stays sound.
LEMMA OldEntry ==
    ASSUME CacheInv, [Next]_vars, NEW site \in Site,
           global_cache'[site] = global_cache[site]
    PROVE  SlotOK(site)'
<1> DEFINE e == global_cache[site]
           n == SiteName[site]
           r == e.namespace
<1> SUFFICES ASSUME e.kind # "Empty"
             PROVE  /\ r \in Root
                    /\ ~ ns'[r].disabled => EntryOK(e, ns'[r], Held(frames', r, n), n)
                    /\ BuiltinOK(e, n, builtins_version', builtins')
  BY DEF SlotOK
<1>1. /\ TypeOK /\ TypeOK' /\ CopiesInv
  BY NextType, CopiesFacts DEF CacheInv
<1>2. /\ r \in Root
      /\ ~ ns[r].disabled => EntryOK(e, ns[r], Held(frames, r, n), n)
      /\ BuiltinOK(e, n, builtins_version, builtins)
  BY DEF CacheInv, SlotOK
<1>3. e \in CacheEntry /\ n \in Name
  BY <1>1, ConstantAssumption DEF TypeOK
<1>4. /\ ns[r] \in NamespaceState /\ ns'[r] \in NamespaceState
      /\ builtins_version \in Version /\ builtins_version' \in Version
  BY <1>1, <1>2 DEF TypeOK
<1>5. CacheStep(ns[r], Held(frames, r, n), ns'[r], Held(frames', r, n), n)
  <2>1. PICK r0 \in Root \cup {Unset}, names \in SUBSET Name, w \in Value \cup {Unset} :
          Effect(r0, names, w)
    BY <1>1, StepEffect
  <2> QED BY <1>2, <1>3, <2>1 DEF Effect
<1>6. ns[r].disabled => ns'[r].disabled
  BY <1>5 DEF CacheStep, Grows
<1> HIDE DEF e, n, r
<1>7. ~ ns'[r].disabled => EntryOK(e, ns'[r], Held(frames', r, n), n)
  BY <1>2, <1>3, <1>4, <1>5, <1>6, EntryStep
<1>8. BuiltinOK(e, n, builtins_version', builtins')
  BY <1>1, <1>2, <1>3, <1>4, BuiltinsAdvance, BuiltinStep
<1> QED BY <1>2, <1>7, <1>8

\* Every step keeps every slot sound.
LEMMA NextCache == CacheInv /\ [Next]_vars => CacheInv'
<1> SUFFICES ASSUME CacheInv, [Next]_vars PROVE CacheInv'
  OBVIOUS
<1>1. CopiesInv /\ CopiesInv' /\ TypeOK /\ TypeOK'
  BY NextCopies, CopiesFacts, NextType DEF CacheInv
<1>2. ASSUME NEW site \in Site PROVE SlotOK(site)'
  <2>1. CASE global_cache'[site] = global_cache[site]
    BY <2>1, OldEntry
  <2>2. CASE global_cache'[site] # global_cache[site]
    <3>1. PICK t \in Site, r \in Root : LoadGlobal(t, r)
      BY <2>2 DEF Next, vars, AssignName, StoreScriptLocal, BuiltinsMutation,
         DeleteScriptLocal, BeginDelete, FinishDelete, DeleteName, StartScript, EndScript,
         ExposeGlobals, AliasKeyMutation, AliasFullMutation, InsertAttr, RemoveAttr
    <3>2. /\ Publishes(t, r)
          /\ ns' = [ns EXCEPT ![r] = RegisterInterest(ns[r], t, r)]
          /\ global_cache' = [global_cache EXCEPT ![t] = FilledEntry(t, r)]
          /\ frames' = frames /\ builtins' = builtins
          /\ builtins_version' = builtins_version
      BY <2>2, <3>1 DEF LoadGlobal
    <3>3. t = site
      BY <1>1, <2>2, <3>2 DEF TypeOK
    <3> DEFINE e == FilledEntry(site, r)
               n == SiteName[site]
               s1 == RegisterInterest(ns[r], site, r)
    <3>4. e = global_cache'[site] /\ s1 = ns'[r]
      BY <1>1, <3>2, <3>3 DEF TypeOK
    <3>5. e.kind # "Empty" =>
            /\ e.namespace = r
            /\ EntryOK(e, s1, Held(frames, r, n), n)
            /\ BuiltinOK(e, n, builtins_version, builtins)
      BY <1>1, <3>2, <3>3, FilledOK
    <3> HIDE DEF e, n, s1
    <3>6. e.kind # "Empty" =>
            /\ e.namespace \in Root
            /\ EntryOK(e, ns'[e.namespace], Held(frames', e.namespace, n), n)
            /\ BuiltinOK(e, n, builtins_version', builtins')
      BY <3>2, <3>4, <3>5
    <3> QED BY <3>4, <3>6 DEF SlotOK, n
  <2> QED BY <2>1, <2>2
<1> QED BY <1>1, <1>2 DEF CacheInv

-----------------------------------------------------------------------------
(* Coherence *)

\* The register a cached layout leads to holds what the newest bound one does.
LEMMA CachedSlotHeld ==
    ASSUME CopiesInv, NEW r \in Root, NEW n \in Name, NEW layout,
           CachedSlot(r, layout, n) # Unset
    PROVE  CachedSlot(r, layout, n) \in Held(frames, r, n)
<1> DEFINE slots == {i \in BoundSlots(r, n) : frames[i].code = layout}
           i == Innermost(slots)
<1>1. frames \in Seq(Frame) /\ Len(frames) \in Nat
  BY CopiesFacts
<1>2. slots # {} /\ CachedSlot(r, layout, n) = frames[i].regs[n]
  BY DEF CachedSlot
<1>3. slots \in SUBSET (1 .. Len(frames))
  BY <1>1 DEF BoundSlots
<1> HIDE DEF slots
<1>4. i \in slots
  BY <1>1, <1>2, <1>3, InnermostExists
<1> HIDE DEF i
<1>5. i \in 1 .. Len(frames) /\ frames[i].root = r /\ frames[i].regs[n] # Unset
  BY <1>3, <1>4 DEF slots, BoundSlots
<1> QED BY <1>1, <1>2, <1>5, HeldIntro

\* A LoadGlobal hit returns exactly what resolution would have returned,
\* whatever was stored, deleted, rebound, entered or left since the slot was
\* filled, in any number of roots, frames, names and slots and with
\* generations of any width (load_global_cached).
THEOREM CacheAlwaysCoherent == Spec => []CacheCoherent
<1>1. CacheInv => CacheCoherent
  <2> SUFFICES ASSUME CacheInv, NEW site \in Site, NEW r \in Root, ~ ns[r].disabled,
                      Lookup(global_cache[site], r, SiteName[site]) # Unset
               PROVE  Lookup(global_cache[site], r, SiteName[site])
                        = Resolve(r, SiteName[site])
    BY DEF CacheCoherent
  <2> DEFINE e == global_cache[site]
             n == SiteName[site]
             s == ns[r]
             h == Held(frames, r, n)
             hit == Lookup(e, r, n)
  <2>0. /\ CopiesInv /\ frames \in Seq(Frame) /\ n \in Name
        /\ s \in NamespaceState /\ e \in CacheEntry
    BY CopiesFacts, ConstantAssumption DEF CacheInv, TypeOK
  <2>1. e.namespace = r /\ e.kind # "Empty"
    BY DEF Lookup
  <2>2. EntryOK(e, s, h, n) /\ BuiltinOK(e, n, builtins_version, builtins)
    BY <2>1 DEF CacheInv, SlotOK
  <2>3. SyncName(s, n) = s
    BY DEF SyncName
  <2>4. PICK v \in Value \cup {Unset} : Means(s, h, r, n, v)
    BY <2>0 DEF CopiesInv, Meaning
  <2>5. /\ BoundSlots(r, n) = {} <=> h = {}
        /\ h # {} => FastLocal(r, n) \in h
    BY <2>0, FastLocalHeld
  <2>6. h \subseteq {v}
    BY <2>4 DEF Means
  <2>7. CASE e.kind = "Environment"
    <3>1. e.version = s.environment_version /\ hit = e.value
      BY <2>1, <2>7 DEF Lookup
    <3>2. s.values[n] = e.value /\ e.value # Unset
      BY <2>2, <2>7, <3>1 DEF EntryOK
    <3>3. Resolve(r, n) = s.values[n]
      BY <2>3, <3>2 DEF Resolve, Source
    <3> QED BY <3>1, <3>2, <3>3
  <2>8. CASE e.kind = "ScriptFastLocal"
    <3>1. /\ e.version = s.environment_version /\ e.epoch = s.mirror_epoch
          /\ hit = IF e.value # Unset THEN e.value ELSE CachedSlot(r, e.layout, n)
      BY <2>1, <2>8 DEF Lookup
    <3>2. /\ s.values[n] = Unset /\ s.globals[n] = Unset /\ s.mirror_epoch # MaxVersion
          /\ e.value # Unset => h = {e.value}
      BY <2>2, <2>8, <3>1 DEF EntryOK
    <3>3. hit \in h
      BY <2>0, <3>1, <3>2, CachedSlotHeld
    <3>4. Resolve(r, n) = FastLocal(r, n)
      BY <2>3, <2>5, <3>2, <3>3 DEF Resolve, Source
    <3>5. FastLocal(r, n) \in h
      BY <2>5, <3>3
    <3> QED BY <2>6, <3>3, <3>4, <3>5
  <2>9. CASE e.kind = "BuiltinModule"
    <3>1. /\ e.version = s.structure_version /\ e.epoch = builtins_version
          /\ hit = e.value
      BY <2>1, <2>9 DEF Lookup
    <3>2. /\ s.values[n] = Unset /\ s.globals[n] = Unset
          /\ s.mirror_epoch = MaxVersion \/ h = {}
      BY <2>2, <2>9, <3>1 DEF EntryOK
    <3>3. builtins[n] = e.value
      BY <2>2, <2>9, <3>1 DEF BuiltinOK
    <3>4. Resolve(r, n) = builtins[n]
      BY <2>3, <2>5, <3>2 DEF Resolve, Source
    <3> QED BY <3>1, <3>3, <3>4
  <2> QED BY <2>0, <2>1, <2>7, <2>8, <2>9 DEF CacheEntry
<1>2. Init => CacheInv
  BY InitCache
<1>3. CacheInv /\ [Next]_vars => CacheInv'
  BY NextCache
<1> QED BY <1>1, <1>2, <1>3, PTL DEF Spec

-----------------------------------------------------------------------------
(* Resolution.  Registers are found only while the mirror epoch of their     *)
(* root is not saturated, so what has to be shown is that no epoch saturates *)
(* while a Script frame of its root is live.                                 *)

\* fs1 has the frames of fs, each with the root it had.
SameRoots(fs, fs1) ==
    /\ fs1 \in Seq(Frame) /\ Len(fs1) = Len(fs)
    /\ \A i \in 1 .. Len(fs) : fs1[i].root = fs[i].root

\* The i-th frame entered its root below the limit, and the frames above it
\* can turn the epoch at most once more each.
EpochBelow(fs, spaces) ==
    \A i \in 1 .. Len(fs) :
        spaces[fs[i].root].mirror_epoch + i <= EpochLimit + MaxFrames

\* The inductive invariant of the epoch.
EpochInv == CopiesInv /\ EpochBelow(frames, ns)

\* A synchronization of registers keeps the frames.
LEMMA SyncRoots ==
    ASSUME NEW fs, NEW fs1, NEW r, NEW names, NEW new,
           Synchronized(fs, fs1, r, names, new)
    PROVE  SameRoots(fs, fs1)
BY DEF Synchronized, SameRoots

\* A deletion synchronizes the registers or leaves them.
LEMMA ClearedRoots ==
    ASSUME NEW fs \in Seq(Frame), NEW r \in Root, NEW name \in Name
    PROVE  SameRoots(fs, ClearedSlots(fs, r, name))
<1> DEFINE new == [n \in Name |-> Unset]
           names == {name}
<1>1. new \in Binding /\ names \in SUBSET Name
  BY DEF Binding
<1>2. ClearedSlots(fs, r, name) \in {SetSlots(fs, r, names, new), fs}
  BY DEF ClearedSlots
<1> HIDE DEF new, names
<1>3. SameRoots(fs, SetSlots(fs, r, names, new))
  BY <1>1, SetSlotsFacts, SyncRoots
<1>4. SameRoots(fs, fs)
  BY DEF SameRoots
<1> QED BY <1>2, <1>3, <1>4

\* So do the stores.
LEMMA SetRoots ==
    ASSUME NEW fs \in Seq(Frame), NEW r \in Root, NEW names \in SUBSET Name,
           NEW value \in Value \cup {Unset}
    PROVE  SameRoots(fs, SetSlots(fs, r, names, [n \in Name |-> value]))
<1> DEFINE new == [n \in Name |-> value]
<1>1. new \in Binding
  BY DEF Binding
<1> HIDE DEF new
<1>2. SameRoots(fs, SetSlots(fs, r, names, new))
  BY <1>1, SetSlotsFacts, SyncRoots
<1> QED BY <1>2 DEF new

\* Writing the register of the running frame keeps its root.
LEMMA RewriteRoots ==
    ASSUME NEW fs \in Seq(Frame), fs # <<>>, NEW f \in Frame, f.root = fs[Len(fs)].root
    PROVE  SameRoots(fs, [fs EXCEPT ![Len(fs)] = f])
<1>1. Len(fs) \in 1 .. Len(fs)
  BY SeqDrop
<1> DEFINE fs1 == [fs EXCEPT ![Len(fs)] = f]
<1>2. /\ fs1 \in Seq(Frame) /\ Len(fs1) = Len(fs) /\ fs1[Len(fs)] = f
      /\ \A i \in 1 .. Len(fs) : i # Len(fs) => fs1[i] = fs[i]
  BY <1>1, SeqReplace
<1> HIDE DEF fs1
<1>3. SameRoots(fs, fs1)
  BY <1>2 DEF SameRoots
<1> QED BY <1>3 DEF fs1

\* Two such changes make one.
LEMMA RootsTwice ==
    ASSUME NEW fs, NEW fs1, NEW fs2, SameRoots(fs, fs1), SameRoots(fs1, fs2)
    PROVE  SameRoots(fs, fs2)
BY DEF SameRoots

\* Only entering and leaving a Script frame change the frames that are live.
LEMMA RootsKept ==
    ASSUME CopiesInv, [Next]_vars, ~ EndScript,
           ~ \E r \in Root, code \in Code : StartScript(r, code)
    PROVE  SameRoots(frames, frames')
<1>0. frames \in Seq(Frame) /\ SameRoots(frames, frames)
  BY CopiesFacts DEF SameRoots
<1>1. ASSUME frames # <<>>
      PROVE  Top = frames[Len(frames)] /\ Top \in Frame /\ Top.root \in Root
             /\ Len(frames) \in 1 .. Len(frames)
  BY <1>1, RunningFacts
<1>2. ASSUME NEW r \in Root, NEW name \in Name, NEW value \in Value,
             AssignName(r, name, value) \/ InsertAttr(r, name, value)
      PROVE  SameRoots(frames, frames')
  <2> DEFINE names == {name}
  <2>1. names \in SUBSET Name /\ value \in Value \cup {Unset}
    OBVIOUS
  <2>2. frames' = SetSlots(frames, r, names, [n \in Name |-> value])
    BY <1>2 DEF AssignName, InsertAttr
  <2> HIDE DEF names
  <2> QED BY <1>0, <2>1, <2>2, SetRoots
<1>3. ASSUME NEW name \in Name, NEW value \in Value, StoreScriptLocal(name, value)
      PROVE  SameRoots(frames, frames')
  <2> DEFINE f == [Top EXCEPT !.regs[name] = value]
             stored == [frames EXCEPT ![Len(frames)] = f]
             new == [n \in Name |-> value]
             names == {name}
  <2>1. frames # <<>>
    BY <1>3 DEF StoreScriptLocal, Running
  <2>2. f \in Frame /\ f.root = Top.root /\ new \in Binding /\ names \in SUBSET Name
    BY <1>1, <2>1 DEF Frame, Binding
  <2>3. stored = [frames EXCEPT ![Len(frames)].regs[name] = value]
    BY <1>1, <2>1
  <2>4. frames' \in {SetSlots(stored, Top.root, names, new), stored}
    BY <1>3, <2>3 DEF StoreScriptLocal
  <2> HIDE DEF f
  <2>5. SameRoots(frames, stored)
    BY <1>0, <1>1, <2>1, <2>2, RewriteRoots
  <2> HIDE DEF stored, names
  <2>6. stored \in Seq(Frame)
    BY <2>5 DEF SameRoots
  <2>7. SameRoots(stored, SetSlots(stored, Top.root, names, new))
    BY <1>1, <2>1, <2>2, <2>6, SetRoots
  <2> HIDE DEF new
  <2> QED BY <2>4, <2>5, <2>7, RootsTwice
<1>4. ASSUME NEW name \in Name, NEW raise \in BOOLEAN, DeleteScriptLocal(name, raise)
      PROVE  SameRoots(frames, frames')
  <2> DEFINE f == [Top EXCEPT !.regs[name] = Unset]
             cleared == [frames EXCEPT ![Len(frames)] = f]
  <2>1. frames # <<>>
    BY <1>4 DEF DeleteScriptLocal, Running
  <2>2. f \in Frame /\ f.root = Top.root
    BY <1>1, <2>1 DEF Frame, Binding
  <2>3. cleared = [frames EXCEPT ![Len(frames)].regs[name] = Unset]
    BY <1>1, <2>1
  <2>4. frames' = ClearedSlots(cleared, Top.root, name)
    BY <1>4, <2>3 DEF DeleteScriptLocal
  <2> HIDE DEF f
  <2>5. SameRoots(frames, cleared)
    BY <1>0, <1>1, <2>1, <2>2, RewriteRoots
  <2> HIDE DEF cleared
  <2>6. cleared \in Seq(Frame)
    BY <2>5 DEF SameRoots
  <2> QED BY <1>1, <2>1, <2>4, <2>5, <2>6, ClearedRoots, RootsTwice
<1>5. ASSUME NEW name \in Name, BeginDelete(name)
      PROVE  SameRoots(frames, frames')
  <2> DEFINE f == [Top EXCEPT !.regs[name] = Unset, !.deleting = name]
  <2>1. frames # <<>>
    BY <1>5 DEF BeginDelete, Running
  <2>2. f \in Frame /\ f.root = Top.root
    BY <1>1, <2>1 DEF Frame, Binding
  <2>3. frames' = [frames EXCEPT ![Len(frames)] = f]
    BY <1>1, <1>5, <2>1 DEF BeginDelete
  <2> HIDE DEF f
  <2> QED BY <1>0, <1>1, <2>1, <2>2, <2>3, RewriteRoots
<1>6. ASSUME FinishDelete
      PROVE  SameRoots(frames, frames')
  <2> DEFINE f == [Top EXCEPT !.deleting = Unset]
             idle == [frames EXCEPT ![Len(frames)] = f]
  <2>1. frames # <<>>
    BY <1>6 DEF FinishDelete
  <2>2. f \in Frame /\ f.root = Top.root /\ Top.deleting \in Name
    BY <1>1, <1>6, <2>1 DEF Frame, FinishDelete
  <2>3. idle = [frames EXCEPT ![Len(frames)].deleting = Unset]
    BY <1>1, <2>1
  <2>4. frames' = ClearedSlots(idle, Top.root, Top.deleting)
    BY <1>6, <2>3 DEF FinishDelete
  <2> HIDE DEF f
  <2>5. SameRoots(frames, idle)
    BY <1>0, <1>1, <2>1, <2>2, RewriteRoots
  <2> HIDE DEF idle
  <2>6. idle \in Seq(Frame)
    BY <2>5 DEF SameRoots
  <2> QED BY <1>1, <2>1, <2>2, <2>4, <2>5, <2>6, ClearedRoots, RootsTwice
<1>7. ASSUME NEW r \in Root, NEW name \in Name, DeleteName(r, name)
      PROVE  SameRoots(frames, frames')
  BY <1>0, <1>7, ClearedRoots DEF DeleteName
<1>8. ASSUME NEW r \in Root, NEW name \in Name, NEW value \in Value \cup {Unset},
             AliasKeyMutation(r, name, value)
      PROVE  SameRoots(frames, frames')
  BY <1>0, <1>8, SetRoots DEF AliasKeyMutation
<1>9. ASSUME NEW r \in Root, AliasFullMutation(r)
      PROVE  SameRoots(frames, frames')
  BY <1>0, <1>9, SetRoots DEF AliasFullMutation
<1>10. ASSUME NEW r \in Root, NEW name \in Name, RemoveAttr(r, name)
       PROVE  SameRoots(frames, frames')
  BY <1>0, <1>10, SetRoots DEF RemoveAttr
<1>11. ASSUME frames' = frames
       PROVE  SameRoots(frames, frames')
  BY <1>0, <1>11
<1>12. ASSUME \/ \E site \in Site, r \in Root : LoadGlobal(site, r)
              \/ \E r \in Root : ExposeGlobals(r)
              \/ \E name \in Name, value \in Value \cup {Unset} :
                    BuiltinsMutation(name, value)
              \/ UNCHANGED vars
       PROVE  frames' = frames
  BY <1>12 DEF LoadGlobal, ExposeGlobals, BuiltinsMutation, vars
<1> QED BY <1>2, <1>3, <1>4, <1>5, <1>6, <1>7, <1>8, <1>9, <1>10, <1>11, <1>12 DEF Next

\* And only they turn the mirror epoch of a root.
LEMMA EpochKept ==
    ASSUME CopiesInv, [Next]_vars, ~ EndScript,
           ~ \E r \in Root, code \in Code : StartScript(r, code)
    PROVE  \A r \in Root : ns'[r].mirror_epoch = ns[r].mirror_epoch
<1> DEFINE Stays(r, s1) == ns' = [ns EXCEPT ![r] = s1]
                           /\ s1.mirror_epoch = ns[r].mirror_epoch
<1>0. /\ TypeOK /\ frames \in Seq(Frame)
      /\ ns \in [Root -> NamespaceState]
      /\ \A r \in Root : ns[r] \in NamespaceState
  BY CopiesFacts DEF TypeOK
<1>a. ASSUME NEW r \in Root, NEW s1, Stays(r, s1)
      PROVE  \A q \in Root : ns'[q].mirror_epoch = ns[q].mirror_epoch
  BY <1>0, <1>a
<1>b. ASSUME NEW r \in Root, NEW name \in Name
      PROVE  Removed(ns[r], r, name).mirror_epoch = ns[r].mirror_epoch
  BY <1>0, RemovedFacts DEF Dropped, Touches
<1>c. frames # <<>> => Top.root \in Root
  BY RunningFacts
<1>1. ASSUME NEW site \in Site, NEW r \in Root, LoadGlobal(site, r)
      PROVE  \E s1 : Stays(r, s1)
  <2>1. /\ RegisterInterest(ns[r], site, r).mirror_epoch = ns[r].mirror_epoch
        /\ SyncName(ns[r], SiteName[site]).mirror_epoch = ns[r].mirror_epoch
    BY <1>0 DEF RegisterInterest, SyncName, NamespaceState
  <2> QED BY <1>1, <2>1 DEF LoadGlobal
<1>2. ASSUME NEW r \in Root, NEW name \in Name, NEW value \in Value,
             AssignName(r, name, value)
      PROVE  \E s1 : Stays(r, s1)
  <2>1. [n \in Name |-> value] \in Binding /\ {name} \in SUBSET Name
    BY ConstantBinding
  <2>2. Wrote(ns[r], AssignedNames(ns[r], r, {name}, [n \in Name |-> value]), r, {name},
              [n \in Name |-> value])
    BY <1>0, <2>1, AssignedFacts
  <2> QED BY <1>2, <2>2 DEF AssignName, Wrote, Touches
<1>3. ASSUME NEW name \in Name, NEW value \in Value, StoreScriptLocal(name, value)
      PROVE  Top.root \in Root /\ \E s1 : Stays(Top.root, s1)
  <2>1. Top.root \in Root
    BY <1>3, <1>c DEF StoreScriptLocal, Running
  <2>2. SyncedWrite(ns[Top.root], Top.root, name, value).mirror_epoch
          = ns[Top.root].mirror_epoch
    BY <1>0, <2>1, SyncedFacts DEF Stored
  <2> QED BY <1>3, <2>1, <2>2 DEF StoreScriptLocal
<1>4. ASSUME NEW name \in Name, NEW raise \in BOOLEAN, DeleteScriptLocal(name, raise)
      PROVE  Top.root \in Root /\ \E s1 : Stays(Top.root, s1)
  <2>1. Top.root \in Root
    BY <1>4, <1>c DEF DeleteScriptLocal, Running
  <2> QED BY <1>4, <1>b, <2>1 DEF DeleteScriptLocal
<1>5. ASSUME FinishDelete
      PROVE  Top.root \in Root /\ \E s1 : Stays(Top.root, s1)
  <2>1. Top.root \in Root
    BY <1>5, <1>c DEF FinishDelete
  <2>2. Top.deleting \in Name
    BY <1>5, FinishDeleteEffect
  <2> QED BY <1>5, <1>b, <2>1, <2>2 DEF FinishDelete
<1>6. ASSUME NEW r \in Root, NEW name \in Name, DeleteName(r, name) \/ RemoveAttr(r, name)
      PROVE  \E s1 : Stays(r, s1)
  BY <1>6, <1>b DEF DeleteName, RemoveAttr
<1>7. ASSUME NEW r \in Root, ExposeGlobals(r)
      PROVE  \E s1 : Stays(r, s1)
  <2> DEFINE s1 == [ns[r] EXCEPT !.disabled = TRUE, !.globals = Snapshot(r),
                                 !.module_version = IF r \in FsRoot THEN MaxVersion ELSE @]
  <2>1. s1.mirror_epoch = ns[r].mirror_epoch
    BY <1>0 DEF NamespaceState
  <2>2. ns' = [ns EXCEPT ![r] = s1]
    BY <1>0, <1>7 DEF ExposeGlobals
  <2> QED BY <2>1, <2>2
<1>8. ASSUME NEW r \in Root, NEW name \in Name, NEW value \in Value \cup {Unset},
             AliasKeyMutation(r, name, value)
      PROVE  \E s1 : Stays(r, s1)
  <2>1. BumpStructure([ns[r] EXCEPT !.globals[name] = value], 1).mirror_epoch
          = ns[r].mirror_epoch
    BY <1>0 DEF BumpStructure, NamespaceState
  <2> QED BY <1>8, <2>1 DEF AliasKeyMutation
<1>9. ASSUME NEW r \in Root, AliasFullMutation(r)
      PROVE  \E s1 : Stays(r, s1)
  <2>1. BumpStructure([ns[r] EXCEPT !.globals = [n \in Name |-> Unset]], 1).mirror_epoch
          = ns[r].mirror_epoch
    BY <1>0 DEF BumpStructure, NamespaceState
  <2> QED BY <1>9, <2>1 DEF AliasFullMutation
<1>10. ASSUME NEW r \in Root, NEW name \in Name, NEW value \in Value,
              InsertAttr(r, name, value)
       PROVE  \E s1 : Stays(r, s1)
  <2> DEFINE s0 == [ns[r] EXCEPT !.globals[name] = value, !.values[name] = value,
                                 !.env_interest = @ \cup Mask[name]]
             k == IF ns[r].disabled THEN 2 ELSE 1
  <2>1. s0 \in NamespaceState /\ s0.mirror_epoch = ns[r].mirror_epoch
    BY <1>0, ConstantAssumption DEF NamespaceState, Binding
  <2>2. k \in Nat
    OBVIOUS
  <2>3. ns' = [ns EXCEPT ![r] = BumpModule(BumpStructure(s0, k), r, 1)]
    BY <1>10 DEF InsertAttr
  <2> HIDE DEF s0, k
  <2>4. BumpModule(BumpStructure(s0, k), r, 1).mirror_epoch = ns[r].mirror_epoch
    BY <2>1, <2>2, ModuleBumps DEF Bumps
  <2> QED BY <2>3, <2>4
<1>11. ASSUME \/ \E name \in Name : BeginDelete(name)
              \/ \E name \in Name, value \in Value \cup {Unset} : BuiltinsMutation(name, value)
              \/ UNCHANGED vars
       PROVE  ns' = ns
  BY <1>11 DEF BeginDelete, BuiltinsMutation, vars
<1> HIDE DEF Stays
<1> QED BY <1>a, <1>1, <1>2, <1>3, <1>4, <1>5, <1>6, <1>7, <1>8, <1>9, <1>10, <1>11 DEF Next

\* A generation advances by at most one at a time.
LEMMA AdvanceOne ==
    ASSUME NEW v \in Version
    PROVE  Advance(v, 1) \in Nat /\ Advance(v, 1) <= v + 1
BY ConstantAssumption DEF Advance, Version

\* The bound on the epochs is inductive.
LEMMA NextEpoch == EpochInv /\ [Next]_vars => EpochInv'
<1> SUFFICES ASSUME EpochInv, [Next]_vars PROVE EpochInv'
  OBVIOUS
<1>1. CopiesInv /\ CopiesInv' /\ TypeOK
  BY NextCopies, CopiesFacts DEF EpochInv
<1>2. /\ frames \in Seq(Frame) /\ Len(frames) \in Nat
      /\ ns \in [Root -> NamespaceState]
      /\ \A r \in Root : /\ ns[r] \in NamespaceState
                          /\ ns[r].mirror_epoch \in Version /\ ns[r].mirror_epoch \in Nat
      /\ \A i \in 1 .. Len(frames) : frames[i].root \in Root
      /\ EpochLimit \in Nat /\ MaxFrames \in Nat
  <2>1. /\ frames \in Seq(Frame) /\ ns \in [Root -> NamespaceState]
        /\ \A r \in Root : ns[r] \in NamespaceState
    BY <1>1 DEF TypeOK
  <2>2. \A s \in NamespaceState : s.mirror_epoch \in Version /\ s.mirror_epoch \in Nat
    BY ConstantAssumption DEF NamespaceState, Version
  <2>3. Len(frames) \in Nat /\ \A i \in 1 .. Len(frames) : frames[i] \in Frame
    BY <2>1
  <2>4. \A f \in Frame : f.root \in Root
    BY DEF Frame
  <2> QED BY <2>1, <2>2, <2>3, <2>4, ConstantAssumption
<1>3. \A i \in 1 .. Len(frames) :
        ns[frames[i].root].mirror_epoch + i <= EpochLimit + MaxFrames
  BY DEF EpochInv, EpochBelow
<1>4. CASE EndScript
  <2> DEFINE r == Top.root
             written == {n \in Name : Top.regs[n] # Unset}
             outer == SubSeq(frames, 1, Len(frames) - 1)
             t == TurnEpoch(ns[r], Top.code)
             s1 == AssignedNames(t, r, written, Top.regs)
  <2>1. /\ frames # <<>> /\ ns' = [ns EXCEPT ![r] = s1]
        /\ frames' = SetSlots(outer, r, written, Top.regs)
    BY <1>4 DEF EndScript, Running
  <2>2. /\ r \in Root /\ Top.code \in Code /\ Top.regs \in Binding
        /\ Top = frames[Len(frames)] /\ Len(frames) \in 1 .. Len(frames)
        /\ written \in SUBSET Name
    BY <1>1, <2>1, RunningFacts
  <2>3. /\ outer \in Seq(Frame) /\ Len(outer) = Len(frames) - 1
        /\ \A i \in 1 .. Len(frames) - 1 : outer[i] = frames[i]
    BY <1>2, <2>1, SeqDrop
  <2>4. Turned(ns[r], t, Top.code)
    BY <1>2, <2>2, TurnEpochFacts
  <2> HIDE DEF written, outer, t
  <2>5. t \in NamespaceState
    BY <2>4 DEF Turned
  <2>6. Wrote(t, s1, r, written, Top.regs)
    BY <2>2, <2>5, AssignedFacts
  <2> HIDE DEF s1
  <2>7. s1.mirror_epoch = t.mirror_epoch
    BY <2>6 DEF Wrote, Touches
  <2>8. t.mirror_epoch \in {ns[r].mirror_epoch, Advance(ns[r].mirror_epoch, 1)}
    BY <2>4 DEF Turned
  <2>9. s1.mirror_epoch \in Nat /\ s1.mirror_epoch <= ns[r].mirror_epoch + 1
    <3> DEFINE e == ns[r].mirror_epoch
    <3>1. e \in Version /\ e \in Nat /\ t.mirror_epoch \in {e, Advance(e, 1)}
      BY <1>2, <2>2, <2>8
    <3> HIDE DEF e
    <3>2. s1.mirror_epoch \in Nat /\ s1.mirror_epoch <= e + 1
      BY <2>7, <3>1, AdvanceOne
    <3> QED BY <3>2 DEF e
  <2>10. SameRoots(outer, frames')
    BY <2>1, <2>2, <2>3, SetSlotsFacts, SyncRoots
  <2>11. Len(frames') = Len(frames) - 1
         /\ \A i \in 1 .. Len(frames) - 1 : frames'[i].root = frames[i].root
    BY <2>3, <2>10 DEF SameRoots
  <2>12. ASSUME NEW i \in 1 .. Len(frames) - 1
         PROVE  ns'[frames[i].root].mirror_epoch + i <= EpochLimit + MaxFrames
    <3>1. /\ i \in 1 .. Len(frames) /\ i \in Nat /\ i + 1 <= Len(frames)
          /\ ns[frames[i].root].mirror_epoch + i <= EpochLimit + MaxFrames
          /\ frames[i].root \in Root
      BY <1>2, <1>3
    <3>2. ns[r].mirror_epoch + Len(frames) <= EpochLimit + MaxFrames
      BY <1>3, <2>2
    <3>3. CASE frames[i].root = r
      <4>1. ns'[frames[i].root].mirror_epoch = s1.mirror_epoch
        BY <1>2, <2>1, <2>2, <3>3
      <4>2. ns[r].mirror_epoch \in Nat
        BY <1>2, <2>2
      <4> HIDE DEF r
      <4> QED BY <1>2, <2>9, <3>1, <3>2, <4>1, <4>2
    <3>4. CASE frames[i].root # r
      BY <1>2, <2>1, <3>1, <3>4
    <3> QED BY <3>3, <3>4
  <2>13. EpochBelow(frames', ns')
    BY <2>11, <2>12 DEF EpochBelow
  <2> QED BY <1>1, <2>13 DEF EpochInv
<1>5. ASSUME NEW r \in Root, NEW code \in Code, StartScript(r, code)
      PROVE  EpochInv'
  <2> DEFINE f == [root |-> r, code |-> code, regs |-> [n \in Name |-> Unset],
                   deleting |-> Unset]
             s1 == TurnEpoch(ns[r], code)
  <2>1. /\ Len(frames) < MaxFrames /\ ns[r].mirror_epoch < EpochLimit
        /\ ns' = [ns EXCEPT ![r] = s1] /\ frames' = Append(frames, f)
    BY <1>5 DEF StartScript
  <2>2. f \in Frame /\ f.root = r
    BY DEF Frame, Binding
  <2> HIDE DEF f
  <2>3. /\ Len(frames') = Len(frames) + 1 /\ frames'[Len(frames) + 1].root = r
        /\ \A i \in 1 .. Len(frames) : frames'[i] = frames[i]
    BY <1>2, <2>1, <2>2
  <2>4. Turned(ns[r], s1, code)
    BY <1>2, TurnEpochFacts
  <2> HIDE DEF s1
  <2>5. s1.mirror_epoch \in {ns[r].mirror_epoch, Advance(ns[r].mirror_epoch, 1)}
    BY <2>4 DEF Turned
  <2>6. s1.mirror_epoch \in Nat /\ s1.mirror_epoch <= EpochLimit
    <3> DEFINE e == ns[r].mirror_epoch
    <3>1. e \in Version /\ e \in Nat /\ s1.mirror_epoch \in {e, Advance(e, 1)}
          /\ e < EpochLimit
      BY <1>2, <2>1, <2>5
    <3> HIDE DEF e
    <3> QED BY <1>2, <3>1, AdvanceOne
  <2>7. ASSUME NEW i \in 1 .. Len(frames) + 1
        PROVE  ns'[frames'[i].root].mirror_epoch + i <= EpochLimit + MaxFrames
    <3>1. i \in Nat /\ i <= MaxFrames
      BY <1>2, <2>1
    <3>2. CASE frames'[i].root = r
      <4>1. ns'[frames'[i].root].mirror_epoch = s1.mirror_epoch
        BY <1>2, <2>1, <3>2
      <4> QED BY <1>2, <2>6, <3>1, <4>1
    <3>3. CASE frames'[i].root # r
      <4>1. i \in 1 .. Len(frames) /\ frames'[i] = frames[i]
        BY <1>2, <2>3, <3>3
      <4> QED BY <1>2, <1>3, <2>1, <3>3, <4>1
    <3> QED BY <3>2, <3>3
  <2>8. EpochBelow(frames', ns')
    BY <2>3, <2>7 DEF EpochBelow
  <2> QED BY <1>1, <2>8 DEF EpochInv
<1>6. CASE ~ EndScript /\ ~ \E r \in Root, code \in Code : StartScript(r, code)
  <2>1. /\ SameRoots(frames, frames')
        /\ \A r \in Root : ns'[r].mirror_epoch = ns[r].mirror_epoch
    BY <1>1, <1>6, RootsKept, EpochKept
  <2>2. EpochBelow(frames', ns')
    BY <1>2, <1>3, <2>1 DEF EpochBelow, SameRoots
  <2> QED BY <1>1, <2>2 DEF EpochInv
<1> QED BY <1>4, <1>5, <1>6

\* Uncached resolution finds the binding Python code may observe and asks
\* the builtins module only for a name that has none, provided the mirror
\* epoch is wide enough for the Script frames that ever start: it counts
\* their entries and exits in 64 bits (resolve_global_uncached).
THEOREM ResolutionAlwaysSound ==
    ASSUME EpochLimit + MaxFrames <= MaxVersion
    PROVE  Spec => []ResolutionSound
<1>1. EpochInv => ResolutionSound
  <2> SUFFICES ASSUME EpochInv, NEW r \in Root, NEW n \in Name
               PROVE  Resolve(r, n) = IF Visible(r, n) # Unset
                                      THEN Visible(r, n) ELSE builtins[n]
    BY DEF ResolutionSound
  <2> DEFINE s == ns[r]
             s1 == SyncName(s, n)
             h == Held(frames, r, n)
  <2>1. /\ CopiesInv /\ TypeOK /\ frames \in Seq(Frame) /\ s \in NamespaceState
        /\ Len(frames) \in Nat
    BY CopiesFacts DEF EpochInv
  <2>2. PICK v \in Value \cup {Unset} : Means(s, h, r, n, v)
    BY <2>1 DEF CopiesInv, Meaning
  <2>3. /\ BoundSlots(r, n) = {} <=> h = {}
        /\ h = {} => FastLocal(r, n) = Unset
        /\ h # {} => FastLocal(r, n) \in h
    BY <2>1, FastLocalHeld
  <2>4. Visible(r, n) = v
    BY <2>1, <2>2, VisibleIs DEF MeaningVisible, Meaning
  <2>5. h # {} => s.mirror_epoch # MaxVersion
    <3> SUFFICES ASSUME h # {} PROVE s.mirror_epoch # MaxVersion
      OBVIOUS
    <3>1. PICK i \in 1 .. Len(frames) : frames[i].root = r
      BY <2>1, HeldElim
    <3>2. s.mirror_epoch + i <= EpochLimit + MaxFrames
      BY <3>1 DEF EpochInv, EpochBelow
    <3>3. s.mirror_epoch \in Nat /\ i \in Nat /\ i >= 1
      BY <2>1, ConstantAssumption DEF NamespaceState, Version
    <3> HIDE DEF s
    <3> QED BY <3>2, <3>3, ConstantAssumption
  <2>6. /\ s1.values[n] = IF s.disabled THEN s.globals[n] ELSE s.values[n]
        /\ s1.globals = s.globals /\ s1.mirror_epoch = s.mirror_epoch
    BY <2>1 DEF SyncName, NamespaceState, Binding
  <2>7. h \subseteq {v} /\ Unset \notin h
    BY <2>2 DEF Means
  <2>8. \/ s1.values[n] = v /\ v # Unset
        \/ s1.values[n] = Unset /\ s1.globals[n] = v /\ v # Unset
        \/ s1.values[n] = Unset /\ s1.globals[n] = Unset /\ v # Unset /\ h # {}
        \/ s1.values[n] = Unset /\ s1.globals[n] = Unset /\ v = Unset /\ h = {}
    <3> HIDE DEF s, s1, h
    <3> QED BY <2>2, <2>6 DEF Means
  <2> HIDE DEF h
  <2>9. CASE s1.values[n] = v /\ v # Unset
    BY <2>4, <2>9 DEF Resolve, Source
  <2>10. CASE s1.values[n] = Unset /\ s1.globals[n] = v /\ v # Unset
    BY <2>4, <2>10 DEF Resolve, Source
  <2>11. CASE s1.values[n] = Unset /\ s1.globals[n] = Unset /\ v # Unset /\ h # {}
    BY <2>3, <2>4, <2>5, <2>6, <2>7, <2>11 DEF Resolve, Source
  <2>12. CASE s1.values[n] = Unset /\ s1.globals[n] = Unset /\ v = Unset /\ h = {}
    BY <2>3, <2>4, <2>12 DEF Resolve, Source
  <2> QED BY <2>8, <2>9, <2>10, <2>11, <2>12
<1>2. Init => EpochInv
  BY InitCopies DEF Init, EpochInv, EpochBelow
<1> QED BY <1>1, <1>2, NextEpoch, PTL DEF Spec
=============================================================================
