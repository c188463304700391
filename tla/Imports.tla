------------------------------- MODULE Imports -------------------------------
(***************************************************************************)
(* Module loading: the object-owner map (module_cache), the interpreter's  *)
(* original registry dict, the registry that sys.modules is bound to, and  *)
(* the two caches that short-cut the lookups.                              *)
(*                                                                         *)
(* A name is looked up in the original registry first, then in the visible *)
(* one.  A module is published in the owner map and the visible registry   *)
(* before its body runs, so that a circular import finds the partial       *)
(* object, and is taken out of both when its body raises.  A file module   *)
(* runs in an interpreter of its own, with caches of its own, that shares  *)
(* the owner map and the original registry.  A body is user code: between  *)
(* its steps it may import, edit a registry, rebind sys.modules or patch a *)
(* module, and it ends by returning or raising.                            *)
(*                                                                         *)
(* A generation counter is modelled up to MaxGen, where it stops: the code *)
(* accepts no cached generation from its largest value on, whether the     *)
(* counter saturates (modules) or wraps with a sticky flag (dicts).        *)
(***************************************************************************)
EXTENDS Integers, Sequences, FiniteSets, SequencesExt

CONSTANTS
    Names,          \* module names
    Sys,            \* "sys": built in, no Python body
    Typing,         \* a built-in module with a Python body and a cached class
    Found,          \* the names for which a built-in or a file exists
    Classes,        \* values of the cached class attribute
    Registries,     \* mappings sys.modules may be bound to
    Boot,           \* the interpreter's original registry
    Protocols,      \* the registries that are not exact dicts
    Absent,         \* no entry, no attribute
    Foreign,        \* an entry a program made up: None, which blocks the import,
                    \* or an object without the class; either ends the lookup
    MaxObjects,     \* bound: module objects created
    MaxDepth,       \* bound: bodies running inside one another
    MaxEdits,       \* bound: edits, rebindings and patches by the program
    MaxAliases,     \* bound: entries that hold an alias at a time
    MaxGen          \* bound: the generation at which caching stops

ASSUME NamesAssumption == {Sys, Typing} \subseteq Found /\ Found \subseteq Names
ASSUME RegistriesAssumption == Boot \in Registries \ Protocols /\ Protocols \subseteq Registries
ASSUME MarkersAssumption ==
    \A m \in {Absent, Foreign} : m \notin Nat /\ m \notin Registries /\ m \notin Classes
ASSUME GenAssumption == MaxGen \in Nat

VARIABLES
    objs,           \* the module objects created so far
    owner,          \* module_cache: name -> object
    regs,           \* contents of the registries
    bootGen,        \* generation of the original registry
    levels,         \* caches of the interpreters, the main one first
    stack,          \* the bodies running, innermost last
    edits,          \* edits, rebindings and patches so far, for the bound only
    touched,        \* history: names whose entry changed hands since they were loaded,
                    \* by an edit or because another registry became visible
    aliases         \* history: the entries <<registry, name>> in which the program put a
                    \* module that load_module has not published there or has given up

vars == <<objs, owner, regs, bootGen, levels, stack, edits, touched, aliases>>

Objects == 1..Len(objs)
NoCache == [none |-> TRUE]
NoLevel == [reg |-> NoCache, cls |-> NoCache]
Top == Len(levels)
IsFile(n) == n \notin {Sys, Typing}

-----------------------------------------------------------------------------
(* Generations and the caches they guard.                                  *)

Usable(g) == g < MaxGen

Bump(g) == IF g < MaxGen THEN g + 1 ELSE g

\* A dict counts its mutations only while a cache entry observes it.
BootObserved == \E i \in 1..Top : levels[i].cls # NoCache

NamespaceObserved(o) ==
    \E i \in 1..Top : \/ levels[i].reg # NoCache /\ levels[i].reg.sys = o
                      \/ levels[i].cls # NoCache /\ levels[i].cls.sys = o

\* The registry an uncached lookup finds: the bootstrap one before sys exists.
VisibleIn(own, obs) == IF own[Sys] = Absent THEN Boot ELSE obs[own[Sys]].binding

Visible == VisibleIn(owner, objs)

\* Mutated RegistryCacheValid: the identity of sys is not compared.
RegistryCacheValidAnySys(c, own, obs) ==
    /\ c # NoCache
    /\ Usable(c.version)
    /\ obs[c.sys].gen = c.version

RegistryCacheValid(c, own, obs) ==
    /\ c # NoCache
    /\ c.sys = own[Sys]
    /\ Usable(c.version)
    /\ obs[c.sys].gen = c.version

\* import_module_registry: what it returns to an interpreter with cache c ...
Resolve(c, own, obs) ==
    IF RegistryCacheValid(c, own, obs) THEN c.registry ELSE VisibleIn(own, obs)

\* ... and the cache it leaves.
Recached(c, own, obs) ==
    LET r == VisibleIn(own, obs)
    IN  IF RegistryCacheValid(c, own, obs) \/ own[Sys] = Absent \/ r = Absent THEN c
        ELSE IF r \notin Protocols /\ Usable(obs[own[Sys]].gen)
        THEN [sys |-> own[Sys], version |-> obs[own[Sys]].gen, registry |-> r]
        ELSE NoCache

\* The caches l of an interpreter that has asked for the registry.
Refreshed(l, own, obs) == [l EXCEPT !.reg = Recached(l.reg, own, obs)]

\* Mutated ClassCacheHit: the generation of the registry is not compared.
ClassCacheHitAnyRegistry(e) ==
    /\ e # NoCache
    /\ Usable(e.sysVersion) /\ objs[e.sys].gen = e.sysVersion
    /\ Usable(e.moduleVersion) /\ objs[e.module].gen = e.moduleVersion

ClassCacheHit(e) ==
    /\ e # NoCache
    /\ Usable(e.sysVersion) /\ objs[e.sys].gen = e.sysVersion
    /\ Usable(e.bootVersion) /\ bootGen = e.bootVersion
    /\ Usable(e.moduleVersion) /\ objs[e.module].gen = e.moduleVersion

-----------------------------------------------------------------------------
(* Lookup and publication.                                                 *)

\* What the lookups of load_module find for n when no cache is stale.
Lookup(n) ==
    IF regs[Boot][n] # Absent \/ Visible = Absent THEN regs[Boot][n]
    ELSE regs[Visible][n]

\* Module v in the entry of n in registry r: under another name, in another
\* mapping than it was published in, or stored again after its body failed.
IsAlias(r, n, v) ==
    /\ v \in Objects
    /\ objs[v].name # n \/ objs[v].home # r \/ objs[v].status = "failed"

\* The entry of n in registry r becomes v; mutations of the original registry
\* are counted while it is observed.
WriteEntry(r, n, v) ==
    /\ regs' = [regs EXCEPT ![r][n] = v]
    /\ bootGen' = IF r = Boot /\ BootObserved THEN Bump(bootGen) ELSE bootGen
    /\ aliases' = IF IsAlias(r, n, v) THEN aliases \union {<<r, n>>} ELSE aliases \ {<<r, n>>}

\* `home` and `missed` are history: where the module was published, and that
\* its failure found another registry visible or was refused the deletion.
NewModule(n, home) ==
    [name |-> n, status |-> IF n = Sys THEN "ready" ELSE "running",
     binding |-> IF n = Sys THEN Boot ELSE Absent, cls |-> Absent, gen |-> 0,
     stray |-> FALSE,   \* history: returned by its import although not found any more
     home |-> home, missed |-> FALSE]

-----------------------------------------------------------------------------
Init ==
    /\ objs = <<>>
    /\ owner = [n \in Names |-> Absent]
    /\ regs = [r \in Registries |-> [n \in Names |-> Absent]]
    /\ bootGen = 0
    /\ levels = <<NoLevel>>
    /\ stack = <<>>
    /\ edits = 0
    /\ touched = {}
    /\ aliases = {}

\* The slot of the class cache after a lookup that found module o, as the
\* interpreter with caches l leaves it.
ClassEntry(l, o) ==
    LET r == Resolve(l.reg, owner, objs)
        c == Recached(l.reg, owner, objs)
    IN  IF /\ r = Boot
           /\ owner[Sys] # Absent
           /\ Usable(objs[owner[Sys]].gen) /\ Usable(bootGen) /\ Usable(objs[o].gen)
        THEN [reg |-> c,
              cls |-> [sys |-> owner[Sys], sysVersion |-> objs[owner[Sys]].gen,
                       bootVersion |-> bootGen, module |-> o,
                       moduleVersion |-> objs[o].gen, class |-> objs[o].cls]]
        ELSE [reg |-> c, cls |-> NoCache]

\* resolve_module_class_cache_miss once load_module has answered v.
FillClass(v) ==
    levels' = IF v \in Objects /\ objs[v].cls # Absent
              THEN [levels EXCEPT ![Top] = ClassEntry(@, v)]
              ELSE levels

\* The original registry knows the name, or a program blocked it there.
LoadInternal(n, wanted) ==
    /\ regs[Boot][n] # Absent
    /\ IF wanted THEN FillClass(regs[Boot][n]) ELSE UNCHANGED levels
    /\ UNCHANGED <<objs, owner, regs, bootGen, stack, edits, touched, aliases>>

\* Only the visible registry knows it.  If sys.modules is gone the import
\* raises and nothing changes.
LoadVisible(n, wanted) ==
    LET r == Resolve(levels[Top].reg, owner, objs)
    IN  /\ regs[Boot][n] = Absent
        /\ r # Absent
        /\ regs[r][n] # Absent
        /\ levels' = [levels EXCEPT ![Top] =
              IF wanted /\ regs[r][n] \in Objects /\ objs[regs[r][n]].cls # Absent
              THEN ClassEntry(Refreshed(@, owner, objs), regs[r][n])
              ELSE Refreshed(@, owner, objs)]
        /\ UNCHANGED <<objs, owner, regs, bootGen, stack, edits, touched, aliases>>

\* Neither does, and there is nothing to load: the stale owner goes.
LoadMissing(n) ==
    LET r == Resolve(levels[Top].reg, owner, objs)
    IN  /\ regs[Boot][n] = Absent
        /\ r # Absent /\ regs[r][n] = Absent
        /\ n \notin Found
        /\ owner' = [owner EXCEPT ![n] = Absent]
        /\ levels' = [levels EXCEPT ![Top] = Refreshed(@, owner, objs)]
        /\ UNCHANGED <<objs, regs, bootGen, stack, edits, touched, aliases>>

\* A fresh object is published, in the owner map and in the registry that is
\* visible then, before its body runs.
LoadFresh(n, wanted) ==
    LET r  == Resolve(levels[Top].reg, owner, objs)
        o  == Len(objs) + 1
        newObjs  == Append(objs, NewModule(n, IF n = Sys THEN Boot ELSE r))
        newOwner == [owner EXCEPT ![n] = o]
        l  == Refreshed(levels[Top], owner, objs)
        r2 == Resolve(l.reg, newOwner, newObjs)
        parents == [levels EXCEPT ![Top] = Refreshed(l, newOwner, newObjs)]
    IN  /\ regs[Boot][n] = Absent
        /\ r # Absent /\ regs[r][n] = Absent
        /\ n \in Found
        /\ o <= MaxObjects
        /\ Len(stack) < MaxDepth
        /\ objs' = newObjs
        /\ owner' = newOwner
        /\ WriteEntry(r2, n, o)
        /\ touched' = (IF VisibleIn(newOwner, newObjs) = r THEN touched ELSE Names) \ {n}
        /\ UNCHANGED edits
        /\ IF n = Sys
           THEN /\ levels' = parents
                /\ UNCHANGED stack
           ELSE /\ levels' = IF IsFile(n) THEN Append(parents, NoLevel) ELSE parents
                /\ stack' = Append(stack, [name |-> n, obj |-> o, wanted |-> wanted])

\* A registry that is no dict refuses the new entry: nothing stays behind.
LoadRefused(n) ==
    LET r == Resolve(levels[Top].reg, owner, objs)
    IN  /\ regs[Boot][n] = Absent
        /\ r \in Protocols /\ regs[r][n] = Absent
        /\ n \in Found
        /\ n # Sys
        /\ owner' = [owner EXCEPT ![n] = Absent]
        /\ levels' = [levels EXCEPT ![Top] = Refreshed(@, owner, objs)]
        /\ touched' = touched \ {n}
        /\ UNCHANGED <<objs, regs, bootGen, stack, edits, aliases>>

Import(n, wanted) ==
    \/ LoadInternal(n, wanted)
    \/ LoadVisible(n, wanted)
    \/ LoadMissing(n)
    \/ LoadFresh(n, wanted)
    \/ LoadRefused(n)

\* cached_module_class: a hit needs three generations and changes nothing, a
\* miss looks the module up.
CachedModuleClass ==
    ~ClassCacheHit(levels[Top].cls) /\ Import(Typing, TRUE)

\* Mutated Outer: the interpreter of a file module is never left.
OuterKept == levels

\* The importer's level: a file module's interpreter ends with its body.
Outer == IF IsFile(Last(stack).name) THEN Front(levels) ELSE levels

\* The body returns; a pending class lookup goes on with the module.
BodyReturns ==
    LET f == Last(stack)
    IN  /\ stack # <<>>
        /\ objs' = [objs EXCEPT ![f.obj].status = "ready",
                                ![f.obj].stray = Lookup(f.name) # f.obj]
        /\ stack' = Front(stack)
        /\ IF f.wanted THEN FillClass(f.obj) ELSE levels' = Outer
        /\ UNCHANGED <<owner, regs, bootGen, edits, touched, aliases>>

\* Mutated BodyRaises: only the owner map forgets the failed module.
BodyRaisesOwnerOnly ==
    LET f == Last(stack)
    IN  /\ stack # <<>>
        /\ objs' = [objs EXCEPT ![f.obj].status = "failed"]
        /\ stack' = Front(stack)
        /\ owner' = [owner EXCEPT ![f.name] = Absent]
        /\ levels' = Outer
        /\ UNCHANGED <<regs, bootGen, edits, touched, aliases>>

\* unregister_failed_module, in the importer's interpreter: the name leaves
\* the owner map and the registry visible now, if that one lets it go.
BodyRaises ==
    LET f == Last(stack)
        n == f.name
        o == Len(Outer)
        newOwner == [owner EXCEPT ![n] = Absent]
        r == Resolve(Outer[o].reg, newOwner, objs)
    IN  /\ stack # <<>>
        /\ UNCHANGED edits
        /\ stack' = Front(stack)
        /\ owner' = newOwner
        /\ levels' = [Outer EXCEPT ![o] = Refreshed(@, newOwner, objs)]
        /\ \/ /\ r # Absent
              /\ WriteEntry(r, n, Absent)
              /\ objs' = [objs EXCEPT ![f.obj].status = "failed",
                                      ![f.obj].missed = Visible # objs[f.obj].home]
              /\ UNCHANGED touched
           \/ /\ r \in Protocols \union {Absent}
              /\ objs' = [objs EXCEPT ![f.obj].status = "failed", ![f.obj].missed = TRUE]
              /\ touched' = touched \union {n}
              /\ UNCHANGED <<regs, bootGen, aliases>>

-----------------------------------------------------------------------------
(* What a program may do once it has sys.                                  *)

SysExists == \E o \in Objects : objs[o].name = Sys

Edits == edits < MaxEdits /\ edits' = edits + 1

\* sys.modules[n] = v and del sys.modules[n], on any registry it can reach: v is
\* any module created so far, under its own name or as an alias, or something
\* made up.  A copy dict(sys.modules) is a series of these on another registry.
EditEntry(r, n, v) ==
    /\ Edits
    /\ SysExists
    /\ regs[r][n] # v
    /\ IsAlias(r, n, v) => Cardinality(aliases) < MaxAliases
    /\ WriteEntry(r, n, v)
    /\ touched' = touched \union {n}
    /\ UNCHANGED <<objs, owner, levels, stack>>

\* sys.modules = r, or del sys.modules, on a sys object it holds.
Rebind(o, r) ==
    /\ Edits
    /\ objs[o].name = Sys
    /\ objs[o].binding # r
    /\ objs' = [objs EXCEPT ![o].binding = r,
                            ![o].gen = IF NamespaceObserved(o) THEN Bump(@) ELSE @]
    /\ touched' = IF o = owner[Sys] THEN Names ELSE touched
    /\ UNCHANGED <<owner, regs, bootGen, levels, stack, aliases>>

\* The module's body, or a monkey patch, sets or deletes the class attribute.
PatchClass(o, c) ==
    /\ Edits
    /\ objs[o].name = Typing
    /\ objs[o].cls # c
    /\ objs' = [objs EXCEPT ![o].cls = c, ![o].gen = Bump(@)]
    /\ UNCHANGED <<owner, regs, bootGen, levels, stack, touched, aliases>>

Next ==
    \/ \E n \in Names : Import(n, FALSE)
    \/ CachedModuleClass
    \/ BodyReturns
    \/ BodyRaises
    \/ \E r \in Registries, n \in Names, v \in Objects \union {Absent, Foreign} :
          EditEntry(r, n, v)
    \/ \E o \in Objects, r \in Registries \union {Absent} : Rebind(o, r)
    \/ \E o \in Objects, c \in Classes \union {Absent} : PatchClass(o, c)

Spec == Init /\ [][Next]_vars

-----------------------------------------------------------------------------
TypeOK ==
    /\ owner \in [Names -> Objects \union {Absent}]
    /\ \A r \in Registries, n \in Names :
          regs[r][n] \in Objects \union {Absent, Foreign}
    /\ Top = 1 + Cardinality({i \in 1..Len(stack) : IsFile(stack[i].name)})
    /\ bootGen \in 0..MaxGen
    /\ \A o \in Objects : /\ objs[o].gen \in 0..MaxGen
                          /\ objs[o].binding \in Registries \union {Absent}
                          /\ objs[o].cls \in Classes \union {Absent}

\* A valid entry of the registry cache, in any interpreter, names the mapping
\* sys.modules is bound to at this moment, although sys may have been reloaded
\* or rebound by another interpreter since it was filled.
RegistryCacheSound ==
    \A i \in 1..Top :
        RegistryCacheValid(levels[i].reg, owner, objs) => levels[i].reg.registry = Visible

\* A hit of the class cache, in any interpreter, is the class that an import
\* of the module and a read of the attribute would give now.  Left out is a
\* module that lost its entry while its own body ran: load_module returns it
\* all the same and the cache is filled from it.
ClassCacheSound ==
    \A i \in 1..Top :
        ClassCacheHit(levels[i].cls) /\ ~objs[levels[i].cls.module].stray =>
            /\ Lookup(Typing) = levels[i].cls.module
            /\ objs[levels[i].cls.module].cls = levels[i].cls.class

\* Unless a program edited the entry since the module was loaded, the owner
\* map and the lookup agree on every name: one object per name, the partial
\* one while its body runs, none after a failure.
OwnerAgrees ==
    \A n \in Names \ touched : Lookup(n) = owner[n]

\* An entry that holds a module whose body raised was made by the program:
\* what load_module published, and what the program itself put back under the
\* module's own name before the failure, is gone, so that a later import runs
\* the body again; even if the name was edited or loaded a second time
\* meanwhile.  unregister_failed_module removes one name from one mapping, so
\* an alias stays (aliases).  Left out is a failure that found sys.modules
\* rebound since the publication, or a registry that refuses the deletion.
FailedIsGone ==
    \A r \in Registries, n \in Names :
        regs[r][n] \in Objects /\ <<r, n>> \notin aliases =>
            objs[regs[r][n]].status # "failed" \/ objs[regs[r][n]].missed

\* The owner map and the registries tell the same story of every import, the
\* failed ones included (load_module, unregister_failed_module).
RegistriesAgree == OwnerAgrees /\ FailedIsGone
=============================================================================
