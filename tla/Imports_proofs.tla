--------------------------- MODULE Imports_proofs ---------------------------
(* Proofs about Imports, for every value of its constants. *)
EXTENDS Imports, FiniteSetTheorems, TLAPS

-----------------------------------------------------------------------------
(* The inductive invariant *)

\* The types of module objects, cache entries, interpreters and running bodies.
Module ==
    [name : Names, status : {"ready", "running", "failed"},
     binding : Registries \union {Absent}, cls : Classes \union {Absent},
     gen : 0..MaxGen, stray : BOOLEAN, home : Registries, missed : BOOLEAN]

RegistryEntry == [sys : Nat, version : Nat, registry : Registries]
ClassEntries ==
    [sys : Nat, sysVersion : Nat, bootVersion : Nat, module : Nat,
     moduleVersion : Nat, class : Classes]
Level == [reg : {NoCache} \union RegistryEntry, cls : {NoCache} \union ClassEntries]
Body == [name : Names, obj : Nat, wanted : BOOLEAN]

\* The types of the variables.
Types ==
    /\ objs \in Seq(Module)
    /\ owner \in [Names -> Objects \union {Absent}]
    /\ regs \in [Registries -> [Names -> Objects \union {Absent, Foreign}]]
    /\ bootGen \in 0..MaxGen
    /\ levels \in Seq(Level)
    /\ stack \in Seq(Body)

\* The places of a stack where the body of a file module runs.
FilesOf(st) == {i \in 1..Len(st) : IsFile(st[i].name)}

\* One interpreter for the program and one for each file module that is loading.
Count == Len(levels) = 1 + Cardinality(FilesOf(stack))

\* A registry-cache entry is not newer than the namespace of its sys object,
\* and while it is as new and usable it names what that object is bound to.
RegOK(c, obs) ==
    c # NoCache =>
      /\ c.sys \in 1..Len(obs) /\ c.version <= obs[c.sys].gen
      /\ obs[c.sys].gen = c.version /\ Usable(c.version) =>
            c.registry = obs[c.sys].binding

\* The same for a class-cache entry: `cur` is the entry of the module in the
\* original registry, `bg` the generation of that registry.
ClassOK(e, obs, cur, bg) ==
    e # NoCache =>
      /\ e.module \in 1..Len(obs) /\ e.bootVersion <= bg
      /\ e.moduleVersion <= obs[e.module].gen
      /\ bg = e.bootVersion /\ Usable(bg) /\ ~ obs[e.module].stray => cur = e.module
      /\ obs[e.module].gen = e.moduleVersion /\ Usable(e.moduleVersion) =>
            obs[e.module].cls = e.class

\* The two caches of an interpreter.
LevelOK(l, obs, cur, bg) ==
    l \in Level /\ RegOK(l.reg, obs) /\ ClassOK(l.cls, obs, cur, bg)

\* The caches of all of them.
LevelsOK(ls, obs, cur, bg) ==
    ls \in Seq(Level) /\ \A i \in 1..Len(ls) : LevelOK(ls[i], obs, cur, bg)

\* The same, of the current state.
Caches == LevelsOK(levels, objs, regs[Boot][Typing], bootGen)

\* The bodies running are those of distinct objects that are not stray; sys has
\* none, and only the body of typing has a class lookup waiting for it.
BodiesOf(st, obs) ==
    /\ \A i \in 1..Len(st) :
         /\ st[i].obj \in 1..Len(obs) /\ st[i].name = obs[st[i].obj].name
         /\ st[i].name # Sys /\ ~ obs[st[i].obj].stray
         /\ st[i].wanted => st[i].name = Typing
    /\ \A i, j \in 1..Len(st) : st[i].obj = st[j].obj => i = j

\* The same, of the current state.
Bodies == BodiesOf(stack, objs)

\* An object is found under its own name, in the registry it was published in,
\* and not after its body failed.
AtHome(v, r, n, obs) ==
    v \in 1..Len(obs) =>
      /\ obs[v].name = n /\ obs[v].home = r
      /\ obs[v].status # "failed" \/ obs[v].missed

\* The same, of every entry but the aliases the program made.
Homes ==
    \A r \in Registries, n \in Names :
        <<r, n>> \in aliases \/ AtHome(regs[r][n], r, n, objs)

\* A name nobody touched is found where the owner map has it, and is not in the
\* original registry while another one is visible.
LookupIn(n, vis, rg) ==
    IF rg[Boot][n] # Absent \/ vis = Absent THEN rg[Boot][n] ELSE rg[vis][n]

\* What the owner map and the registries say about a name.
NameOK(n, vis, rg, own) ==
    /\ LookupIn(n, vis, rg) = own[n]
    /\ vis # Boot => rg[Boot][n] = Absent

\* They agree about every name that Python code left alone.
Agree == \A n \in Names \ touched : NameOK(n, Visible, regs, owner)

\* The inductive invariant.
IInv == Types /\ Count /\ Caches /\ Bodies /\ Homes /\ Agree

-----------------------------------------------------------------------------
(* The caches *)

\* Every object is still there, with the namespace it had, and none is found
\* again that was stray.
Grown(obs, obs2) ==
    /\ Len(obs) \in Nat /\ Len(obs2) \in Nat /\ Len(obs) <= Len(obs2)
    /\ \A o \in 1..Len(obs) :
         /\ obs2[o].gen = obs[o].gen /\ obs2[o].binding = obs[o].binding
         /\ obs2[o].cls = obs[o].cls /\ (obs[o].stray => obs2[o].stray)

\* What the caches know survives that.
LEMMA LevelGrown ==
    ASSUME NEW l, NEW obs, NEW obs2, NEW cur, NEW bg,
           Grown(obs, obs2), LevelOK(l, obs, cur, bg)
    PROVE  LevelOK(l, obs2, cur, bg)
<1>1. \A o \in 1..Len(obs) : o \in 1..Len(obs2)
  BY DEF Grown
<1>2. RegOK(l.reg, obs2)
  BY <1>1 DEF Grown, LevelOK, RegOK
<1>3. ClassOK(l.cls, obs2, cur, bg)
  BY <1>1 DEF Grown, LevelOK, ClassOK
<1> QED BY <1>2, <1>3 DEF LevelOK

\* The caches stay right when objects are added or move on.
LEMMA LevelsGrown ==
    ASSUME NEW ls, NEW obs, NEW obs2, NEW cur, NEW bg,
           Grown(obs, obs2), LevelsOK(ls, obs, cur, bg)
    PROVE  LevelsOK(ls, obs2, cur, bg)
BY LevelGrown DEF LevelsOK

\* Nothing happened to the objects.
LEMMA GrownRefl ==
    ASSUME NEW obs \in Seq(Module)
    PROVE  Grown(obs, obs)
BY DEF Grown

\* An element of a sequence is replaced.
LEMMA SetSeq ==
    ASSUME NEW S, NEW s \in Seq(S), NEW k, NEW v \in S
    PROVE  /\ [s EXCEPT ![k] = v] \in Seq(S) /\ Len([s EXCEPT ![k] = v]) = Len(s)
           /\ \A i \in 1..Len(s) : [s EXCEPT ![k] = v][i] = IF i = k THEN v ELSE s[i]
<1> DEFINE t == [s EXCEPT ![k] = v]
<1>1. Len(s) \in Nat /\ DOMAIN s = 1..Len(s) /\ \A i \in 1..Len(s) : s[i] \in S
  OBVIOUS
<1>2. DOMAIN t = 1..Len(s) /\ \A i \in 1..Len(s) : t[i] = IF i = k THEN v ELSE s[i]
  BY <1>1
<1>3. t = [i \in 1..Len(s) |-> IF i = k THEN v ELSE s[i]]
  BY <1>1
<1> HIDE DEF t
<1>4. t \in Seq(S) /\ Len(t) = Len(s)
  BY <1>1, <1>3
<1> QED BY <1>2, <1>4 DEF t

\* The first elements of a sequence.
LEMMA PrefixSeq ==
    ASSUME NEW S, NEW s \in Seq(S), NEW n \in 0..Len(s)
    PROVE  /\ SubSeq(s, 1, n) \in Seq(S) /\ Len(SubSeq(s, 1, n)) = n
           /\ \A i \in 1..n : SubSeq(s, 1, n)[i] = s[i]
OBVIOUS

\* The k-th level of ls is replaced by l.
Replaced(ls, ls2, k, l) == ls2 = [ls EXCEPT ![k] = l]

\* One level is replaced, one is added, one is left.
LEMMA LevelSet ==
    ASSUME NEW ls, NEW ls2, NEW obs, NEW cur, NEW bg, LevelsOK(ls, obs, cur, bg), NEW k, NEW l,
           LevelOK(l, obs, cur, bg), Replaced(ls, ls2, k, l)
    PROVE  LevelsOK(ls2, obs, cur, bg) /\ Len(ls2) = Len(ls)
<1>1. ls \in Seq(Level) /\ l \in Level
  BY DEF LevelsOK, LevelOK
<1>2. /\ [ls EXCEPT ![k] = l] \in Seq(Level) /\ Len([ls EXCEPT ![k] = l]) = Len(ls)
      /\ \A i \in 1..Len(ls) : [ls EXCEPT ![k] = l][i] = IF i = k THEN l ELSE ls[i]
  BY <1>1, SetSeq
<1>3. ls2 \in Seq(Level) /\ Len(ls2) = Len(ls)
  BY <1>2 DEF Replaced
<1>4. \A i \in 1..Len(ls) : ls2[i] = IF i = k THEN l ELSE ls[i]
  BY <1>2 DEF Replaced
<1> QED BY <1>3, <1>4 DEF LevelsOK

\* A new interpreter starts with empty caches.
LEMMA LevelPush ==
    ASSUME NEW ls, NEW obs, NEW cur, NEW bg, LevelsOK(ls, obs, cur, bg)
    PROVE  /\ LevelsOK(Append(ls, NoLevel), obs, cur, bg)
           /\ Len(Append(ls, NoLevel)) = Len(ls) + 1
<1>1. ls \in Seq(Level) /\ Len(ls) \in Nat
  BY DEF LevelsOK
<1>2. NoLevel \in Level /\ NoLevel.reg = NoCache /\ NoLevel.cls = NoCache
  BY DEF NoLevel, Level
<1>3. LevelOK(NoLevel, obs, cur, bg)
  BY <1>2 DEF LevelOK, RegOK, ClassOK
<1> HIDE DEF NoLevel
<1>4. /\ Append(ls, NoLevel) \in Seq(Level) /\ Len(Append(ls, NoLevel)) = Len(ls) + 1
      /\ \A i \in 1..Len(ls) : Append(ls, NoLevel)[i] = ls[i]
      /\ Append(ls, NoLevel)[Len(ls) + 1] = NoLevel
  BY <1>1, <1>2
<1>5. \A i \in 1..Len(ls) + 1 : i \in 1..Len(ls) \/ i = Len(ls) + 1
  BY <1>1
<1> QED BY <1>3, <1>4, <1>5 DEF LevelsOK

\* A sequence without its last element.
LEMMA FrontSeq ==
    ASSUME NEW S, NEW s \in Seq(S), s # <<>>
    PROVE  /\ Front(s) \in Seq(S) /\ Len(Front(s)) = Len(s) - 1 /\ Len(s) \in Nat \ {0}
           /\ \A i \in 1..Len(s) - 1 : Front(s)[i] = s[i]
           /\ Last(s) = s[Len(s)] /\ Last(s) \in S
<1>1. Len(s) \in Nat /\ Len(s) # 0
  OBVIOUS
<1>2. Len(s) - 1 \in 0..Len(s) /\ Len(s) \in 1..Len(s)
  BY <1>1
<1>3. /\ SubSeq(s, 1, Len(s) - 1) \in Seq(S) /\ Len(SubSeq(s, 1, Len(s) - 1)) = Len(s) - 1
      /\ \A i \in 1..Len(s) - 1 : SubSeq(s, 1, Len(s) - 1)[i] = s[i]
  BY <1>2, PrefixSeq
<1> QED BY <1>1, <1>2, <1>3 DEF Front, Last

\* The interpreter of a file module is done.
LEMMA LevelPop ==
    ASSUME NEW ls, NEW obs, NEW cur, NEW bg, LevelsOK(ls, obs, cur, bg), ls # <<>>
    PROVE  LevelsOK(Front(ls), obs, cur, bg) /\ Len(Front(ls)) = Len(ls) - 1
<1>1. /\ Front(ls) \in Seq(Level) /\ Len(Front(ls)) = Len(ls) - 1 /\ Len(ls) \in Nat \ {0}
      /\ \A i \in 1..Len(ls) - 1 : Front(ls)[i] = ls[i]
  BY FrontSeq DEF LevelsOK
<1>2. \A i \in 1..Len(ls) - 1 : i \in 1..Len(ls)
  BY <1>1
<1> HIDE DEF Front
<1> QED BY <1>1, <1>2 DEF LevelsOK

\* The owner map points to objects.
OwnOK(own, obs) == obs \in Seq(Module) /\ own \in [Names -> 1..Len(obs) \union {Absent}]

\* The visible registry is one, or is gone.
LEMMA VisibleType ==
    ASSUME NEW own, NEW obs, OwnOK(own, obs)
    PROVE  /\ VisibleIn(own, obs) \in Registries \union {Absent}
           /\ own[Sys] \in 1..Len(obs) => obs[own[Sys]] \in Module /\ own[Sys] # Absent
           /\ own[Sys] \in 1..Len(obs) \union {Absent}
           /\ own[Sys] # Absent => VisibleIn(own, obs) = obs[own[Sys]].binding
           /\ own[Sys] = Absent => VisibleIn(own, obs) = Boot
<1>1. own[Sys] \in 1..Len(obs) \union {Absent}
  BY NamesAssumption DEF OwnOK
<1>2. \A o \in 1..Len(obs) : obs[o] \in Module /\ o \in Nat
  BY DEF OwnOK
<1>3. Absent \notin Nat /\ Boot \in Registries
  BY MarkersAssumption, RegistriesAssumption
<1>4. \A m \in Module : m.binding \in Registries \union {Absent}
  BY DEF Module
<1> QED BY <1>1, <1>2, <1>3, <1>4 DEF VisibleIn

\* import_module_registry returns the visible registry, cached or not.
LEMMA ResolveIsVisible ==
    ASSUME NEW own, NEW obs, OwnOK(own, obs), NEW c, RegOK(c, obs)
    PROVE  Resolve(c, own, obs) = VisibleIn(own, obs)
<1>1. CASE RegistryCacheValid(c, own, obs)
  <2>1. /\ c # NoCache /\ c.sys = own[Sys] /\ Usable(c.version)
        /\ obs[c.sys].gen = c.version
    BY <1>1 DEF RegistryCacheValid
  <2>2. c.sys \in 1..Len(obs) /\ c.registry = obs[c.sys].binding
    BY <2>1 DEF RegOK
  <2>3. VisibleIn(own, obs) = obs[own[Sys]].binding
    BY <2>1, <2>2, VisibleType
  <2> QED BY <1>1, <2>1, <2>2, <2>3 DEF Resolve
<1>2. CASE ~ RegistryCacheValid(c, own, obs)
  BY <1>2 DEF Resolve
<1> QED BY <1>1, <1>2

\* The entry it leaves is sound.
LEMMA RecachedOK ==
    ASSUME NEW own, NEW obs, OwnOK(own, obs), NEW c \in {NoCache} \union RegistryEntry,
           RegOK(c, obs)
    PROVE  /\ Recached(c, own, obs) \in {NoCache} \union RegistryEntry
           /\ RegOK(Recached(c, own, obs), obs)
<1> DEFINE x == own[Sys]
           r == VisibleIn(own, obs)
           e == [sys |-> x, version |-> obs[x].gen, registry |-> r]
<1>1. \/ Recached(c, own, obs) = c
      \/ Recached(c, own, obs) = NoCache
      \/ x # Absent /\ r # Absent /\ Recached(c, own, obs) = e
  BY DEF Recached
<1>2. ASSUME x # Absent, r # Absent
      PROVE  e \in RegistryEntry /\ RegOK(e, obs)
  <2>1. x \in 1..Len(obs) /\ obs[x] \in Module /\ r = obs[x].binding /\ r \in Registries
    BY <1>2, VisibleType
  <2>2. obs[x].gen \in Nat /\ x \in Nat
    BY <2>1, GenAssumption DEF Module
  <2>3. e.sys = x /\ e.version = obs[x].gen /\ e.registry = r
    OBVIOUS
  <2>4. e \in RegistryEntry
    BY <2>1, <2>2 DEF RegistryEntry
  <2> HIDE DEF e, x, r
  <2> QED BY <2>1, <2>2, <2>3, <2>4 DEF RegOK
<1>3. RegOK(NoCache, obs)
  BY DEF RegOK
<1> HIDE DEF e, x, r
<1> QED BY <1>1, <1>2, <1>3

\* The caches of an interpreter that has asked for the registry.
LEMMA RefreshedOK ==
    ASSUME NEW l, NEW own, NEW obs, NEW cur, NEW bg, OwnOK(own, obs),
           LevelOK(l, obs, cur, bg)
    PROVE  /\ LevelOK(Refreshed(l, own, obs), obs, cur, bg)
           /\ Refreshed(l, own, obs).cls = l.cls
<1> DEFINE c == Recached(l.reg, own, obs)
           k == [l EXCEPT !.reg = c]
<1>1. /\ l \in Level /\ RegOK(l.reg, obs) /\ ClassOK(l.cls, obs, cur, bg)
      /\ l.reg \in {NoCache} \union RegistryEntry
  BY DEF LevelOK, Level
<1>2. c \in {NoCache} \union RegistryEntry /\ RegOK(c, obs)
  BY <1>1, RecachedOK
<1> HIDE DEF c
<1>3. k \in Level /\ k.reg = c /\ k.cls = l.cls
  BY <1>1, <1>2 DEF Level
<1> HIDE DEF k
<1>4. LevelOK(k, obs, cur, bg)
  BY <1>1, <1>2, <1>3 DEF LevelOK
<1>5. Refreshed(l, own, obs) = k
  BY DEF Refreshed, k, c
<1> QED BY <1>3, <1>4, <1>5

\* What is known of the interpreter on top.
LEMMA TopLevel ==
    ASSUME IInv
    PROVE  /\ OwnOK(owner, objs) /\ Top \in 1..Len(levels) /\ Top = Len(levels)
           /\ Top \in Nat \ {0} /\ levels \in Seq(Level)
           /\ LevelOK(levels[Top], objs, regs[Boot][Typing], bootGen)
           /\ levels[Top].reg \in {NoCache} \union RegistryEntry
           /\ RegOK(levels[Top].reg, objs)
           /\ Cardinality(FilesOf(stack)) \in Nat /\ IsFiniteSet(FilesOf(stack))
<1>1. /\ OwnOK(owner, objs) /\ levels \in Seq(Level) /\ stack \in Seq(Body)
  BY DEF IInv, Types, OwnOK, Objects
<1>2. Cardinality(FilesOf(stack)) \in Nat /\ IsFiniteSet(FilesOf(stack))
  <2>1. Len(stack) \in Int /\ 1 \in Int
    BY <1>1
  <2>2. IsFiniteSet(1..Len(stack))
    BY <2>1, FS_Interval
  <2>3. FilesOf(stack) \subseteq 1..Len(stack)
    BY DEF FilesOf
  <2>4. IsFiniteSet(FilesOf(stack))
    BY <2>2, <2>3, FS_Subset
  <2> QED BY <2>4, FS_CardinalityType
<1>3. Top = Len(levels) /\ Top \in Nat \ {0}
  BY <1>1, <1>2 DEF IInv, Count, Top
<1>4. Top \in 1..Len(levels)
  BY <1>3
<1>5. LevelOK(levels[Top], objs, regs[Boot][Typing], bootGen)
  BY <1>4 DEF IInv, Caches, LevelsOK
<1>6. /\ levels[Top].reg \in {NoCache} \union RegistryEntry
      /\ RegOK(levels[Top].reg, objs)
  BY <1>5 DEF LevelOK, Level
<1> QED BY <1>1, <1>2, <1>3, <1>4, <1>5, <1>6

\* The class cache after a lookup that found object o: what is filled in is
\* found in the original registry, unless the object is stray.
LEMMA ClassEntryOK ==
    ASSUME IInv, NEW l, NEW obs2, Grown(objs, obs2), NEW cur,
           LevelOK(l, obs2, cur, bootGen),
           l.reg \in {NoCache} \union RegistryEntry, RegOK(l.reg, objs),
           NEW o \in Objects, objs[o].cls # Absent,
           Visible = Boot /\ ~ obs2[o].stray => cur = o
    PROVE  LevelOK(ClassEntry(l, o), obs2, cur, bootGen)
<1> DEFINE x == owner[Sys]
           c == Recached(l.reg, owner, objs)
           e == [sys |-> x, sysVersion |-> objs[x].gen, bootVersion |-> bootGen,
                 module |-> o, moduleVersion |-> objs[o].gen, class |-> objs[o].cls]
           k0 == [reg |-> c, cls |-> NoCache]
           k1 == [reg |-> c, cls |-> e]
<1>1. OwnOK(owner, objs)
  BY TopLevel
<1>2. Resolve(l.reg, owner, objs) = Visible
  BY <1>1, ResolveIsVisible DEF Visible
<1>3. \/ ClassEntry(l, o) = k0
      \/ ClassEntry(l, o) = k1 /\ Visible = Boot /\ x # Absent
  BY <1>2 DEF ClassEntry
<1>4. c \in {NoCache} \union RegistryEntry /\ RegOK(c, objs)
  BY <1>1, RecachedOK
<1>5. RegOK(c, obs2)
  <2>1. \A i \in 1..Len(objs) : i \in 1..Len(obs2)
    BY DEF Grown
  <2> HIDE DEF c
  <2> QED BY <1>4, <2>1 DEF Grown, RegOK
<1>6. k0 \in Level /\ k0.reg = c /\ k0.cls = NoCache
  BY <1>4 DEF Level
<1>7. ASSUME Visible = Boot, x # Absent
      PROVE  k1 \in Level /\ k1.reg = c /\ k1.cls = e /\ ClassOK(e, obs2, cur, bootGen)
  <2>1. x \in 1..Len(objs) /\ objs[x] \in Module
    BY <1>1, <1>7, VisibleType
  <2>2. o \in 1..Len(objs) /\ objs[o] \in Module
    BY <1>1 DEF OwnOK, Objects
  <2>3. /\ objs[x].gen \in Nat /\ objs[o].gen \in Nat /\ bootGen \in Nat
        /\ x \in Nat /\ o \in Nat /\ objs[o].cls \in Classes
    BY <2>1, <2>2, GenAssumption DEF Module, IInv, Types
  <2>4. e \in ClassEntries
    BY <2>3 DEF ClassEntries
  <2>5. /\ e.module = o /\ e.bootVersion = bootGen /\ e.moduleVersion = objs[o].gen
        /\ e.class = objs[o].cls
    OBVIOUS
  <2> HIDE DEF e, x, c
  <2>6. k1 \in Level /\ k1.reg = c /\ k1.cls = e
    BY <1>4, <2>4 DEF Level
  <2>7. /\ o \in 1..Len(obs2) /\ obs2[o].gen = objs[o].gen /\ obs2[o].cls = objs[o].cls
    BY <2>2 DEF Grown
  <2>8. ClassOK(e, obs2, cur, bootGen)
    BY <1>7, <2>3, <2>5, <2>7 DEF ClassOK
  <2> QED BY <2>6, <2>8
<1>8. ClassOK(NoCache, obs2, cur, bootGen)
  BY DEF ClassOK
<1> HIDE DEF x, c, e, k0, k1
<1> QED BY <1>3, <1>5, <1>6, <1>7, <1>8 DEF LevelOK

-----------------------------------------------------------------------------
(* Imports that load nothing *)

\* Only the caches change.
LEMMA LevelsOnly ==
    ASSUME IInv, UNCHANGED <<objs, owner, regs, bootGen, stack, touched, aliases>>,
           LevelsOK(levels', objs, regs[Boot][Typing], bootGen),
           Len(levels') = Len(levels)
    PROVE  IInv'
<1>1. levels' \in Seq(Level)
  BY DEF LevelsOK
<1>2. Types'
  BY <1>1 DEF IInv, Types, Objects
<1>3. Count' /\ Caches'
  BY DEF IInv, Count, Caches
<1>4. Bodies' /\ Homes'
  BY DEF IInv, Bodies, Homes
<1>5. Agree'
  <2>1. Visible' = Visible
    BY DEF Visible
  <2> QED BY <2>1 DEF IInv, Agree
<1> QED BY <1>2, <1>3, <1>4, <1>5 DEF IInv

\* resolve_module_class_cache_miss, with the answer of load_module.
LEMMA FillClassOK ==
    ASSUME IInv, NEW obs2, Grown(objs, obs2), NEW cur,
           LevelsOK(levels, obs2, cur, bootGen), NEW v, FillClass(v),
           v \in Objects /\ Visible = Boot /\ ~ obs2[v].stray => cur = v
    PROVE  LevelsOK(levels', obs2, cur, bootGen) /\ Len(levels') = Len(levels)
<1>1. CASE v \in Objects /\ objs[v].cls # Absent
  <2> DEFINE k == ClassEntry(levels[Top], v)
  <2>1. Replaced(levels, levels', Top, k)
    BY <1>1 DEF FillClass, Replaced
  <2>2. /\ Top \in 1..Len(levels) /\ RegOK(levels[Top].reg, objs)
        /\ levels[Top].reg \in {NoCache} \union RegistryEntry
    BY TopLevel
  <2>3. LevelOK(levels[Top], obs2, cur, bootGen)
    BY <2>2 DEF LevelsOK
  <2>4. LevelOK(k, obs2, cur, bootGen)
    BY <1>1, <2>2, <2>3, ClassEntryOK
  <2> HIDE DEF k
  <2> QED BY <2>1, <2>4, LevelSet
<1>2. CASE ~ (v \in Objects /\ objs[v].cls # Absent)
  <2>1. levels' = levels
    BY <1>2 DEF FillClass
  <2> QED BY <2>1
<1> QED BY <1>1, <1>2

\* The original registry has an entry.
LEMMA LoadInternalKeeps ==
    ASSUME IInv, NEW n, NEW wanted, wanted => n = Typing, LoadInternal(n, wanted)
    PROVE  IInv'
<1>1. UNCHANGED <<objs, owner, regs, bootGen, stack, touched, aliases>>
  BY DEF LoadInternal
<1>2. LevelsOK(levels, objs, regs[Boot][Typing], bootGen)
  BY DEF IInv, Caches
<1>3. CASE wanted
  <2>1. FillClass(regs[Boot][Typing]) /\ Grown(objs, objs)
    BY <1>3, GrownRefl DEF LoadInternal, IInv, Types
  <2> DEFINE v == regs[Boot][Typing]
  <2>2. LevelsOK(levels', objs, v, bootGen) /\ Len(levels') = Len(levels)
    <3>1. FillClass(v) /\ LevelsOK(levels, objs, v, bootGen)
      BY <1>2, <2>1
    <3> HIDE DEF v
    <3> QED BY <2>1, <3>1, FillClassOK
  <2> QED BY <1>1, <2>2, LevelsOnly
<1>4. CASE ~ wanted
  <2>1. levels' = levels
    BY <1>4 DEF LoadInternal
  <2> QED BY <1>1, <1>2, <2>1, LevelsOnly
<1> QED BY <1>3, <1>4

\* The registry the interpreter on top resolves, and its caches afterwards.
LEMMA TopResolves ==
    ASSUME IInv
    PROVE  /\ Resolve(levels[Top].reg, owner, objs) = Visible
           /\ Visible \in Registries \union {Absent}
           /\ LevelOK(Refreshed(levels[Top], owner, objs), objs, regs[Boot][Typing], bootGen)
<1>1. /\ OwnOK(owner, objs) /\ RegOK(levels[Top].reg, objs)
      /\ LevelOK(levels[Top], objs, regs[Boot][Typing], bootGen)
  BY TopLevel
<1>2. Resolve(levels[Top].reg, owner, objs) = Visible
  BY <1>1, ResolveIsVisible DEF Visible
<1>3. Visible \in Registries \union {Absent}
  BY <1>1, VisibleType DEF Visible
<1>4. LevelOK(Refreshed(levels[Top], owner, objs), objs, regs[Boot][Typing], bootGen)
  BY <1>1, RefreshedOK
<1> QED BY <1>2, <1>3, <1>4

\* Only the visible registry has one.
LEMMA LoadVisibleKeeps ==
    ASSUME IInv, NEW n, NEW wanted, LoadVisible(n, wanted)
    PROVE  IInv'
<1> DEFINE l == Refreshed(levels[Top], owner, objs)
           v == regs[Visible][n]
<1>1. UNCHANGED <<objs, owner, regs, bootGen, stack, touched, aliases>>
  BY DEF LoadVisible
<1>2. /\ Resolve(levels[Top].reg, owner, objs) = Visible
      /\ LevelOK(l, objs, regs[Boot][Typing], bootGen)
  BY TopResolves
<1>3. /\ regs[Boot][n] = Absent /\ v # Absent
      /\ \/ Replaced(levels, levels', Top, l)
         \/ /\ v \in Objects /\ objs[v].cls # Absent
            /\ Replaced(levels, levels', Top, ClassEntry(l, v))
  BY <1>2 DEF LoadVisible, Replaced
<1>4. LevelsOK(levels, objs, regs[Boot][Typing], bootGen) /\ Grown(objs, objs)
  BY GrownRefl DEF IInv, Caches, Types
<1>5. Visible # Boot
  BY <1>3
<1> HIDE DEF l, v
<1>6. CASE Replaced(levels, levels', Top, l)
  BY <1>1, <1>2, <1>4, <1>6, LevelSet, LevelsOnly
<1>7. CASE /\ v \in Objects /\ objs[v].cls # Absent
           /\ Replaced(levels, levels', Top, ClassEntry(l, v))
  <2> DEFINE k == ClassEntry(l, v)
  <2>1. l.reg \in {NoCache} \union RegistryEntry /\ RegOK(l.reg, objs)
    BY <1>2 DEF LevelOK, Level
  <2>2. LevelOK(k, objs, regs[Boot][Typing], bootGen)
    BY <1>2, <1>4, <1>5, <1>7, <2>1, ClassEntryOK
  <2>3. Replaced(levels, levels', Top, k)
    BY <1>7
  <2> HIDE DEF k
  <2> QED BY <1>1, <1>4, <2>2, <2>3, LevelSet, LevelsOnly
<1> QED BY <1>3, <1>6, <1>7

\* A name that no lookup finds loses its owner.
LEMMA OwnerDropped ==
    ASSUME IInv, NEW n \in Names, n # Sys, regs[Boot][n] = Absent,
           Visible \in Registries, regs[Visible][n] = Absent,
           owner' = [owner EXCEPT ![n] = Absent],
           Replaced(levels, levels', Top, Refreshed(levels[Top], owner, objs)),
           touched' = touched \/ touched' = touched \ {n},
           UNCHANGED <<objs, regs, bootGen, stack, aliases>>
    PROVE  IInv'
<1>1. /\ LevelsOK(levels', objs, regs[Boot][Typing], bootGen)
      /\ Len(levels') = Len(levels)
  <2> DEFINE k == Refreshed(levels[Top], owner, objs)
  <2>1. LevelOK(k, objs, regs[Boot][Typing], bootGen)
    BY TopResolves
  <2>2. LevelsOK(levels, objs, regs[Boot][Typing], bootGen)
    BY DEF IInv, Caches
  <2>3. Replaced(levels, levels', Top, k)
    OBVIOUS
  <2> HIDE DEF k
  <2> QED BY <2>1, <2>2, <2>3, LevelSet
<1>2. owner \in [Names -> Objects \union {Absent}] /\ Objects' = Objects
  BY DEF IInv, Types, Objects
<1>3. owner' \in [Names -> Objects' \union {Absent}]
  BY <1>2
<1>4. Types'
  BY <1>1, <1>2, <1>3 DEF IInv, Types, LevelsOK
<1>5. Count' /\ Caches' /\ Bodies' /\ Homes'
  BY <1>1 DEF IInv, Count, Caches, Bodies, Homes
<1>6. Visible' = Visible
  <2>1. owner'[Sys] = owner[Sys]
    BY <1>2, NamesAssumption
  <2> QED BY <2>1 DEF Visible, VisibleIn
<1>7. Agree'
  <2>1. \A m \in Names : m # n => owner'[m] = owner[m]
    BY <1>2
  <2>2. \A m \in Names : m # n /\ NameOK(m, Visible, regs, owner) =>
           NameOK(m, Visible, regs, owner')
    BY <2>1 DEF NameOK
  <2>3. NameOK(n, Visible, regs, owner')
    BY <1>2 DEF NameOK, LookupIn
  <2>4. \A m \in Names \ touched' : m = n \/ m \in Names \ touched
    OBVIOUS
  <2> QED BY <1>6, <2>2, <2>3, <2>4 DEF IInv, Agree
<1> QED BY <1>4, <1>5, <1>7 DEF IInv

\* No such module: the owner map forgets the name.
LEMMA LoadMissingKeeps ==
    ASSUME IInv, NEW n \in Names, LoadMissing(n)
    PROVE  IInv'
<1>1. Resolve(levels[Top].reg, owner, objs) = Visible /\ Visible \in Registries \union {Absent}
  BY TopResolves
<1>2. n # Sys
  BY NamesAssumption DEF LoadMissing
<1> QED BY <1>1, <1>2, OwnerDropped DEF LoadMissing, Replaced

\* A registry that is no dict refuses the new entry: the owner map forgets it.
LEMMA LoadRefusedKeeps ==
    ASSUME IInv, NEW n \in Names, LoadRefused(n)
    PROVE  IInv'
<1>1. Resolve(levels[Top].reg, owner, objs) = Visible /\ Visible \in Registries \union {Absent}
  BY TopResolves
<1>2. Visible \in Protocols
  BY <1>1 DEF LoadRefused
<1>3. Visible \in Registries
  BY <1>1, <1>2, MarkersAssumption, RegistriesAssumption
<1> QED BY <1>1, <1>3, OwnerDropped DEF LoadRefused, Replaced

-----------------------------------------------------------------------------
(* Registries, the stack of bodies, and loading *)

\* The entry of n in r is v afterwards, and no other has changed.
Written(r, n, v) ==
    \A q \in Registries, m \in Names :
        regs'[q][m] = IF q = r /\ m = n THEN v ELSE regs[q][m]

\* A mutation of the original registry outdates the class entries.
LEMMA WriteKeeps ==
    ASSUME IInv, NEW r \in Registries, NEW n \in Names, NEW v, WriteEntry(r, n, v)
    PROVE  /\ LevelsOK(levels, objs, regs'[Boot][Typing], bootGen')
           /\ bootGen' \in 0..MaxGen /\ Written(r, n, v)
           /\ \A S : v \in S /\ (\A q \in Registries, m \in Names : regs[q][m] \in S) =>
                 regs' \in [Registries -> [Names -> S]]
<1>1. regs \in [Registries -> [Names -> Objects \union {Absent, Foreign}]]
  BY DEF IInv, Types
<1> DEFINE row == [regs[r] EXCEPT ![n] = v]
<1>2. regs' = [regs EXCEPT ![r] = row]
  BY DEF WriteEntry
<1>3. \A m \in Names : row[m] = IF m = n THEN v ELSE regs[r][m]
  BY <1>1
<1>3a. \A S : v \in S /\ (\A m \in Names : regs[r][m] \in S) => row \in [Names -> S]
  BY <1>1
<1> HIDE DEF row
<1>4. \A q \in Registries : regs'[q] = IF q = r THEN row ELSE regs[q]
  BY <1>1, <1>2
<1>5. Written(r, n, v)
  BY <1>3, <1>4 DEF Written
<1>6. ASSUME NEW S, v \in S, \A q \in Registries, m \in Names : regs[q][m] \in S
      PROVE  regs' \in [Registries -> [Names -> S]]
  <2>1. row \in [Names -> S]
    BY <1>3a, <1>6
  <2>2. \A q \in Registries : regs[q] \in [Names -> S]
    BY <1>1, <1>6
  <2>3. regs \in [Registries -> [Names -> S]]
    BY <1>1, <2>2
  <2> QED BY <1>2, <2>1, <2>3
<1>7. bootGen \in 0..MaxGen /\ MaxGen \in Nat
  BY GenAssumption DEF IInv, Types
<1>8. bootGen' = IF r = Boot /\ BootObserved THEN Bump(bootGen) ELSE bootGen
  BY DEF WriteEntry
<1>9. bootGen' \in 0..MaxGen
  BY <1>7, <1>8 DEF Bump
<1>10. ASSUME NEW i \in 1..Len(levels)
       PROVE  LevelOK(levels[i], objs, regs'[Boot][Typing], bootGen')
  <2> DEFINE l == levels[i]
             cur == regs[Boot][Typing]
             cur2 == regs'[Boot][Typing]
             bg == bootGen
             bg2 == bootGen'
  <2>1. LevelOK(l, objs, cur, bg)
    BY DEF IInv, Caches, LevelsOK
  <2>2. l.cls # NoCache => BootObserved
    BY DEF BootObserved, Top
  <2>3. Boot \in Registries /\ Typing \in Names
    BY RegistriesAssumption, NamesAssumption
  <2>4. \/ cur2 = cur /\ bg2 = bg
        \/ l.cls = NoCache
        \/ bg2 = Bump(bg)
    <3>1. r # Boot => cur2 = cur
      BY <1>5, <2>3 DEF Written
    <3> QED BY <1>8, <2>2, <3>1
  <2>5. l \in Level /\ RegOK(l.reg, objs) /\ ClassOK(l.cls, objs, cur, bg)
    BY <2>1 DEF LevelOK
  <2> HIDE DEF cur, cur2, bg2, bg
  <2>6. ClassOK(l.cls, objs, cur2, bg2)
    <3>1. CASE cur2 = cur /\ bg2 = bg
      BY <2>5, <3>1
    <3>2. CASE l.cls = NoCache
      BY <3>2 DEF ClassOK
    <3>3. CASE bg2 = Bump(bg) /\ l.cls # NoCache
      <4> DEFINE e == l.cls
      <4>1. e \in ClassEntries
        BY <2>5, <3>3 DEF Level
      <4>2. e.bootVersion \in Nat
        BY <4>1 DEF ClassEntries
      <4>3. bg \in 0..MaxGen
        BY <1>7 DEF bg
      <4> HIDE DEF e
      <4>4. /\ e.bootVersion <= bg
            /\ ClassOK(e, objs, cur, bg)
        BY <2>5, <3>3 DEF e, ClassOK
      <4>5. e.bootVersion <= bg2 /\ ~ (bg2 = e.bootVersion /\ Usable(bg2))
        BY <1>7, <3>3, <4>2, <4>3, <4>4 DEF Bump, Usable
      <4>6. ClassOK(e, objs, cur2, bg2)
        BY <4>4, <4>5 DEF ClassOK
      <4> QED BY <4>6 DEF e
    <3> QED BY <2>4, <3>1, <3>2, <3>3
  <2>7. LevelOK(l, objs, cur2, bg2)
    BY <2>5, <2>6 DEF LevelOK
  <2> QED BY <2>7 DEF cur2, bg2
<1>11. LevelsOK(levels, objs, regs'[Boot][Typing], bootGen')
  BY <1>10 DEF LevelsOK, IInv, Types
<1> QED BY <1>5, <1>6, <1>9, <1>11

\* It makes this entry an alias or not, and leaves the other aliases alone.
LEMMA WriteMarks ==
    ASSUME NEW r, NEW n, NEW v, WriteEntry(r, n, v)
    PROVE  \A q, m : <<q, m>> \in aliases' <=>
               IF q = r /\ m = n THEN IsAlias(r, n, v) ELSE <<q, m>> \in aliases
<1>1. aliases' = IF IsAlias(r, n, v) THEN aliases \union {<<r, n>>} ELSE aliases \ {<<r, n>>}
  BY DEF WriteEntry
<1> QED BY <1>1

\* A body starts.
LEMMA CountPush ==
    ASSUME NEW st \in Seq(Body), NEW f \in Body
    PROVE  /\ IsFile(f.name) =>
                Cardinality(FilesOf(Append(st, f))) = Cardinality(FilesOf(st)) + 1
           /\ ~ IsFile(f.name) => FilesOf(Append(st, f)) = FilesOf(st)
<1> DEFINE k == Len(st) + 1
           t == Append(st, f)
<1>1. /\ Len(st) \in Nat /\ Len(t) = k /\ t[k] = f /\ k \notin 1..Len(st)
      /\ \A i \in 1..Len(st) : t[i] = st[i]
  OBVIOUS
<1>2. 1..k = (1..Len(st)) \union {k}
  BY <1>1
<1> HIDE DEF k, t
<1>3. FilesOf(t) = FilesOf(st) \union (IF IsFile(f.name) THEN {k} ELSE {})
  BY <1>1, <1>2 DEF FilesOf
<1>4. k \notin FilesOf(st)
  BY <1>1 DEF FilesOf
<1>5. IsFiniteSet(FilesOf(st))
  <2>1. IsFiniteSet(1..Len(st))
    BY <1>1, FS_Interval
  <2>2. FilesOf(st) \subseteq 1..Len(st)
    BY DEF FilesOf
  <2> QED BY <2>1, <2>2, FS_Subset
<1>6. ASSUME IsFile(f.name)
      PROVE  Cardinality(FilesOf(t)) = Cardinality(FilesOf(st)) + 1
  <2>1. FilesOf(t) = FilesOf(st) \union {k}
    BY <1>3, <1>6
  <2> QED BY <1>4, <1>5, <2>1, FS_AddElement
<1> QED BY <1>3, <1>6 DEF t

\* A body ends.
LEMMA CountPop ==
    ASSUME NEW st \in Seq(Body), st # <<>>
    PROVE  /\ IsFile(Last(st).name) =>
                Cardinality(FilesOf(st)) = Cardinality(FilesOf(Front(st))) + 1
           /\ ~ IsFile(Last(st).name) => FilesOf(Front(st)) = FilesOf(st)
<1>1. /\ Front(st) \in Seq(Body) /\ Len(Front(st)) = Len(st) - 1 /\ Len(st) \in Nat \ {0}
      /\ \A i \in 1..Len(st) - 1 : Front(st)[i] = st[i]
      /\ Last(st) = st[Len(st)] /\ Last(st) \in Body
  BY FrontSeq
<1> DEFINE t == Front(st)
           f == Last(st)
<1>2. Append(t, f) = st
  <2>1. Append(t, f) \in Seq(Body) /\ Len(Append(t, f)) = Len(st)
    BY <1>1
  <2>2. \A i \in 1..Len(st) : Append(t, f)[i] = st[i]
    BY <1>1
  <2> HIDE DEF t, f
  <2> QED BY <2>1, <2>2
<1> HIDE DEF Front, Last
<1>3. t \in Seq(Body) /\ f \in Body
  BY <1>1
<1> HIDE DEF t, f
<1>4. /\ IsFile(f.name) => Cardinality(FilesOf(st)) = Cardinality(FilesOf(t)) + 1
      /\ ~ IsFile(f.name) => FilesOf(st) = FilesOf(t)
  BY <1>2, <1>3, CountPush
<1> QED BY <1>4 DEF t, f

\* A new object at the end of the list.
LEMMA ObjectAdded ==
    ASSUME NEW obs \in Seq(Module), NEW m \in Module
    PROVE  /\ Append(obs, m) \in Seq(Module) /\ Len(obs) \in Nat
           /\ Len(Append(obs, m)) = Len(obs) + 1 /\ Append(obs, m)[Len(obs) + 1] = m
           /\ \A o \in 1..Len(obs) : Append(obs, m)[o] = obs[o] /\ o # Len(obs) + 1
           /\ 1..Len(Append(obs, m)) = (1..Len(obs)) \union {Len(obs) + 1}
           /\ Grown(obs, Append(obs, m))
<1>1. /\ Append(obs, m) \in Seq(Module) /\ Len(obs) \in Nat
      /\ Len(Append(obs, m)) = Len(obs) + 1 /\ Append(obs, m)[Len(obs) + 1] = m
      /\ \A o \in 1..Len(obs) : Append(obs, m)[o] = obs[o] /\ o # Len(obs) + 1
  OBVIOUS
<1> DEFINE obs2 == Append(obs, m)
<1> HIDE DEF obs2
<1>2. /\ Len(obs2) = Len(obs) + 1 /\ \A o \in 1..Len(obs) : obs2[o] = obs[o]
  BY <1>1 DEF obs2
<1>3. Grown(obs, obs2)
  BY <1>1, <1>2 DEF Grown
<1>4. 1..Len(obs2) = (1..Len(obs)) \union {Len(obs) + 1}
  BY <1>1, <1>2
<1> QED BY <1>1, <1>3, <1>4 DEF obs2

\* The body of a new object is put on the stack.
LEMMA BodyPushed ==
    ASSUME NEW st \in Seq(Body), NEW obs \in Seq(Module), BodiesOf(st, obs),
           NEW m \in Module, NEW f \in Body, f.obj = Len(obs) + 1, f.name = m.name,
           m.name # Sys, ~ m.stray, f.wanted => f.name = Typing
    PROVE  BodiesOf(Append(st, f), Append(obs, m))
<1> DEFINE st2 == Append(st, f)
           obs2 == Append(obs, m)
           k == Len(st) + 1
<1>1. /\ Len(obs) \in Nat /\ obs2[Len(obs) + 1] = m
      /\ \A o \in 1..Len(obs) : obs2[o] = obs[o] /\ o # Len(obs) + 1
      /\ 1..Len(obs2) = (1..Len(obs)) \union {Len(obs) + 1}
  BY ObjectAdded
<1>2. /\ Len(st) \in Nat /\ Len(st2) = k /\ st2[k] = f
      /\ \A i \in 1..Len(st) : st2[i] = st[i] /\ i # k
  OBVIOUS
<1>3. 1..k = (1..Len(st)) \union {k}
  BY <1>2
<1> HIDE DEF st2, obs2, k
<1>4. \A i \in 1..Len(st) :
         /\ st[i].obj \in 1..Len(obs) /\ st[i].name = obs[st[i].obj].name
         /\ st[i].name # Sys /\ ~ obs[st[i].obj].stray
         /\ st[i].wanted => st[i].name = Typing
  BY DEF BodiesOf
<1>5. ASSUME NEW i \in 1..k
      PROVE  /\ st2[i].obj \in 1..Len(obs2) /\ st2[i].name = obs2[st2[i].obj].name
             /\ st2[i].name # Sys /\ ~ obs2[st2[i].obj].stray
             /\ st2[i].wanted => st2[i].name = Typing
  <2>1. CASE i = k
    BY <1>1, <1>2, <2>1
  <2>2. CASE i \in 1..Len(st)
    <3>1. st2[i] = st[i] /\ st[i].obj \in 1..Len(obs)
      BY <1>2, <1>4, <2>2
    <3>2. obs2[st[i].obj] = obs[st[i].obj]
      BY <1>1, <3>1
    <3> QED BY <1>1, <1>4, <2>2, <3>1, <3>2
  <2> QED BY <1>3, <2>1, <2>2
<1>6. ASSUME NEW i \in 1..k, NEW j \in 1..k, st2[i].obj = st2[j].obj
      PROVE  i = j
  <2>1. \A h \in 1..Len(st) : st2[h].obj # f.obj
    BY <1>1, <1>2, <1>4
  <2>2. CASE i = k \/ j = k
    BY <1>2, <1>3, <1>6, <2>1, <2>2
  <2>3. CASE i # k /\ j # k
    <3>1. i \in 1..Len(st) /\ j \in 1..Len(st)
      BY <1>3, <2>3
    <3> QED BY <1>2, <1>6, <3>1 DEF BodiesOf
  <2> QED BY <2>2, <2>3
<1>7. BodiesOf(st2, obs2)
  BY <1>2, <1>5, <1>6 DEF BodiesOf
<1> QED BY <1>7 DEF st2, obs2

\* A module is created and published before its body runs.
LEMMA LoadFreshKeeps ==
    ASSUME IInv, NEW n \in Names, NEW wanted \in BOOLEAN, wanted => n = Typing,
           LoadFresh(n, wanted)
    PROVE  IInv'
<1> DEFINE r == Visible
           o == Len(objs) + 1
           home == IF n = Sys THEN Boot ELSE r
           m == NewModule(n, home)
           newObjs == Append(objs, m)
           newOwner == [owner EXCEPT ![n] = o]
           l == Refreshed(levels[Top], owner, objs)
           r2 == Resolve(l.reg, newOwner, newObjs)
           l2 == Refreshed(l, newOwner, newObjs)
           parents == [levels EXCEPT ![Top] = l2]
           f == [name |-> n, obj |-> o, wanted |-> wanted]
           cur == regs[Boot][Typing]
           cur2 == regs'[Boot][Typing]
<1>1. /\ Resolve(levels[Top].reg, owner, objs) = r /\ r \in Registries \union {Absent}
      /\ LevelOK(l, objs, cur, bootGen)
  BY TopResolves
<1>2. /\ regs[Boot][n] = Absent /\ r # Absent /\ regs[r][n] = Absent /\ n \in Found
      /\ objs' = newObjs /\ owner' = newOwner /\ WriteEntry(r2, n, o)
      /\ touched' = (IF VisibleIn(newOwner, newObjs) = r THEN touched ELSE Names) \ {n}
      /\ n = Sys => levels' = parents /\ stack' = stack
      /\ n # Sys => /\ levels' = IF IsFile(n) THEN Append(parents, NoLevel) ELSE parents
                    /\ stack' = Append(stack, f)
  BY <1>1 DEF LoadFresh
<1>3. /\ objs \in Seq(Module) /\ Len(objs) \in Nat /\ o \in Nat
      /\ owner \in [Names -> 1..Len(objs) \union {Absent}]
      /\ stack \in Seq(Body) /\ OwnOK(owner, objs)
      /\ levels \in Seq(Level) /\ Top \in 1..Len(levels)
      /\ r \in Registries /\ Boot \in Registries /\ home \in Registries
  BY <1>1, <1>2, TopLevel, RegistriesAssumption DEF IInv, Types, Objects
<1>4. /\ m \in Module /\ m.name = n /\ m.home = home /\ m.status # "failed" /\ ~ m.stray
      /\ m.binding = IF n = Sys THEN Boot ELSE Absent
  BY <1>3, GenAssumption DEF NewModule, Module
<1> HIDE DEF m, home
<1>5. /\ newObjs \in Seq(Module) /\ Len(newObjs) = Len(objs) + 1 /\ newObjs[o] = m
      /\ \A i \in 1..Len(objs) : newObjs[i] = objs[i] /\ i # o
      /\ 1..Len(newObjs) = (1..Len(objs)) \union {o}
      /\ Grown(objs, newObjs)
  BY <1>3, <1>4, ObjectAdded
<1> HIDE DEF newObjs
<1>6. newOwner \in [Names -> 1..Len(newObjs) \union {Absent}] /\ newOwner[n] = o
      /\ \A k \in Names : k # n => newOwner[k] = owner[k]
  BY <1>3, <1>5
<1>7. OwnOK(newOwner, newObjs)
  BY <1>5, <1>6 DEF OwnOK
<1> HIDE DEF o, newOwner
<1>8. VisibleIn(newOwner, newObjs) = home
  <2>1. Sys \in Names /\ o # Absent
    BY <1>3, NamesAssumption, MarkersAssumption
  <2>2. CASE n = Sys
    <3>1. newOwner[Sys] = o /\ newOwner[Sys] # Absent
      BY <1>6, <2>1, <2>2
    <3> QED BY <1>4, <1>5, <2>2, <3>1 DEF VisibleIn, home
  <2>3. CASE n # Sys
    <3>1. newOwner[Sys] = owner[Sys]
      BY <1>6, <2>1, <2>3
    <3>2. owner[Sys] # Absent => newObjs[owner[Sys]] = objs[owner[Sys]]
      BY <1>3, <1>5, <2>1
    <3> QED BY <2>3, <3>1, <3>2 DEF VisibleIn, home, Visible
  <2> QED BY <2>2, <2>3
<1>9. LevelOK(l, newObjs, cur, bootGen) /\ RegOK(l.reg, newObjs)
  BY <1>1, <1>5, LevelGrown DEF LevelOK
<1>10. r2 = home /\ r2 \in Registries
  BY <1>3, <1>7, <1>8, <1>9, ResolveIsVisible
<1>11. /\ LevelsOK(levels, objs, cur2, bootGen') /\ bootGen' \in 0..MaxGen
       /\ Written(r2, n, o)
       /\ \A S : o \in S /\ (\A q \in Registries, k \in Names : regs[q][k] \in S) =>
             regs' \in [Registries -> [Names -> S]]
  BY <1>2, <1>10, WriteKeeps
<1> HIDE DEF r2
<1>12. LevelsOK(levels, newObjs, cur2, bootGen')
  BY <1>5, <1>11, LevelsGrown
<1>13. LevelOK(l2, newObjs, cur2, bootGen')
  <2>1. LevelOK(levels[Top], newObjs, cur2, bootGen')
    BY <1>3, <1>12 DEF LevelsOK
  <2>2. LevelOK(levels[Top], objs, cur2, bootGen')
    BY <1>3, <1>11 DEF LevelsOK
  <2>3. LevelOK(l, objs, cur2, bootGen')
    BY <1>3, <2>2, RefreshedOK
  <2>4. LevelOK(l, newObjs, cur2, bootGen')
    BY <1>5, <2>3, LevelGrown
  <2> HIDE DEF l
  <2> QED BY <1>7, <2>4, RefreshedOK
<1>14. LevelsOK(parents, newObjs, cur2, bootGen') /\ Len(parents) = Len(levels)
  <2>1. Replaced(levels, parents, Top, l2)
    BY DEF Replaced
  <2> HIDE DEF parents, l2
  <2> QED BY <1>12, <1>13, <2>1, LevelSet
<1>15. n # Sys => f \in Body /\ f.name = n /\ f.obj = o /\ f.wanted = wanted
  BY <1>3 DEF Body
<1> HIDE DEF f, parents, l2, l, cur, cur2
<1>16. Types'
  <2>1. Objects' = Objects \union {o}
    BY <1>2, <1>5 DEF Objects
  <2>2. owner' \in [Names -> Objects' \union {Absent}]
    BY <1>2, <1>6 DEF Objects
  <2>3. regs' \in [Registries -> [Names -> Objects' \union {Absent, Foreign}]]
    <3>1. \A q \in Registries, k \in Names : regs[q][k] \in Objects' \union {Absent, Foreign}
      BY <2>1 DEF IInv, Types
    <3>2. o \in Objects' \union {Absent, Foreign}
      BY <2>1
    <3> QED BY <1>11, <3>1, <3>2
  <2>4. levels' \in Seq(Level)
    <3>1. LevelsOK(parents, newObjs, cur2, bootGen')
      BY <1>14
    <3>2. levels' = parents \/ levels' = Append(parents, NoLevel)
      BY <1>2
    <3> QED BY <3>1, <3>2, LevelPush DEF LevelsOK
  <2>5. stack' \in Seq(Body)
    BY <1>2, <1>3, <1>15
  <2> QED BY <1>2, <1>5, <1>11, <2>2, <2>3, <2>4, <2>5 DEF Types
<1>17. Count' /\ Caches'
  <2>0. Count /\ Len(parents) = Len(levels) /\ Len(levels) \in Nat
    BY <1>3, <1>14 DEF IInv
  <2>1. CASE n = Sys
    BY <1>2, <1>14, <2>0, <2>1 DEF Count, Caches, cur2
  <2>2. CASE n # Sys /\ ~ IsFile(n)
    <3>1. FilesOf(stack') = FilesOf(stack) /\ levels' = parents
      BY <1>2, <1>3, <1>15, <2>2, CountPush
    <3> QED BY <1>2, <1>14, <2>0, <3>1 DEF Count, Caches, cur2
  <2>3. CASE n # Sys /\ IsFile(n)
    <3>1. /\ Cardinality(FilesOf(stack')) = Cardinality(FilesOf(stack)) + 1
          /\ levels' = Append(parents, NoLevel)
      BY <1>2, <1>3, <1>15, <2>3, CountPush
    <3>2. LevelsOK(levels', newObjs, cur2, bootGen') /\ Len(levels') = Len(parents) + 1
      BY <1>14, <3>1, LevelPush
    <3>3. Cardinality(FilesOf(stack)) \in Nat
      BY TopLevel
    <3>4. Count'
      BY <2>0, <3>1, <3>2, <3>3 DEF Count
    <3> QED BY <1>2, <3>2, <3>4 DEF Caches, cur2
  <2> QED BY <2>1, <2>2, <2>3
<1>18. Bodies'
  <2>1. BodiesOf(stack, objs)
    BY DEF IInv, Bodies
  <2>2. CASE n = Sys
    <3>1. BodiesOf(stack, newObjs)
      BY <1>5, <2>1 DEF BodiesOf
    <3> QED BY <1>2, <2>2, <3>1 DEF Bodies
  <2>3. CASE n # Sys
    <3>1. BodiesOf(Append(stack, f), newObjs)
      BY <1>3, <1>4, <1>15, <2>1, <2>3, BodyPushed DEF newObjs, o
    <3> QED BY <1>2, <2>3, <3>1 DEF Bodies
  <2> QED BY <2>2, <2>3
<1>19. Homes'
  <2>1. ASSUME NEW q \in Registries, NEW k \in Names
        PROVE  <<q, k>> \in aliases' \/ AtHome(regs'[q][k], q, k, newObjs)
    <3>1. CASE q = r2 /\ k = n
      <4>1. regs'[q][k] = o
        BY <1>11, <3>1 DEF Written
      <4> QED BY <1>4, <1>5, <1>10, <3>1, <4>1 DEF AtHome
    <3>2. CASE ~ (q = r2 /\ k = n)
      <4> DEFINE v == regs[q][k]
      <4>1. regs'[q][k] = v
        BY <1>11, <3>2 DEF Written
      <4>2. v \in 1..Len(objs) \union {Absent, Foreign}
        BY DEF IInv, Types, Objects
      <4>3. <<q, k>> \in aliases' \/ AtHome(v, q, k, objs)
        BY <1>2, <3>2, WriteMarks DEF IInv, Homes
      <4>4. o \in Nat /\ Absent \notin 1..Len(newObjs) /\ Foreign \notin 1..Len(newObjs)
        BY <1>3, MarkersAssumption
      <4> HIDE DEF v
      <4>5. AtHome(v, q, k, objs) => AtHome(v, q, k, newObjs)
        BY <1>5, <4>2, <4>4 DEF AtHome
      <4> QED BY <4>1, <4>3, <4>5
    <3> QED BY <3>1, <3>2
  <2> QED BY <1>2, <2>1 DEF Homes
<1>20. Agree'
  <2>1. Visible' = home
    BY <1>2, <1>8 DEF Visible
  <2>2. NameOK(n, home, regs', newOwner)
    <3>1. regs'[r2][n] = o /\ o # Absent /\ (Boot # r2 => regs'[Boot][n] = Absent)
      BY <1>2, <1>3, <1>10, <1>11, MarkersAssumption DEF Written
    <3>2. home # Absent
      BY <1>3, MarkersAssumption
    <3> QED BY <1>6, <1>10, <3>1, <3>2 DEF NameOK, LookupIn
  <2>3. ASSUME NEW k \in Names \ touched', k # n
        PROVE  NameOK(k, home, regs', newOwner)
    <3>1. home = r /\ k \in Names \ touched
      BY <1>2, <1>8, <2>3
    <3>2. NameOK(k, r, regs, owner)
      BY <3>1 DEF IInv, Agree
    <3>3. \A q \in Registries : regs'[q][k] = regs[q][k]
      BY <1>11, <2>3 DEF Written
    <3>4. newOwner[k] = owner[k]
      BY <1>6, <2>3
    <3> QED BY <1>3, <3>1, <3>2, <3>3, <3>4 DEF NameOK, LookupIn
  <2> QED BY <1>2, <2>1, <2>2, <2>3 DEF Agree
<1> QED BY <1>16, <1>17, <1>18, <1>19, <1>20 DEF IInv

-----------------------------------------------------------------------------
(* A body ends *)

\* The body on top of the stack, and the level its importer runs on.
LEMMA TopBody ==
    ASSUME IInv, stack # <<>>
    PROVE  /\ Last(stack) = stack[Len(stack)] /\ Last(stack) \in Body
           /\ Len(stack) \in 1..Len(stack) /\ Len(stack) \in Nat
           /\ Front(stack) \in Seq(Body) /\ Len(Front(stack)) = Len(stack) - 1
           /\ \A i \in 1..Len(stack) - 1 : Front(stack)[i] = stack[i] /\ i \in 1..Len(stack)
           /\ Last(stack).obj \in 1..Len(objs) /\ objs[Last(stack).obj] \in Module
           /\ objs[Last(stack).obj].name = Last(stack).name
           /\ Last(stack).name # Sys /\ Last(stack).name \in Names
           /\ ~ objs[Last(stack).obj].stray
           /\ Last(stack).wanted => Last(stack).name = Typing
           /\ \A i \in 1..Len(stack) - 1 : stack[i].obj # Last(stack).obj
<1>1. stack \in Seq(Body) /\ objs \in Seq(Module)
  BY DEF IInv, Types
<1>2. /\ Last(stack) = stack[Len(stack)] /\ Last(stack) \in Body /\ Len(stack) \in Nat \ {0}
      /\ Front(stack) \in Seq(Body) /\ Len(Front(stack)) = Len(stack) - 1
      /\ \A i \in 1..Len(stack) - 1 : Front(stack)[i] = stack[i]
  BY <1>1, FrontSeq
<1>3. Len(stack) \in 1..Len(stack) /\ Len(stack) \in Nat
      /\ \A i \in 1..Len(stack) - 1 : i \in 1..Len(stack) /\ i # Len(stack)
  BY <1>2
<1> DEFINE k == Len(stack)
           f == Last(stack)
<1>4. f = stack[k] /\ k \in 1..k
  BY <1>2, <1>3
<1> HIDE DEF f, Last, Front
<1>5. /\ f.obj \in 1..Len(objs) /\ f.name = objs[f.obj].name
      /\ f.name # Sys /\ ~ objs[f.obj].stray /\ (f.wanted => f.name = Typing)
  BY <1>4 DEF IInv, Bodies, BodiesOf
<1>6. objs[f.obj] \in Module
  BY <1>1, <1>5
<1>7. \A i \in 1..k - 1 : stack[i].obj # f.obj
  BY <1>3, <1>4 DEF IInv, Bodies, BodiesOf
<1>8. f.name \in Names
  BY <1>2 DEF f, Body
<1> QED BY <1>2, <1>3, <1>5, <1>6, <1>7, <1>8 DEF f

\* Object b, whose body ends, changes in status, stray or missed only.
Ended(obs2, b) ==
    /\ obs2 \in Seq(Module) /\ Len(obs2) = Len(objs)
    /\ \A o \in 1..Len(objs) : o # b => obs2[o] = objs[o]
    /\ obs2[b].name = objs[b].name /\ obs2[b].home = objs[b].home
    /\ obs2[b].gen = objs[b].gen /\ obs2[b].binding = objs[b].binding
    /\ obs2[b].cls = objs[b].cls

\* What that leaves alone.
LEMMA EndedKeeps ==
    ASSUME IInv, stack # <<>>, NEW obs2, Ended(obs2, Last(stack).obj)
    PROVE  /\ Grown(objs, obs2) /\ BodiesOf(Front(stack), obs2)
           /\ \A own : OwnOK(own, objs) =>
                 OwnOK(own, obs2) /\ VisibleIn(own, obs2) = VisibleIn(own, objs)
<1> DEFINE b == Last(stack).obj
           t == Front(stack)
           k == Len(stack)
<1>1. /\ b \in 1..Len(objs) /\ ~ objs[b].stray /\ Len(t) = k - 1
      /\ \A i \in 1..k - 1 : t[i] = stack[i] /\ i \in 1..k /\ stack[i].obj # b
  BY TopBody
<1>2. objs \in Seq(Module) /\ Len(objs) \in Nat
  BY DEF IInv, Types
<1> HIDE DEF b, t
<1>3. Ended(obs2, b)
  BY DEF b
<1>4. \A o \in 1..Len(objs) :
         /\ obs2[o].gen = objs[o].gen /\ obs2[o].binding = objs[o].binding
         /\ obs2[o].cls = objs[o].cls /\ obs2[o].name = objs[o].name
         /\ objs[o].stray => obs2[o].stray
  BY <1>1, <1>3 DEF Ended
<1>5. Grown(objs, obs2)
  BY <1>2, <1>3, <1>4 DEF Grown, Ended
<1>6. BodiesOf(t, obs2)
  <2>1. ASSUME NEW i \in 1..Len(t)
        PROVE  /\ t[i].obj \in 1..Len(obs2) /\ t[i].name = obs2[t[i].obj].name
               /\ t[i].name # Sys /\ ~ obs2[t[i].obj].stray
               /\ t[i].wanted => t[i].name = Typing
    <3>1. i \in 1..k - 1 /\ i \in 1..k /\ t[i] = stack[i] /\ stack[i].obj # b
      BY <1>1
    <3>2. /\ stack[i].obj \in 1..Len(objs) /\ stack[i].name = objs[stack[i].obj].name
          /\ stack[i].name # Sys /\ ~ objs[stack[i].obj].stray
          /\ stack[i].wanted => stack[i].name = Typing
      BY <3>1 DEF IInv, Bodies, BodiesOf
    <3>3. obs2[stack[i].obj] = objs[stack[i].obj] /\ Len(obs2) = Len(objs)
      BY <1>3, <3>1, <3>2 DEF Ended
    <3> QED BY <3>1, <3>2, <3>3
  <2>2. ASSUME NEW i \in 1..Len(t), NEW j \in 1..Len(t), t[i].obj = t[j].obj
        PROVE  i = j
    <3>1. t[i] = stack[i] /\ t[j] = stack[j] /\ i \in 1..k /\ j \in 1..k
      BY <1>1
    <3> QED BY <2>2, <3>1 DEF IInv, Bodies, BodiesOf
  <2> QED BY <2>1, <2>2 DEF BodiesOf
<1>7. ASSUME NEW own, OwnOK(own, objs)
      PROVE  OwnOK(own, obs2) /\ VisibleIn(own, obs2) = VisibleIn(own, objs)
  <2>1. OwnOK(own, obs2)
    BY <1>3, <1>7 DEF OwnOK, Ended
  <2>2. own[Sys] # Absent => obs2[own[Sys]].binding = objs[own[Sys]].binding
    BY <1>4, <1>7, VisibleType
  <2> QED BY <2>1, <2>2 DEF VisibleIn
<1> QED BY <1>5, <1>6, <1>7 DEF b, t

\* The interpreter of a file module is left with its body.
LEMMA OuterOK ==
    ASSUME IInv, stack # <<>>, NEW obs2, NEW cur, NEW bg, LevelsOK(levels, obs2, cur, bg)
    PROVE  /\ LevelsOK(Outer, obs2, cur, bg)
           /\ Len(Outer) = 1 + Cardinality(FilesOf(Front(stack)))
           /\ Len(Outer) \in 1..Len(Outer) /\ Len(Outer) \in 1..Len(levels)
           /\ Outer[Len(Outer)] = levels[Len(Outer)]
           /\ ~ IsFile(Last(stack).name) => Outer = levels
<1>1. /\ stack \in Seq(Body) /\ levels \in Seq(Level) /\ Len(levels) \in Nat \ {0}
      /\ Len(levels) = 1 + Cardinality(FilesOf(stack))
      /\ Cardinality(FilesOf(stack)) \in Nat
  BY TopLevel DEF IInv, Types, Count
<1>2. Cardinality(FilesOf(Front(stack))) \in Nat
  <2>1. Front(stack) \in Seq(Body)
    BY TopBody
  <2> DEFINE t == Front(stack)
  <2> HIDE DEF t
  <2>2. t \in Seq(Body)
    BY <2>1 DEF t
  <2>3. IsFiniteSet(1..Len(t)) /\ FilesOf(t) \subseteq 1..Len(t)
    BY <2>2, FS_Interval DEF FilesOf
  <2>4. IsFiniteSet(FilesOf(t))
    BY <2>3, FS_Subset
  <2> QED BY <2>4, FS_CardinalityType DEF t
<1>3. CASE IsFile(Last(stack).name)
  <2>1. Outer = Front(levels)
    BY <1>3 DEF Outer
  <2>2. Cardinality(FilesOf(stack)) = Cardinality(FilesOf(Front(stack))) + 1
    BY <1>1, <1>3, CountPop
  <2>3. levels # <<>>
    BY <1>1
  <2>4. LevelsOK(Front(levels), obs2, cur, bg) /\ Len(Front(levels)) = Len(levels) - 1
    BY <2>3, LevelPop
  <2>5. \A i \in 1..Len(levels) - 1 : Front(levels)[i] = levels[i]
    BY <1>1, <2>3, FrontSeq
  <2> DEFINE c == Cardinality(FilesOf(Front(stack)))
             d == Cardinality(FilesOf(stack))
             p == Len(levels)
             q == Len(Outer)
  <2>6. c \in Nat /\ d \in Nat /\ p \in Nat /\ p = 1 + d /\ d = c + 1 /\ q = p - 1
    BY <1>1, <1>2, <2>1, <2>2, <2>4
  <2> HIDE DEF c, d, p, q
  <2>7. q = 1 + c /\ q \in 1..q /\ q \in 1..p /\ q \in 1..p - 1
    BY <2>6
  <2>8. Outer[q] = levels[q]
    BY <2>1, <2>5, <2>7 DEF p
  <2> QED BY <1>3, <2>1, <2>4, <2>7, <2>8 DEF c, p, q
<1>4. CASE ~ IsFile(Last(stack).name)
  <2>1. Outer = levels
    BY <1>4 DEF Outer
  <2>2. FilesOf(Front(stack)) = FilesOf(stack)
    BY <1>1, <1>4, CountPop
  <2>3. Len(levels) \in 1..Len(levels)
    BY <1>1
  <2> QED BY <1>1, <2>1, <2>2, <2>3
<1> QED BY <1>3, <1>4

\* A body returns.
LEMMA BodyReturnsKeeps ==
    ASSUME IInv, BodyReturns
    PROVE  IInv'
<1> DEFINE f == Last(stack)
           b == f.obj
           m == [objs[b] EXCEPT !.status = "ready", !.stray = Lookup(f.name) # f.obj]
           cur == regs[Boot][Typing]
<1>1. /\ stack # <<>> /\ stack' = Front(stack)
      /\ objs' = [objs EXCEPT ![b].status = "ready", ![b].stray = Lookup(f.name) # f.obj]
      /\ f.wanted => FillClass(b)
      /\ ~ f.wanted => levels' = Outer
      /\ UNCHANGED <<owner, regs, bootGen, touched, aliases>>
  BY DEF BodyReturns
<1>2. /\ b \in 1..Len(objs) /\ objs[b] \in Module /\ f \in Body
      /\ f.wanted => f.name = Typing
      /\ Front(stack) \in Seq(Body)
  BY <1>1, TopBody
<1>3. objs \in Seq(Module) /\ OwnOK(owner, objs)
  BY TopLevel DEF IInv, Types
<1>4. /\ m \in Module /\ m.name = objs[b].name /\ m.home = objs[b].home
      /\ m.gen = objs[b].gen /\ m.binding = objs[b].binding /\ m.cls = objs[b].cls
      /\ m.status = "ready" /\ m.stray = (Lookup(f.name) # f.obj)
  BY <1>2 DEF Module
<1>5. objs' = [objs EXCEPT ![b] = m]
  BY <1>1, <1>2, <1>3
<1> HIDE DEF m, f
<1>6. /\ objs' \in Seq(Module) /\ Len(objs') = Len(objs)
      /\ \A i \in 1..Len(objs) : objs'[i] = IF i = b THEN m ELSE objs[i]
  <2> HIDE DEF b
  <2>1. objs \in Seq(Module) /\ m \in Module
    BY <1>3, <1>4
  <2> DEFINE t == [objs EXCEPT ![b] = m]
  <2>2. /\ t \in Seq(Module) /\ Len(t) = Len(objs)
        /\ \A i \in 1..Len(objs) : t[i] = IF i = b THEN m ELSE objs[i]
    BY <2>1, SetSeq
  <2>3. objs' = t
    BY <1>5
  <2> HIDE DEF t
  <2> QED BY <2>2, <2>3
<1>7. objs'[b] = m /\ Ended(objs', b)
  BY <1>2, <1>4, <1>6 DEF Ended
<1>8. /\ Grown(objs, objs') /\ BodiesOf(Front(stack), objs')
      /\ VisibleIn(owner, objs') = VisibleIn(owner, objs)
  BY <1>1, <1>3, <1>7, EndedKeeps DEF f
<1>9. LevelsOK(levels, objs', cur, bootGen)
  <2>1. LevelsOK(levels, objs, cur, bootGen)
    BY DEF IInv, Caches
  <2> QED BY <1>8, <2>1, LevelsGrown
<1>10. /\ LevelsOK(levels', objs', cur, bootGen)
       /\ Len(levels') = 1 + Cardinality(FilesOf(Front(stack)))
  <2>0. /\ LevelsOK(Outer, objs', cur, bootGen)
        /\ Len(Outer) = 1 + Cardinality(FilesOf(Front(stack)))
        /\ ~ IsFile(f.name) => Outer = levels
    BY <1>1, <1>9, OuterOK DEF f
  <2>1. CASE f.wanted
    <3>1. f.name = Typing /\ FillClass(b) /\ ~ IsFile(f.name)
      BY <1>1, <1>2, <2>1 DEF IsFile
    <3>2. Visible = Boot /\ ~ objs'[b].stray => cur = b
      BY <1>4, <1>7, <3>1 DEF Lookup
    <3>3. LevelsOK(levels', objs', cur, bootGen) /\ Len(levels') = Len(levels)
      <4> HIDE DEF b, cur
      <4> QED BY <1>8, <1>9, <3>1, <3>2, FillClassOK
    <3> QED BY <2>0, <3>1, <3>3
  <2>2. CASE ~ f.wanted
    BY <1>1, <2>0, <2>2
  <2> QED BY <2>1, <2>2
<1>11. Types'
  <2>1. Objects' = Objects
    BY <1>6 DEF Objects
  <2> QED BY <1>1, <1>2, <1>6, <1>10, <2>1 DEF IInv, Types, LevelsOK
<1>12. Count' /\ Caches' /\ Bodies'
  BY <1>1, <1>8, <1>10 DEF Count, Caches, Bodies
<1>13. Homes'
  <2>1. ASSUME NEW r \in Registries, NEW n \in Names
        PROVE  <<r, n>> \in aliases \/ AtHome(regs[r][n], r, n, objs')
    <3>1. <<r, n>> \in aliases \/ AtHome(regs[r][n], r, n, objs)
      BY DEF IInv, Homes
    <3> QED BY <1>4, <1>6, <1>7, <3>1 DEF AtHome
  <2> QED BY <1>1, <2>1 DEF Homes
<1>14. Agree'
  <2>1. Visible' = Visible
    BY <1>1, <1>8 DEF Visible
  <2> QED BY <1>1, <2>1 DEF IInv, Agree
<1> QED BY <1>11, <1>12, <1>13, <1>14 DEF IInv

\* Object b afterwards, and that it is so: its failure was missed or not.
FailedModule(b, x) == [objs[b] EXCEPT !.status = "failed", !.missed = x]

\* The step that makes it so.
BecomesFailed(b, x) == objs' = [objs EXCEPT ![b] = FailedModule(b, x)]

\* A body raises: the module leaves the registry it was published in, if that
\* one is visible and lets it go.
LEMMA BodyRaisesKeeps ==
    ASSUME IInv, BodyRaises
    PROVE  IInv'
<1> DEFINE f == Last(stack)
           b == f.obj
           n == f.name
           k == Len(Outer)
           newOwner == [owner EXCEPT ![n] = Absent]
           l == Refreshed(Outer[k], newOwner, objs)
           r == Resolve(Outer[k].reg, newOwner, objs)
           cur2 == regs'[Boot][Typing]
<1>1. /\ stack # <<>> /\ stack' = Front(stack) /\ owner' = newOwner
      /\ Replaced(Outer, levels', k, l)
      /\ \/ /\ r # Absent /\ WriteEntry(r, n, Absent) /\ touched' = touched
            /\ objs' = [objs EXCEPT ![b].status = "failed",
                                    ![b].missed = Visible # objs[b].home]
         \/ /\ touched' = touched \union {n} /\ UNCHANGED <<regs, bootGen, aliases>>
            /\ objs' = [objs EXCEPT ![b].status = "failed", ![b].missed = TRUE]
  BY DEF BodyRaises, Replaced
<1>2. /\ b \in 1..Len(objs) /\ objs[b] \in Module /\ objs[b].name = n /\ n # Sys
      /\ n \in Names /\ Front(stack) \in Seq(Body)
  BY <1>1, TopBody
<1> HIDE DEF f
<1>3. /\ objs \in Seq(Module) /\ OwnOK(owner, objs) /\ Sys \in Names
      /\ owner \in [Names -> 1..Len(objs) \union {Absent}]
  BY TopLevel, NamesAssumption DEF IInv, Types, OwnOK
<1>4. /\ newOwner \in [Names -> 1..Len(objs) \union {Absent}] /\ newOwner[n] = Absent
      /\ \A h \in Names : h # n => newOwner[h] = owner[h]
  BY <1>2, <1>3
<1>5. OwnOK(newOwner, objs)
  BY <1>3, <1>4 DEF OwnOK
<1> HIDE DEF newOwner, b, n
<1>6. VisibleIn(newOwner, objs) = Visible /\ Visible \in Registries \union {Absent}
  <2>1. newOwner[Sys] = owner[Sys]
    BY <1>2, <1>3, <1>4
  <2> QED BY <1>3, <2>1, VisibleType DEF VisibleIn, Visible
<1>7. /\ k \in 1..Len(levels) /\ Outer[k] = levels[k]
  <2>1. LevelsOK(levels, objs, regs[Boot][Typing], bootGen)
    BY DEF IInv, Caches
  <2> QED BY <1>1, <2>1, OuterOK
<1> HIDE DEF k
<1>8. r = Visible
  <2>1. LevelOK(levels[k], objs, regs[Boot][Typing], bootGen)
    BY <1>7 DEF IInv, Caches, LevelsOK
  <2>2. RegOK(Outer[k].reg, objs)
    BY <1>7, <2>1 DEF LevelOK
  <2> QED BY <1>5, <1>6, <2>2, ResolveIsVisible
<1> HIDE DEF r
\* The registries afterwards.
<1>9. /\ LevelsOK(levels, objs, cur2, bootGen') /\ bootGen' \in 0..MaxGen
      /\ regs' \in [Registries -> [Names -> Objects \union {Absent, Foreign}]]
      /\ \/ r \in Registries /\ Written(r, n, Absent) /\ touched' = touched
         \/ regs' = regs /\ touched' = touched \union {n}
  <2>1. CASE r # Absent /\ WriteEntry(r, n, Absent) /\ touched' = touched
    <3>1. r \in Registries
      BY <1>6, <1>8, <2>1
    <3>2. /\ LevelsOK(levels, objs, cur2, bootGen') /\ bootGen' \in 0..MaxGen
          /\ Written(r, n, Absent)
          /\ \A S : Absent \in S /\ (\A q \in Registries, h \in Names : regs[q][h] \in S) =>
                regs' \in [Registries -> [Names -> S]]
      BY <1>2, <2>1, <3>1, WriteKeeps
    <3>3. /\ Absent \in Objects \union {Absent, Foreign}
          /\ \A q \in Registries, h \in Names : regs[q][h] \in Objects \union {Absent, Foreign}
      BY DEF IInv, Types
    <3> QED BY <2>1, <3>1, <3>2, <3>3
  <2>2. CASE touched' = touched \union {n} /\ UNCHANGED <<regs, bootGen>>
    BY <2>2 DEF IInv, Caches, Types
  <2> QED BY <1>1, <2>1, <2>2
<1> HIDE DEF cur2
\* The object afterwards.
<1>10. PICK x \in BOOLEAN :
          /\ BecomesFailed(b, x)
          /\ x \/ (r \in Registries /\ Written(r, n, Absent) /\ r = objs[b].home)
  <2>1. CASE /\ r # Absent /\ WriteEntry(r, n, Absent)
             /\ objs' = [objs EXCEPT ![b].status = "failed",
                                     ![b].missed = Visible # objs[b].home]
    <3> DEFINE x == Visible # objs[b].home
    <3>1. x \in BOOLEAN /\ (~ x => r = objs[b].home)
      BY <1>8
    <3>2. BecomesFailed(b, x)
      BY <1>2, <1>3, <2>1 DEF BecomesFailed, FailedModule
    <3>3. r \in Registries
      BY <1>6, <1>8, <2>1
    <3>4. Written(r, n, Absent)
      BY <1>2, <2>1, <3>3, WriteKeeps
    <3> HIDE DEF x
    <3> QED BY <3>1, <3>2, <3>3, <3>4
  <2>2. CASE objs' = [objs EXCEPT ![b].status = "failed", ![b].missed = TRUE]
    <3>1. BecomesFailed(b, TRUE)
      BY <1>2, <1>3, <2>2 DEF BecomesFailed, FailedModule
    <3> QED BY <3>1
  <2> QED BY <1>1, <2>1, <2>2
<1> DEFINE w == FailedModule(b, x)
<1>11. /\ w \in Module /\ w.name = n /\ w.home = objs[b].home /\ w.missed = x
       /\ w.gen = objs[b].gen /\ w.binding = objs[b].binding /\ w.cls = objs[b].cls
  BY <1>2 DEF Module, FailedModule
<1>12. objs' = [objs EXCEPT ![b] = w]
  BY <1>10 DEF BecomesFailed
<1> HIDE DEF w
<1>13. /\ objs' \in Seq(Module) /\ Len(objs') = Len(objs)
       /\ \A i \in 1..Len(objs) : objs'[i] = IF i = b THEN w ELSE objs[i]
  BY <1>3, <1>11, <1>12, SetSeq
<1>14. objs'[b] = w /\ Ended(objs', b)
  BY <1>2, <1>11, <1>13 DEF Ended
<1>15. /\ Grown(objs, objs') /\ BodiesOf(Front(stack), objs')
       /\ VisibleIn(newOwner, objs') = VisibleIn(newOwner, objs)
  BY <1>1, <1>5, <1>14, EndedKeeps DEF b, f
\* The caches afterwards.
<1>16. /\ LevelsOK(levels', objs', cur2, bootGen')
       /\ Len(levels') = 1 + Cardinality(FilesOf(Front(stack)))
  <2>1. /\ LevelsOK(Outer, objs, cur2, bootGen')
        /\ Len(Outer) = 1 + Cardinality(FilesOf(Front(stack)))
        /\ k \in 1..Len(Outer)
    BY <1>1, <1>9, OuterOK DEF k
  <2>2. LevelOK(l, objs, cur2, bootGen')
    <3>1. LevelOK(Outer[k], objs, cur2, bootGen')
      BY <2>1 DEF LevelsOK
    <3> QED BY <1>5, <3>1, RefreshedOK
  <2> HIDE DEF l
  <2>3. LevelsOK(levels', objs, cur2, bootGen') /\ Len(levels') = Len(Outer)
    BY <1>1, <2>1, <2>2, LevelSet
  <2>4. LevelsOK(levels', objs', cur2, bootGen')
    BY <1>15, <2>3, LevelsGrown
  <2> QED BY <2>1, <2>3, <2>4
<1>17. Types'
  <2>1. Objects' = Objects
    BY <1>13 DEF Objects
  <2>2. owner' \in [Names -> Objects \union {Absent}]
    BY <1>1, <1>4 DEF Objects
  <2> QED BY <1>1, <1>2, <1>9, <1>13, <1>16, <2>1, <2>2 DEF Types, LevelsOK
<1>18. Count' /\ Caches' /\ Bodies'
  BY <1>1, <1>15, <1>16 DEF Count, Caches, Bodies, cur2
<1>19. Homes'
  <2>1. ASSUME NEW q \in Registries, NEW h \in Names
        PROVE  <<q, h>> \in aliases' \/ AtHome(regs'[q][h], q, h, objs')
    <3>0. Absent \notin Nat
      BY MarkersAssumption
    <3>1. regs'[q][h] = Absent \/ <<q, h>> \in aliases' \/ AtHome(regs[q][h], q, h, objs)
      <4>1. <<q, h>> \in aliases \/ AtHome(regs[q][h], q, h, objs)
        BY DEF IInv, Homes
      <4>2. CASE r # Absent /\ WriteEntry(r, n, Absent)
        <5>1. Written(r, n, Absent)
          BY <1>2, <1>6, <1>8, <4>2, WriteKeeps
        <5>2. <<q, h>> \in aliases => <<q, h>> \in aliases' \/ (q = r /\ h = n)
          BY <4>2, WriteMarks
        <5> QED BY <4>1, <5>1, <5>2 DEF Written
      <4>3. CASE aliases' = aliases
        BY <4>1, <4>3
      <4> QED BY <1>1, <4>2, <4>3
    <3>2. regs'[q][h] = Absent \/ regs'[q][h] = regs[q][h]
      BY <1>9, <2>1 DEF Written
    <3> DEFINE v == regs'[q][h]
    <3>3. CASE v = Absent
      BY <1>13, <3>0, <3>3 DEF AtHome
    <3>4. CASE v = regs[q][h] /\ v # b /\ AtHome(v, q, h, objs)
      BY <1>13, <3>4 DEF AtHome
    <3>5. CASE v = regs[q][h] /\ v = b /\ AtHome(v, q, h, objs)
      <4>1. n = h /\ objs[b].home = q
        BY <1>2, <3>5 DEF AtHome
      <4>2. b # Absent
        BY <1>2, <3>0
      <4>3. x
        <5> SUFFICES ASSUME ~ x PROVE FALSE
          OBVIOUS
        <5>1. regs'[q][h] = Absent
          BY <1>10, <4>1 DEF Written
        <5> QED BY <3>5, <4>2, <5>1
      <4> QED BY <1>11, <1>14, <3>5, <4>1, <4>3 DEF AtHome
    <3> QED BY <3>1, <3>2, <3>3, <3>4, <3>5
  <2> QED BY <2>1 DEF Homes
<1>20. Agree'
  <2>1. Visible' = Visible
    BY <1>1, <1>6, <1>15 DEF Visible
  <2>2. ASSUME NEW h \in Names \ touched'
        PROVE  NameOK(h, Visible, regs', newOwner)
    <3>1. NameOK(h, Visible, regs, owner) /\ h \in Names
      BY <1>9, <2>2 DEF IInv, Agree
    <3>2. Boot \in Registries /\ (Visible # Absent => Visible \in Registries)
      BY <1>6, RegistriesAssumption
    <3>3. CASE h # n
      <4>1. regs'[Boot][h] = regs[Boot][h]
        BY <1>9, <3>2, <3>3 DEF Written
      <4>2. Visible # Absent => regs'[Visible][h] = regs[Visible][h]
        BY <1>9, <3>1, <3>2, <3>3 DEF Written
      <4>3. newOwner[h] = owner[h]
        BY <1>4, <3>1, <3>3
      <4> QED BY <3>1, <4>1, <4>2, <4>3 DEF NameOK, LookupIn
    <3>4. CASE h = n
      <4>1. Visible \in Registries /\ Written(Visible, n, Absent)
        BY <1>8, <1>9, <2>2, <3>4
      <4>2. regs'[Visible][n] = Absent /\ regs'[Boot][n] = Absent
        BY <1>2, <3>1, <3>2, <3>4, <4>1 DEF Written, NameOK
      <4> QED BY <1>4, <3>4, <4>2 DEF NameOK, LookupIn
    <3> QED BY <3>3, <3>4
  <2> QED BY <1>1, <2>1, <2>2 DEF Agree
<1> QED BY <1>17, <1>18, <1>19, <1>20 DEF IInv

-----------------------------------------------------------------------------
(* What a program may do *)

\* A module or something made up is stored in an entry, or the entry deleted.
LEMMA EditEntryKeeps ==
    ASSUME IInv, NEW r \in Registries, NEW n \in Names,
           NEW v \in Objects \union {Absent, Foreign}, EditEntry(r, n, v)
    PROVE  IInv'
<1>1. /\ WriteEntry(r, n, v) /\ touched' = touched \union {n}
      /\ UNCHANGED <<objs, owner, levels, stack>>
  BY DEF EditEntry
<1>2. /\ LevelsOK(levels, objs, regs'[Boot][Typing], bootGen')
      /\ bootGen' \in 0..MaxGen /\ Written(r, n, v)
      /\ \A S : v \in S /\ (\A q \in Registries, m \in Names : regs[q][m] \in S) =>
            regs' \in [Registries -> [Names -> S]]
  BY <1>1, WriteKeeps
<1>3. Types'
  <2>1. /\ v \in Objects \union {Absent, Foreign}
        /\ \A q \in Registries, h \in Names : regs[q][h] \in Objects \union {Absent, Foreign}
    BY DEF IInv, Types
  <2>2. regs' \in [Registries -> [Names -> Objects \union {Absent, Foreign}]]
    BY <1>2, <2>1
  <2>3. Objects' = Objects
    BY <1>1 DEF Objects
  <2> QED BY <1>1, <1>2, <2>2, <2>3 DEF IInv, Types
<1>4. Count' /\ Caches' /\ Bodies'
  BY <1>1, <1>2 DEF IInv, Count, Caches, Bodies
<1>5. Homes'
  <2>1. ASSUME NEW q \in Registries, NEW h \in Names
        PROVE  <<q, h>> \in aliases' \/ AtHome(regs'[q][h], q, h, objs)
    <3>1. CASE q = r /\ h = n
      <4>1. regs'[q][h] = v /\ (IsAlias(r, n, v) => <<q, h>> \in aliases')
        BY <1>1, <1>2, <3>1, WriteMarks DEF Written
      <4>2. ~ IsAlias(r, n, v) => AtHome(v, r, n, objs)
        BY DEF IsAlias, AtHome, Objects
      <4> QED BY <3>1, <4>1, <4>2
    <3>2. CASE ~ (q = r /\ h = n)
      <4>1. regs'[q][h] = regs[q][h] /\ (<<q, h>> \in aliases => <<q, h>> \in aliases')
        BY <1>1, <1>2, <3>2, WriteMarks DEF Written
      <4> QED BY <4>1 DEF IInv, Homes
    <3> QED BY <3>1, <3>2
  <2> QED BY <1>1, <2>1 DEF Homes
<1>6. Agree'
  <2>1. Visible' = Visible /\ Visible \in Registries \union {Absent} /\ Boot \in Registries
    BY <1>1, TopResolves, RegistriesAssumption DEF Visible
  <2>2. ASSUME NEW h \in Names \ touched'
        PROVE  NameOK(h, Visible, regs', owner)
    <3>1. NameOK(h, Visible, regs, owner) /\ h \in Names /\ h # n
      BY <1>1, <2>2 DEF IInv, Agree
    <3>2. \A q \in Registries : regs'[q][h] = regs[q][h]
      BY <1>2, <3>1 DEF Written
    <3> QED BY <2>1, <3>1, <3>2 DEF NameOK, LookupIn
  <2> QED BY <1>1, <2>1, <2>2 DEF Agree
<1> QED BY <1>3, <1>4, <1>5, <1>6 DEF IInv

\* The namespace of object o becomes that of m: with a new generation, unless
\* no registry entry observes it, or the generation is no longer usable.
Changed(o, m) ==
    /\ m \in Module /\ m.name = objs[o].name /\ m.home = objs[o].home
    /\ m.status = objs[o].status /\ m.missed = objs[o].missed /\ m.stray = objs[o].stray
    /\ m.gen = objs[o].gen \/ m.gen = Bump(objs[o].gen)
    /\ m.cls # objs[o].cls => m.gen = Bump(objs[o].gen)
    /\ m.binding # objs[o].binding =>
         \/ m.gen = Bump(objs[o].gen)
         \/ \A i \in 1..Len(levels) : levels[i].reg # NoCache => levels[i].reg.sys # o

\* The caches know it.
LEMMA ChangedLevels ==
    ASSUME IInv, NEW o \in 1..Len(objs), NEW m, Changed(o, m), NEW obs2,
           Len(obs2) = Len(objs), \A i \in 1..Len(objs) : obs2[i] = IF i = o THEN m ELSE objs[i]
    PROVE  LevelsOK(levels, obs2, regs[Boot][Typing], bootGen)
<1> DEFINE cur == regs[Boot][Typing]
           g == objs[o].gen
<1>1. objs \in Seq(Module) /\ levels \in Seq(Level) /\ objs[o] \in Module
  BY DEF IInv, Types
<1>2. g \in 0..MaxGen /\ MaxGen \in Nat
  BY <1>1, GenAssumption DEF Module
<1>3. ASSUME NEW i \in 1..Len(levels)
      PROVE  LevelOK(levels[i], obs2, cur, bootGen)
  <2> DEFINE c == levels[i].reg
             e == levels[i].cls
  <2>1. LevelOK(levels[i], objs, cur, bootGen)
    BY DEF IInv, Caches, LevelsOK
  <2>2. /\ levels[i] \in Level /\ RegOK(c, objs) /\ ClassOK(e, objs, cur, bootGen)
        /\ c # NoCache => c \in RegistryEntry
        /\ e # NoCache => e \in ClassEntries
    BY <2>1 DEF LevelOK, Level
  <2>3. /\ m.gen = g \/ m.gen = Bump(g)
        /\ m.stray = objs[o].stray
        /\ m.cls # objs[o].cls => m.gen = Bump(g)
        /\ m.binding # objs[o].binding => m.gen = Bump(g) \/ c = NoCache \/ c.sys # o
    BY DEF Changed
  <2>4. obs2[o] = m /\ \A j \in 1..Len(objs) : j # o => obs2[j] = objs[j]
    OBVIOUS
  <2> HIDE DEF c, e, cur
  <2>5. RegOK(c, obs2)
    <3> SUFFICES ASSUME c # NoCache PROVE RegOK(c, obs2)
      BY DEF RegOK
    <3>1. /\ c.sys \in 1..Len(objs) /\ c.version <= objs[c.sys].gen
          /\ objs[c.sys].gen = c.version /\ Usable(c.version) =>
                c.registry = objs[c.sys].binding
      BY <2>2 DEF RegOK
    <3>2. c.version \in Nat
      BY <2>2 DEF RegistryEntry
    <3>3. CASE c.sys # o
      BY <2>4, <3>1, <3>3 DEF RegOK
    <3>4. CASE c.sys = o
      <4>1. c.version <= g /\ (g = c.version /\ Usable(g) => c.registry = objs[o].binding)
        BY <3>1, <3>4
      <4>2. m.gen = Bump(g) \/ (m.gen = g /\ m.binding = objs[o].binding)
        BY <2>3, <3>4
      <4> HIDE DEF g
      <4>3. /\ c.version <= m.gen
            /\ m.gen = c.version /\ Usable(c.version) => c.registry = m.binding
        BY <1>2, <3>2, <4>1, <4>2 DEF Bump, Usable
      <4> QED BY <2>4, <3>4, <4>3 DEF RegOK
    <3> QED BY <3>3, <3>4
  <2>6. ClassOK(e, obs2, cur, bootGen)
    <3> SUFFICES ASSUME e # NoCache PROVE ClassOK(e, obs2, cur, bootGen)
      BY DEF ClassOK
    <3>1. /\ e.module \in 1..Len(objs) /\ e.bootVersion <= bootGen
          /\ e.moduleVersion <= objs[e.module].gen
          /\ bootGen = e.bootVersion /\ Usable(bootGen) /\ ~ objs[e.module].stray =>
                cur = e.module
          /\ objs[e.module].gen = e.moduleVersion /\ Usable(e.moduleVersion) =>
                objs[e.module].cls = e.class
      BY <2>2 DEF ClassOK
    <3>2. e.moduleVersion \in Nat
      BY <2>2 DEF ClassEntries
    <3>3. CASE e.module # o
      BY <2>4, <3>1, <3>3 DEF ClassOK
    <3>4. CASE e.module = o
      <4>0. m.stray = objs[o].stray
        BY DEF Changed
      <4>1. /\ e.moduleVersion <= g
            /\ g = e.moduleVersion /\ Usable(g) => objs[o].cls = e.class
        BY <3>1, <3>4
      <4>2. m.gen = Bump(g) \/ (m.gen = g /\ m.cls = objs[o].cls)
        BY <2>3
      <4> HIDE DEF g
      <4>3. /\ e.moduleVersion <= m.gen
            /\ m.gen = e.moduleVersion /\ Usable(e.moduleVersion) => m.cls = e.class
        BY <1>2, <3>2, <4>1, <4>2 DEF Bump, Usable
      <4> QED BY <2>4, <3>1, <3>4, <4>0, <4>3 DEF ClassOK
    <3> QED BY <3>3, <3>4
  <2> QED BY <2>2, <2>5, <2>6 DEF LevelOK, c, e
<1> QED BY <1>1, <1>3 DEF LevelsOK

\* A namespace changes and nothing else.
LEMMA ChangedKeeps ==
    ASSUME IInv, NEW o \in 1..Len(objs), NEW m, Changed(o, m), objs' = [objs EXCEPT ![o] = m],
           touched' = Names \/ (touched' = touched /\ (o = owner[Sys] => m.binding = objs[o].binding)),
           UNCHANGED <<owner, regs, bootGen, levels, stack, aliases>>
    PROVE  IInv'
<1>1. objs \in Seq(Module) /\ m \in Module
  BY DEF IInv, Types, Changed
<1>2. /\ objs' \in Seq(Module) /\ Len(objs') = Len(objs)
      /\ \A i \in 1..Len(objs) : objs'[i] = IF i = o THEN m ELSE objs[i]
  BY <1>1, SetSeq
<1>3. LevelsOK(levels, objs', regs[Boot][Typing], bootGen)
  BY <1>2, ChangedLevels
<1>4. \A i \in 1..Len(objs) :
         /\ objs'[i].name = objs[i].name /\ objs'[i].home = objs[i].home
         /\ objs'[i].status = objs[i].status /\ objs'[i].missed = objs[i].missed
         /\ objs'[i].stray = objs[i].stray
         /\ i # o => objs'[i] = objs[i]
  BY <1>2 DEF Changed
<1>5. objs'[o] = m
  BY <1>2
<1> DEFINE obs2 == objs'
<1> HIDE DEF obs2
<1>6. Types'
  <2>1. Objects' = Objects
    BY <1>2 DEF Objects
  <2> QED BY <1>2, <2>1 DEF IInv, Types
<1>7. Count' /\ Caches'
  BY <1>3 DEF IInv, Count, Caches
<1>8. Bodies'
  <2>1. BodiesOf(stack, obs2)
    BY <1>2, <1>4 DEF IInv, Bodies, BodiesOf, obs2
  <2> QED BY <2>1 DEF Bodies, obs2
<1>9. Homes'
  <2>1. ASSUME NEW q \in Registries, NEW h \in Names
        PROVE  <<q, h>> \in aliases \/ AtHome(regs[q][h], q, h, obs2)
    <3>1. <<q, h>> \in aliases \/ AtHome(regs[q][h], q, h, objs)
      BY DEF IInv, Homes
    <3> QED BY <1>2, <1>4, <3>1 DEF AtHome, obs2
  <2> QED BY <2>1 DEF Homes, obs2
<1>10. Agree'
  <2>1. CASE touched' = Names
    BY <2>1 DEF Agree
  <2>2. CASE touched' = touched /\ (o = owner[Sys] => m.binding = objs[o].binding)
    <3>1. owner[Sys] \in 1..Len(objs) \union {Absent}
      BY TopLevel, VisibleType
    <3>2. owner[Sys] # Absent => objs'[owner[Sys]].binding = objs[owner[Sys]].binding
      BY <1>4, <1>5, <2>2, <3>1
    <3>3. Visible' = Visible
      BY <3>2 DEF Visible, VisibleIn
    <3> QED BY <2>2, <3>3 DEF IInv, Agree
  <2> QED BY <2>1, <2>2
<1> QED BY <1>6, <1>7, <1>8, <1>9, <1>10 DEF IInv

\* sys.modules is rebound or deleted.
LEMMA RebindKeeps ==
    ASSUME IInv, NEW o \in Objects, NEW r \in Registries \union {Absent}, Rebind(o, r)
    PROVE  IInv'
<1> DEFINE g == objs[o].gen
           g2 == IF NamespaceObserved(o) THEN Bump(g) ELSE g
           m == [objs[o] EXCEPT !.binding = r, !.gen = g2]
<1>1. o \in 1..Len(objs) /\ objs[o] \in Module /\ objs \in Seq(Module)
  BY DEF IInv, Types, Objects
<1>2. /\ objs' = [objs EXCEPT ![o].binding = r, ![o].gen = g2]
      /\ touched' = IF o = owner[Sys] THEN Names ELSE touched
      /\ UNCHANGED <<owner, regs, bootGen, levels, stack, aliases>>
  BY DEF Rebind
<1>3. g \in 0..MaxGen /\ g2 \in 0..MaxGen /\ (g2 = g \/ g2 = Bump(g))
  BY <1>1, GenAssumption DEF Module, Bump
<1>4. g2 = Bump(g) \/ \A i \in 1..Len(levels) : levels[i].reg # NoCache => levels[i].reg.sys # o
  BY DEF NamespaceObserved, Top
<1> HIDE DEF g2
<1>5. /\ m \in Module /\ m.name = objs[o].name /\ m.home = objs[o].home
      /\ m.status = objs[o].status /\ m.missed = objs[o].missed /\ m.stray = objs[o].stray
      /\ m.cls = objs[o].cls /\ m.gen = g2
  BY <1>1, <1>3 DEF Module
<1>6. objs' = [objs EXCEPT ![o] = m]
  BY <1>1, <1>2
<1> HIDE DEF m
<1>7. Changed(o, m)
  BY <1>3, <1>4, <1>5 DEF Changed
<1> QED BY <1>1, <1>2, <1>6, <1>7, ChangedKeeps

\* The class attribute is set or deleted.
LEMMA PatchClassKeeps ==
    ASSUME IInv, NEW o \in Objects, NEW c \in Classes \union {Absent}, PatchClass(o, c)
    PROVE  IInv'
<1> DEFINE g2 == Bump(objs[o].gen)
           m == [objs[o] EXCEPT !.cls = c, !.gen = g2]
<1>1. o \in 1..Len(objs) /\ objs[o] \in Module /\ objs \in Seq(Module)
  BY DEF IInv, Types, Objects
<1>2. /\ objs' = [objs EXCEPT ![o].cls = c, ![o].gen = g2]
      /\ UNCHANGED <<owner, regs, bootGen, levels, stack, touched, aliases>>
  BY DEF PatchClass
<1>3. g2 \in 0..MaxGen
  BY <1>1, GenAssumption DEF Module, Bump
<1> HIDE DEF g2
<1>4. /\ m \in Module /\ m.name = objs[o].name /\ m.home = objs[o].home
      /\ m.status = objs[o].status /\ m.missed = objs[o].missed /\ m.stray = objs[o].stray
      /\ m.binding = objs[o].binding /\ m.gen = g2
  BY <1>1, <1>3 DEF Module
<1>5. objs' = [objs EXCEPT ![o] = m]
  BY <1>1, <1>2
<1> HIDE DEF m
<1>6. Changed(o, m)
  BY <1>4 DEF Changed, g2
<1> QED BY <1>1, <1>2, <1>4, <1>5, <1>6, ChangedKeeps

-----------------------------------------------------------------------------
(* The theorems *)

\* An import keeps the invariant, whatever it finds.
LEMMA ImportKeeps ==
    ASSUME IInv, NEW n \in Names, NEW wanted \in BOOLEAN, wanted => n = Typing,
           Import(n, wanted)
    PROVE  IInv'
<1>1. CASE LoadInternal(n, wanted)
  BY <1>1, LoadInternalKeeps
<1>2. CASE LoadVisible(n, wanted)
  BY <1>2, LoadVisibleKeeps
<1>3. CASE LoadMissing(n)
  BY <1>3, LoadMissingKeeps
<1>4. CASE LoadFresh(n, wanted)
  BY <1>4, LoadFreshKeeps
<1>5. CASE LoadRefused(n)
  BY <1>5, LoadRefusedKeeps
<1> QED BY <1>1, <1>2, <1>3, <1>4, <1>5 DEF Import

\* A step that changes nothing keeps it.
LEMMA StutterKeeps ==
    ASSUME IInv, UNCHANGED vars
    PROVE  IInv'
<1>1. /\ objs' = objs /\ owner' = owner /\ regs' = regs /\ bootGen' = bootGen
      /\ levels' = levels /\ stack' = stack /\ touched' = touched
      /\ aliases' = aliases
  BY DEF vars
<1>2. Visible' = Visible /\ Objects' = Objects
  BY <1>1 DEF Visible, Objects
<1> QED BY <1>1, <1>2 DEF IInv, Types, Count, Caches, Bodies, Homes, Agree

\* Every step of the interpreter and of the program keeps the invariant.
LEMMA NextKeeps ==
    ASSUME IInv, [Next]_vars
    PROVE  IInv'
<1>1. ASSUME NEW n \in Names, Import(n, FALSE)
      PROVE  IInv'
  BY <1>1, ImportKeeps
<1>2. CASE CachedModuleClass
  <2>1. Typing \in Names /\ Import(Typing, TRUE)
    BY <1>2, NamesAssumption DEF CachedModuleClass
  <2> QED BY <2>1, ImportKeeps
<1>3. CASE BodyReturns
  BY <1>3, BodyReturnsKeeps
<1>4. CASE BodyRaises
  BY <1>4, BodyRaisesKeeps
<1>5. ASSUME NEW r \in Registries, NEW n \in Names,
             NEW v \in Objects \union {Absent, Foreign}, EditEntry(r, n, v)
      PROVE  IInv'
  BY <1>5, EditEntryKeeps
<1>6. ASSUME NEW o \in Objects, NEW r \in Registries \union {Absent}, Rebind(o, r)
      PROVE  IInv'
  BY <1>6, RebindKeeps
<1>7. ASSUME NEW o \in Objects, NEW c \in Classes \union {Absent}, PatchClass(o, c)
      PROVE  IInv'
  BY <1>7, PatchClassKeeps
<1>8. CASE UNCHANGED vars
  BY <1>8, StutterKeeps
<1> QED BY <1>1, <1>2, <1>3, <1>4, <1>5, <1>6, <1>7, <1>8 DEF Next

\* It holds in an interpreter that has imported nothing.
LEMMA InitIInv ==
    ASSUME Init
    PROVE  IInv
<1>1. /\ objs = <<>> /\ owner = [n \in Names |-> Absent] /\ bootGen = 0 /\ stack = <<>>
      /\ regs = [r \in Registries |-> [n \in Names |-> Absent]] /\ levels = <<NoLevel>>
  BY DEF Init
<1>2. NoLevel \in Level /\ NoLevel.reg = NoCache /\ NoLevel.cls = NoCache
  BY DEF NoLevel, Level
<1>3. LevelOK(NoLevel, objs, regs[Boot][Typing], bootGen)
  BY <1>2 DEF LevelOK, RegOK, ClassOK
<1> HIDE DEF NoLevel
<1>4. /\ levels \in Seq(Level) /\ Len(levels) = 1 /\ levels[1] = NoLevel
      /\ Len(objs) = 0 /\ Len(stack) = 0
      /\ objs \in Seq(Module) /\ stack \in Seq(Body)
  BY <1>1, <1>2
<1>5. Caches
  BY <1>3, <1>4 DEF Caches, LevelsOK
<1>6. Types
  BY <1>1, <1>4, GenAssumption DEF Types
<1>7. Count
  <2>1. FilesOf(stack) = {}
    BY <1>4 DEF FilesOf
  <2> QED BY <1>4, <2>1, FS_EmptySet DEF Count
<1>8. Bodies
  BY <1>4 DEF Bodies, BodiesOf
<1>9. Homes
  <2>1. \A v : v \notin 1..Len(objs)
    BY <1>4
  <2> QED BY <2>1 DEF Homes, AtHome
<1>10. Agree
  <2>1. Sys \in Names /\ Boot \in Registries
    BY NamesAssumption, RegistriesAssumption
  <2>2. Visible = Boot
    BY <1>1, <2>1 DEF Visible, VisibleIn
  <2>3. \A n \in Names : regs[Boot][n] = Absent /\ owner[n] = Absent
    BY <1>1, <2>1
  <2> QED BY <2>2, <2>3 DEF Agree, NameOK, LookupIn
<1> QED BY <1>5, <1>6, <1>7, <1>8, <1>9, <1>10 DEF IInv

\* The invariant is one.
THEOREM Inductive == Spec => []IInv
<1>1. Init => IInv
  BY InitIInv
<1>2. IInv /\ [Next]_vars => IInv'
  BY NextKeeps
<1> QED BY <1>1, <1>2, PTL DEF Spec

\* The state keeps its types; there is one interpreter for the program and one
\* for each file module whose body runs, however their bodies end.
THEOREM TypeCorrect == Spec => []TypeOK
<1>1. IInv => TypeOK
  <2> SUFFICES ASSUME IInv PROVE TypeOK
    OBVIOUS
  <2>1. objs \in Seq(Module) /\ Types /\ Count
    BY DEF IInv, Types
  <2>2. \A o \in Objects : objs[o] \in Module
    BY <2>1 DEF Objects
  <2>3. \A o \in Objects : /\ objs[o].gen \in 0..MaxGen
                           /\ objs[o].binding \in Registries \union {Absent}
                           /\ objs[o].cls \in Classes \union {Absent}
    BY <2>2 DEF Module
  <2>4. Top = 1 + Cardinality({i \in 1..Len(stack) : IsFile(stack[i].name)})
    BY <2>1 DEF Top, Count, FilesOf
  <2>5. \A r \in Registries, n \in Names : regs[r][n] \in Objects \union {Absent, Foreign}
    BY <2>1 DEF Types
  <2> QED BY <2>1, <2>3, <2>4, <2>5 DEF TypeOK, Types
<1> QED BY <1>1, Inductive, PTL

\* The registry import_module_registry takes from its cache is the one that
\* sys.modules is bound to, in every interpreter (RegistryCacheSound).
THEOREM RegistryCacheAlwaysSound == Spec => []RegistryCacheSound
<1>1. IInv => RegistryCacheSound
  <2> SUFFICES ASSUME IInv, NEW i \in 1..Top,
                      RegistryCacheValid(levels[i].reg, owner, objs)
               PROVE  levels[i].reg.registry = Visible
    BY DEF RegistryCacheSound
  <2> DEFINE c == levels[i].reg
  <2>1. RegOK(c, objs)
    BY DEF IInv, Caches, LevelsOK, LevelOK, Top
  <2>2. OwnOK(owner, objs)
    BY TopLevel
  <2> HIDE DEF c
  <2>3. Resolve(c, owner, objs) = VisibleIn(owner, objs)
    BY <2>1, <2>2, ResolveIsVisible
  <2>4. RegistryCacheValid(c, owner, objs)
    BY DEF c
  <2>5. c.registry = Visible
    BY <2>3, <2>4 DEF Resolve, Visible
  <2> QED BY <2>5 DEF c
<1> QED BY <1>1, Inductive, PTL

\* A hit of cached_module_class is what an import of the module and a read of
\* its attribute would give, in every interpreter (ClassCacheSound).
THEOREM ClassCacheAlwaysSound == Spec => []ClassCacheSound
<1>1. IInv => ClassCacheSound
  <2> SUFFICES ASSUME IInv, NEW i \in 1..Top, ClassCacheHit(levels[i].cls),
                      ~objs[levels[i].cls.module].stray
               PROVE  /\ Lookup(Typing) = levels[i].cls.module
                      /\ objs[levels[i].cls.module].cls = levels[i].cls.class
    BY DEF ClassCacheSound
  <2> DEFINE e == levels[i].cls
  <2>1. ClassOK(e, objs, regs[Boot][Typing], bootGen)
    BY DEF IInv, Caches, LevelsOK, LevelOK, Top
  <2>2. ClassCacheHit(e) /\ ~objs[e.module].stray
    OBVIOUS
  <2> HIDE DEF e
  <2>3. /\ e.module \in 1..Len(objs) /\ regs[Boot][Typing] = e.module
        /\ objs[e.module].cls = e.class
    BY <2>1, <2>2 DEF ClassOK, ClassCacheHit
  <2>4. e.module # Absent
    <3>1. Len(objs) \in Nat
      BY DEF IInv, Types
    <3> QED BY <2>3, <3>1, MarkersAssumption
  <2>5. Lookup(Typing) = e.module /\ objs[e.module].cls = e.class
    BY <2>3, <2>4 DEF Lookup
  <2> QED BY <2>5 DEF e
<1> QED BY <1>1, Inductive, PTL

\* The owner map and the registries tell the same story of every name, and a
\* module whose body raised is found nowhere but in an alias that the program
\* made or after a failure that could not delete it (RegistriesAgree).
THEOREM RegistriesAlwaysAgree == Spec => []RegistriesAgree
<1>1. IInv => RegistriesAgree
  <2> SUFFICES ASSUME IInv PROVE RegistriesAgree
    OBVIOUS
  <2>1. OwnerAgrees
    BY DEF IInv, Agree, NameOK, LookupIn, OwnerAgrees, Lookup
  <2>2. FailedIsGone
    BY DEF IInv, Homes, AtHome, FailedIsGone, Objects
  <2> QED BY <2>1, <2>2 DEF RegistriesAgree
<1> QED BY <1>1, Inductive, PTL
=============================================================================
