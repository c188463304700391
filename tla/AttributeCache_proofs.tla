------------------------- MODULE AttributeCache_proofs -------------------------
(* Proofs about AttributeCache, for every value of its constants. *)
EXTENDS AttributeCache, WellFoundedInduction, TLAPS

-----------------------------------------------------------------------------
(* The inductive invariant *)

\* What an entry was filled for is still so.  A value that is kept says where
\* the lookup ends; an entry without one says what stands in the way of the
\* instance dict or of the member cell.
Describes(e) ==
    LET v == Lookup(e.class, "attr")
    IN  /\ e.kind = "native" =>
              site \in {"get", "call"} /\ v = e.value /\ v # Unset
              /\ Kind[v] = "native_classmethod"
        /\ e.kind = "write" =>
              /\ site = "set" /\ ~Has(e.class, "__setattr__")
              /\ v = Unset \/ ~IsDataDescriptor(v)
        /\ e.kind = "next" => site = "next" /\ v = e.value
        /\ e.kind \in {"instance", "slot", "class"} =>
              site \in {"get", "call"} /\ ~Has(e.class, "__getattribute__")
        /\ e.kind = "instance" => v = Unset \/ ~IsDataDescriptor(v)
        /\ e.kind = "slot" => v # Unset /\ Kind[v] = "member"
        /\ e.kind = "class" =>
              /\ v = e.value /\ v # Unset /\ Kind[v] # "native_classmethod"
              /\ ~IsDataDescriptor(v) /\ ~IsNonDataDescriptor(v)

\* The entry is not newer than the epoch, and is right while it is as new, its
\* class is alive and no class attribute slipped.
EntryOK ==
    entry.kind \in Monomorphic =>
      /\ entry.epoch \in 0..epoch
      /\ (/\ entry.class \in alive /\ entry.epoch = epoch /\ epoch # MaxEpoch
          /\ ~slipped) => Describes(entry)

\* Instances and classes keep what they need alive.
AliveOK ==
    /\ alive \subseteq Class
    /\ class \in [Receiver \cup Object -> alive]
    /\ \A c \in alive : ToSet(Mro[c]) \subseteq alive

\* The counters are within their limits.
Types == site \in Sites /\ epoch \in 0..MaxEpoch /\ slipped \in BOOLEAN

\* The inductive invariant.
IInv == Types /\ AliveOK /\ EntryOK

-----------------------------------------------------------------------------
(* Lookup *)

\* A set of numbers that is not empty has a least element.
LEMMA MinIn ==
    ASSUME NEW T, T \subseteq Nat, T # {}
    PROVE  Min(T) \in T
<1>1. PICK t \in T : \A u \in T : ~ (<<u, t>> \in OpToRel(<, Nat))
  BY NatLessThanWellFounded, WFMin
<1>2. \A u \in T : t <= u
  <2> SUFFICES ASSUME NEW u \in T, u < t PROVE FALSE
    BY SMT
  <2>1. u \in Nat /\ t \in Nat
    OBVIOUS
  <2>2. <<u, t>> \in OpToRel(<, Nat)
    BY <2>1 DEF OpToRel
  <2> QED BY <1>1, <2>2
<1> QED BY <1>2 DEF Min

\* A lookup reads the classes of the linearization only.
LEMMA LookupSame ==
    ASSUME NEW c \in Class, NEW name, \A d \in ToSet(Mro[c]) : attrs'[d] = attrs[d]
    PROVE  Lookup(c, name)' = Lookup(c, name)
<1> DEFINE owners == {k \in DOMAIN Mro[c] : attrs[Mro[c][k]][name] # Unset}
           owners2 == {k \in DOMAIN Mro[c] : attrs'[Mro[c][k]][name] # Unset}
<1>1. \A k \in DOMAIN Mro[c] : attrs'[Mro[c][k]] = attrs[Mro[c][k]]
  BY DEF ToSet
<1>2. owners2 = owners
  BY <1>1
<1>3. DOMAIN Mro[c] \subseteq Nat
  BY ClassAssumption
<1>4. owners # {} => Min(owners) \in owners
  <2>1. owners \subseteq Nat
    BY <1>3
  <2> HIDE DEF owners
  <2> QED BY <2>1, MinIn
<1>5. owners # {} => Min(owners) \in DOMAIN Mro[c]
  BY <1>4
<1>6. /\ Lookup(c, name) = IF owners = {} THEN Unset ELSE attrs[Mro[c][Min(owners)]][name]
      /\ Lookup(c, name)' = IF owners2 = {} THEN Unset ELSE attrs'[Mro[c][Min(owners2)]][name]
  BY DEF Lookup
<1> HIDE DEF owners, owners2
<1> QED BY <1>1, <1>2, <1>5, <1>6

-----------------------------------------------------------------------------
(* Entries *)

\* What Describes reads, for the class of an entry, is as before.
SameView(c) ==
    /\ site' = site
    /\ \A name \in Name : Lookup(c, name)' = Lookup(c, name)
    /\ \A v \in Object : Protocol(class[v])' = Protocol(class[v])

\* So the entry is still right.
LEMMA StillDescribes ==
    ASSUME Describes(entry), SameView(entry.class), entry' = entry
    PROVE  Describes(entry)'
<1> DEFINE v == Lookup(entry.class, "attr")
<1>1. /\ \A name \in Name : Lookup(entry.class, name)' = Lookup(entry.class, name)
      /\ site' = site
  BY DEF SameView
<1>2. /\ Lookup(entry.class, "attr")' = v
      /\ Has(entry.class, "__setattr__")' = Has(entry.class, "__setattr__")
      /\ Has(entry.class, "__getattribute__")' = Has(entry.class, "__getattribute__")
  BY <1>1 DEF Name, Special, Has
<1>3. /\ IsDataDescriptor(v)' = IsDataDescriptor(v)
      /\ IsNonDataDescriptor(v)' = IsNonDataDescriptor(v)
  BY <1>1, <1>2 DEF SameView, IsDataDescriptor, IsNonDataDescriptor
<1> QED BY <1>1, <1>2, <1>3 DEF Describes

\* An entry with a class is fresh: it was made in the present epoch.
Fresh(e) ==
    e.kind \in Monomorphic => e.epoch = epoch /\ Describes(e)

\* A plan for a read says what the lookup found.
LEMMA ReadPlanRight ==
    ASSUME NEW t, site \in {"get", "call"}, ReadPlan(t) # Uncacheable
    PROVE  /\ ReadPlan(t).kind \in {"native", "slot", "instance", "class"}
           /\ Describes(Stamped(ReadPlan(t), ClassOf(t)))
<1> DEFINE c == ClassOf(t)
           v == Lookup(c, "attr")
           p == ReadPlan(t)
<1>1. CASE t \in Class
  <2>1. p = Plan("native", v) /\ v # Unset /\ Kind[v] = "native_classmethod"
    BY <1>1 DEF ReadPlan
  <2>2. /\ Stamped(p, c).kind = "native" /\ Stamped(p, c).class = c
        /\ Stamped(p, c).value = v /\ p.kind = "native"
    BY <2>1 DEF Stamped, Plan
  <2> HIDE DEF p, c
  <2> QED BY <2>1, <2>2 DEF Describes, p, c
<1>2. CASE t \notin Class
  <2>1. ~Has(c, "__getattribute__") /\ c = class[t]
    BY <1>2 DEF ReadPlan, ClassOf
  <2>2. \/ p = Plan("slot", Unset) /\ v # Unset /\ Kind[v] = "member"
        \/ p = Plan("instance", Unset) /\ (v = Unset \/ ~(Dynamic(v) \/ IsDataDescriptor(v)))
        \/ /\ p = Plan("class", v) /\ v # Unset /\ ~(Dynamic(v) \/ IsDataDescriptor(v))
           /\ ~IsNonDataDescriptor(v)
    BY <1>2, <2>1 DEF ReadPlan
  <2>3. /\ Stamped(p, c).kind = p.kind /\ Stamped(p, c).class = c
        /\ Stamped(p, c).value = p.value
    BY DEF Stamped
  <2> HIDE DEF p, c
  <2>4. CASE p = Plan("slot", Unset) /\ v # Unset /\ Kind[v] = "member"
    <3>1. p.kind = "slot"
      BY <2>4 DEF Plan
    <3> QED BY <2>1, <2>3, <2>4, <3>1 DEF Describes, p, c
  <2>5. CASE p = Plan("instance", Unset) /\ (v = Unset \/ ~(Dynamic(v) \/ IsDataDescriptor(v)))
    <3>1. p.kind = "instance"
      BY <2>5 DEF Plan
    <3> QED BY <2>1, <2>3, <2>5, <3>1 DEF Describes, p, c
  <2>6. CASE /\ p = Plan("class", v) /\ v # Unset /\ ~(Dynamic(v) \/ IsDataDescriptor(v))
             /\ ~IsNonDataDescriptor(v)
    <3>1. p.kind = "class" /\ p.value = v /\ Kind[v] # "native_classmethod"
      BY <2>6 DEF Plan, Dynamic
    <3> QED BY <2>1, <2>3, <2>6, <3>1 DEF Describes, p, c
  <2> QED BY <2>2, <2>4, <2>5, <2>6
<1> QED BY <1>1, <1>2

\* What has no class is fresh.
LEMMA Classless ==
    ASSUME NEW e, e.kind \notin Monomorphic
    PROVE  Fresh(e)
BY DEF Fresh

\* Neither has an empty entry, a given-up one, or one that was reset.
LEMMA ClasslessKinds ==
    /\ Fresh(Empty) /\ Fresh(Megamorphic) /\ Fresh(Uncacheable)
    /\ \A e, t : Fresh(Reset(e, t))
<1>1. Empty.kind = "empty" /\ Megamorphic.kind = "megamorphic" /\ Uncacheable.kind = "uncacheable"
  BY DEF Empty, Megamorphic, Uncacheable
<1>2. Fresh(Empty) /\ Fresh(Megamorphic) /\ Fresh(Uncacheable)
  BY <1>1 DEF Fresh, Monomorphic
<1> QED BY <1>2 DEF Reset

\* Stamping a plan makes an entry of the present epoch.
LEMMA StampFresh ==
    ASSUME NEW plan, NEW c, Describes(Stamped(plan, c))
    PROVE  Fresh(Stamped(plan, c)) /\ Fresh(Filled(plan, c))
<1>1. Stamped(plan, c).epoch = epoch
  BY DEF Stamped
<1>2. Fresh(Stamped(plan, c))
  BY <1>1 DEF Fresh
<1> QED BY <1>2, ClasslessKinds DEF Filled

\* Every kind of instruction leaves a fresh entry behind.
LEMMA FillFresh ==
    ASSUME site \in Sites, NEW t
    PROVE  Fresh(Fill(entry, t))
<1>1. CASE site = "get"
  <2>1. ReadPlan(t) # Uncacheable => Fresh(Filled(ReadPlan(t), ClassOf(t)))
    BY <1>1, ReadPlanRight, StampFresh
  <2>2. Fresh(FillGet(entry, t))
    <3>1. CASE entry.kind \in {"megamorphic", "uncacheable"}
      <4>1. FillGet(entry, t) = entry
        BY <3>1 DEF FillGet, Monomorphic
      <4> QED BY <3>1, <4>1, Classless DEF Monomorphic
    <3>2. CASE entry.kind \in Monomorphic
      <4>1. FillGet(entry, t) = Reset(entry, t)
        BY <3>2 DEF FillGet, Monomorphic
      <4> QED BY <4>1, ClasslessKinds
    <3>3. CASE entry.kind \notin {"megamorphic", "uncacheable"} /\ entry.kind \notin Monomorphic
      <4>1. \/ FillGet(entry, t) \in {Megamorphic, Empty, entry}
            \/ /\ FillGet(entry, t) = Filled(ReadPlan(t), ClassOf(t))
               /\ ReadPlan(t) # Uncacheable
        BY <3>3 DEF FillGet
      <4> QED BY <2>1, <3>3, <4>1, ClasslessKinds, Classless
    <3> QED BY <3>1, <3>2, <3>3
  <2> QED BY <1>1, <2>2 DEF Fill
<1>2. CASE site = "call"
  <2>1. MethodPlan(t) # Uncacheable => Fresh(Filled(MethodPlan(t), ClassOf(t)))
    <3>1. MethodPlan(t) # Uncacheable => MethodPlan(t) = ReadPlan(t)
      BY DEF MethodPlan
    <3> QED BY <1>2, <3>1, ReadPlanRight, StampFresh
  <2>2. Fresh(FillCall(entry, t))
    <3>1. CASE entry.kind \in {"megamorphic", "uncacheable"}
      <4>1. FillCall(entry, t) = entry
        BY <3>1 DEF FillCall, Monomorphic
      <4> QED BY <3>1, <4>1, Classless DEF Monomorphic
    <3>2. CASE entry.kind \in Monomorphic
      <4>1. FillCall(entry, t) = Reset(entry, t)
        BY <3>2 DEF FillCall, Monomorphic
      <4> QED BY <4>1, ClasslessKinds
    <3>3. CASE entry.kind \notin {"megamorphic", "uncacheable"} /\ entry.kind \notin Monomorphic
      <4>1. \/ FillCall(entry, t) \in {Megamorphic, Uncacheable, entry}
            \/ /\ FillCall(entry, t) = Filled(MethodPlan(t), ClassOf(t))
               /\ MethodPlan(t) # Uncacheable
        BY <3>3 DEF FillCall
      <4> QED BY <2>1, <3>3, <4>1, ClasslessKinds, Classless
    <3> QED BY <3>1, <3>2, <3>3
  <2> QED BY <1>2, <2>2 DEF Fill
<1>3. CASE site = "set"
  <2> DEFINE s == Stamped(WritePlan(t), class[t])
             v == Lookup(class[t], "attr")
  <2>1. ASSUME WritePlan(t) # Uncacheable
        PROVE  Fresh(s)
    <3>1. /\ ~Has(class[t], "__setattr__") /\ (v = Unset \/ ~IsDataDescriptor(v))
          /\ WritePlan(t) = Plan("write", Unset)
      BY <2>1 DEF WritePlan
    <3>2. s.kind = "write" /\ s.class = class[t]
      BY <3>1 DEF Stamped, Plan
    <3> HIDE DEF s
    <3>3. Describes(s)
      BY <1>3, <3>1, <3>2 DEF Describes
    <3> QED BY <3>3, StampFresh DEF s
  <2>2. Fresh(FillSet(entry, t))
    <3>1. CASE entry.kind = "megamorphic"
      <4>1. FillSet(entry, t) = entry
        BY <3>1 DEF FillSet, Monomorphic
      <4> QED BY <3>1, <4>1, Classless DEF Monomorphic
    <3>2. CASE entry.kind \in Monomorphic
      <4>1. FillSet(entry, t) = Reset(entry, t)
        BY <3>2 DEF FillSet, Monomorphic
      <4> QED BY <4>1, ClasslessKinds
    <3>3. CASE entry.kind # "megamorphic" /\ entry.kind \notin Monomorphic
      <4>1. \/ FillSet(entry, t) = entry
            \/ FillSet(entry, t) = s /\ WritePlan(t) # Uncacheable
        BY <3>3 DEF FillSet
      <4> QED BY <2>1, <3>3, <4>1, Classless
    <3> QED BY <3>1, <3>2, <3>3
  <2> QED BY <1>3, <2>2 DEF Fill
<1>4. CASE site = "next"
  <2> DEFINE v == Lookup(class[t], "attr")
             s == Stamped(Plan("next", v), class[t])
  <2>1. s.kind = "next" /\ s.class = class[t] /\ s.value = v
    BY DEF Stamped, Plan
  <2> HIDE DEF s
  <2>2. Describes(s)
    BY <1>4, <2>1 DEF Describes
  <2>3. Fresh(s)
    BY <2>2, StampFresh DEF s
  <2>4. FillNext(t) \in {s, Empty}
    BY DEF FillNext, s
  <2> QED BY <1>4, <2>3, <2>4, ClasslessKinds DEF Fill
<1> QED BY <1>1, <1>2, <1>3, <1>4 DEF Sites

-----------------------------------------------------------------------------
(* The steps *)

\* The entry is filled.
LEMMA FillKeeps ==
    ASSUME IInv, NEW t, entry' = Fill(entry, t), slipped' = FALSE, UNCHANGED Classes
    PROVE  IInv'
<1> DEFINE f == Fill(entry, t)
<1>1. UNCHANGED <<site, alive, attrs, epoch, class>>
  BY DEF Classes
<1>2. Fresh(f)
  BY FillFresh DEF IInv, Types
<1>3. entry' = f
  OBVIOUS
<1> HIDE DEF f
<1>4. f.kind \in Monomorphic => Describes(entry)'
  <2> SUFFICES ASSUME f.kind \in Monomorphic PROVE Describes(entry)'
    OBVIOUS
  <2>1. Describes(f)
    BY <1>2 DEF Fresh
  <2>2. \A c, name : Lookup(c, name)' = Lookup(c, name)
    BY <1>1 DEF Lookup
  <2>3. \A v \in Object : Protocol(class[v])' = Protocol(class[v])
    BY <1>1, <2>2 DEF Protocol, Has
  <2>4. \A v : /\ IsDataDescriptor(v)' = IsDataDescriptor(v)
               /\ IsNonDataDescriptor(v)' = IsNonDataDescriptor(v)
    BY <1>1, <2>3 DEF IsDataDescriptor, IsNonDataDescriptor
  <2> QED BY <1>1, <1>3, <2>1, <2>2, <2>4 DEF Describes, Has
<1>5. EntryOK'
  BY <1>1, <1>2, <1>3, <1>4 DEF EntryOK, Fresh, IInv, Types
<1>6. Types' /\ AliveOK'
  BY <1>1 DEF IInv, Types, AliveOK
<1> QED BY <1>5, <1>6 DEF IInv

\* The classes and the entry stay as they are.
LEMMA RestKeeps ==
    ASSUME IInv, UNCHANGED <<Classes, entry, slipped>>
    PROVE  IInv'
<1>1. UNCHANGED <<site, alive, attrs, epoch, class, entry, slipped>>
  BY DEF Classes
<1>2. SameView(entry.class)
  <2>1. \A c, name : Lookup(c, name)' = Lookup(c, name)
    BY <1>1 DEF Lookup
  <2> QED BY <1>1, <2>1 DEF SameView, Protocol, Has
<1>3. EntryOK'
  BY <1>1, <1>2, StillDescribes DEF IInv, EntryOK
<1> QED BY <1>1, <1>3 DEF IInv, Types, AliveOK

\* A class attribute is set or deleted: whatever was cached is out of date.
LEMMA MutateKeeps ==
    ASSUME IInv, NEW c, NEW name, NEW v, Mutate(c, name, v)
    PROVE  IInv'
<1>1. /\ UNCHANGED <<site, alive, class, entry>> /\ slipped' = FALSE
      /\ epoch' = Bump(epoch, MaxEpoch)
  BY DEF Mutate
<1>2. epoch \in 0..MaxEpoch /\ MaxEpoch \in Nat
  BY BoundAssumption DEF IInv, Types
<1>3. epoch' \in 0..MaxEpoch /\ epoch <= epoch' /\ (epoch' = epoch => epoch' = MaxEpoch)
  BY <1>1, <1>2 DEF Bump
<1>4. EntryOK'
  <2> DEFINE k == entry.epoch
  <2>1. entry.kind \in Monomorphic => k \in 0..epoch
    BY DEF IInv, EntryOK
  <2> HIDE DEF k
  <2>2. entry.kind \in Monomorphic => k \in 0..epoch' /\ (k = epoch' => epoch' = MaxEpoch)
    BY <1>2, <1>3, <2>1
  <2> QED BY <1>1, <2>2 DEF EntryOK, k
<1> QED BY <1>1, <1>3, <1>4 DEF IInv, Types, AliveOK

\* A class that the alive ones do not need changes: it dies, or is made at an
\* address that is free.
LEMMA StrangerKeeps ==
    ASSUME IInv, NEW c \in Class, NEW a, attrs' = [attrs EXCEPT ![c] = a], AliveOK',
           UNCHANGED <<site, epoch, class, entry, slipped>>,
           \A i \in Receiver \cup Object : class[i] # c,
           \A d \in alive \ {c} : c \notin ToSet(Mro[d]),
           alive' \subseteq alive \/ (alive' \subseteq alive \cup {c} /\ ~Holds(entry, c)),
           c \notin alive' \/ ~Holds(entry, c)
    PROVE  IInv'
<1>1. ASSUME NEW d \in Class, d # c, d \in alive
      PROVE  \A name \in Name : Lookup(d, name)' = Lookup(d, name)
  <2>1. \A b \in ToSet(Mro[d]) : attrs'[b] = attrs[b]
    BY <1>1
  <2> QED BY <2>1, LookupSame
<1>2. \A v \in Object : Protocol(class[v])' = Protocol(class[v])
  <2> SUFFICES ASSUME NEW v \in Object PROVE Protocol(class[v])' = Protocol(class[v])
    OBVIOUS
  <2> DEFINE d == class[v]
  <2>1. d \in Class /\ d # c /\ d \in alive
    BY DEF IInv, AliveOK
  <2>2. class' = class
    OBVIOUS
  <2>3. Protocol(d)' = Protocol(d)
    BY <1>1, <2>1, <2>2 DEF Protocol, Has, Name, Special
  <2> QED BY <2>3
<1>3. ASSUME entry.kind \in Monomorphic, entry.class \in alive'
      PROVE  SameView(entry.class)
  <2> DEFINE d == entry.class
  <2>1. d # c /\ d \in alive /\ d \in Class
    BY <1>3 DEF IInv, AliveOK, Holds
  <2>2. d' = d
    OBVIOUS
  <2>3. \A name \in Name : Lookup(d, name)' = Lookup(d, name)
    BY <1>1, <2>1, <2>2 
  <2> QED BY <1>2, <2>1, <2>3 DEF SameView
<1>4. EntryOK'
  <2> SUFFICES ASSUME entry.kind \in Monomorphic
               PROVE  /\ entry.epoch \in 0..epoch
                      /\ (/\ entry.class \in alive' /\ entry.epoch = epoch
                          /\ epoch # MaxEpoch /\ ~slipped) => Describes(entry)'
    BY DEF EntryOK
  <2>1. entry.class \in alive' => entry.class \in alive
    BY DEF Holds
  <2> QED BY <1>3, <2>1, StillDescribes DEF IInv, EntryOK
<1> QED BY <1>4 DEF IInv, Types

\* A class dies.
LEMMA DieKeeps ==
    ASSUME IInv, NEW c \in Class, Die(c)
    PROVE  IInv'
<1>1. /\ DOMAIN class = Receiver \cup Object
      /\ \A i \in Receiver \cup Object : class[i] # c
      /\ \A d \in alive \ {c} : c \notin ToSet(Mro[d])
      /\ alive' = alive \ {c}
      /\ attrs' = [attrs EXCEPT ![c] = [name \in Name |-> Unset]]
      /\ UNCHANGED <<site, epoch, class, entry, slipped>>
  BY DEF Die, IInv, AliveOK
<1>2. AliveOK'
  <2>1. \A d \in alive' : ToSet(Mro[d]) \subseteq alive'
    BY <1>1 DEF IInv, AliveOK
  <2>2. class' \in [Receiver \cup Object -> alive']
    BY <1>1 DEF IInv, AliveOK
  <2> QED BY <1>1, <2>1, <2>2 DEF IInv, AliveOK
<1> QED BY <1>1, <1>2, StrangerKeeps

\* The classes of a linearization: the class itself and the rest.
LEMMA MroClasses ==
    ASSUME NEW c \in Class
    PROVE  ToSet(Mro[c]) \subseteq {c} \cup ToSet(Tail(Mro[c])) /\ c \in ToSet(Mro[c])
<1> DEFINE m == Mro[c]
<1>1. m \in Seq(Class) /\ m # <<>> /\ Head(m) = c
  BY ClassAssumption
<1> HIDE DEF m
<1>2. /\ Len(m) \in Nat /\ Len(m) >= 1 /\ DOMAIN m = 1..Len(m) /\ m[1] = c
      /\ DOMAIN Tail(m) = 1..(Len(m) - 1)
      /\ \A i \in 1..(Len(m) - 1) : Tail(m)[i] = m[i + 1]
  BY <1>1
<1>3. ASSUME NEW i \in DOMAIN m
      PROVE  m[i] = c \/ m[i] \in ToSet(Tail(m))
  <2>1. CASE i = 1
    BY <1>2, <2>1
  <2>2. CASE i # 1
    <3>1. i - 1 \in DOMAIN Tail(m) /\ Tail(m)[i - 1] = m[i]
      BY <1>2, <2>2
    <3> QED BY <3>1 DEF ToSet
  <2> QED BY <2>1, <2>2
<1>4. c \in ToSet(m)
  BY <1>2 DEF ToSet
<1> QED BY <1>3, <1>4 DEF ToSet, m

\* A class is made at an address that is free.
LEMMA NewClassKeeps ==
    ASSUME IInv, NEW c \in Class, NEW v, NewClass(c, v)
    PROVE  IInv'
<1>1. /\ c \notin alive /\ ~Holds(entry, c) /\ ToSet(Tail(Mro[c])) \subseteq alive
      /\ alive' = alive \cup {c} /\ attrs' = [attrs EXCEPT ![c] = Body(c, v)]
      /\ UNCHANGED <<site, epoch, class, entry, slipped>>
  BY DEF NewClass, Reusable
<1>2. /\ \A i \in Receiver \cup Object : class[i] # c
      /\ \A d \in alive \ {c} : c \notin ToSet(Mro[d])
  BY <1>1 DEF IInv, AliveOK
<1>3. AliveOK'
  <2>1. \A d \in alive' : ToSet(Mro[d]) \subseteq alive'
    BY <1>1, MroClasses DEF IInv, AliveOK
  <2>2. class' \in [Receiver \cup Object -> alive']
    BY <1>1 DEF IInv, AliveOK
  <2> QED BY <1>1, <2>1, <2>2 DEF IInv, AliveOK
<1> QED BY <1>1, <1>2, <1>3, StrangerKeeps

\* An instance is given another class.
LEMMA RetypeKeeps ==
    ASSUME IInv, NEW i \in Receiver \cup Object, NEW c, Retype(i, c)
    PROVE  IInv'
<1>1. /\ c \in alive /\ class' = [class EXCEPT ![i] = c]
      /\ slipped' = (slipped \/ (i \in Object /\ Protocol(c) # Protocol(class[i])))
      /\ UNCHANGED <<site, alive, attrs, epoch, entry>>
  BY DEF Retype
<1>2. AliveOK'
  BY <1>1 DEF IInv, AliveOK
<1>3. \A d, name : Lookup(d, name)' = Lookup(d, name)
  BY <1>1 DEF Lookup
<1>4. ASSUME ~slipped'
      PROVE  ~slipped /\ SameView(entry.class)
  <2>1. ~slipped /\ (i \in Object => Protocol(c) = Protocol(class[i]))
    BY <1>1, <1>4
  <2>2. \A d : Protocol(d)' = Protocol(d)
    BY <1>3 DEF Protocol, Has
  <2>3. ASSUME NEW v \in Object
        PROVE  Protocol(class[v])' = Protocol(class[v])
    <3>1. class'[v] = IF v = i THEN c ELSE class[v]
      BY <1>1 DEF IInv, AliveOK
    <3>2. Protocol(class'[v])  = Protocol(class[v])
      BY <2>1, <3>1
    <3>3. Protocol(class[v])' = Protocol(class'[v])
      BY <1>1 DEF Protocol, Has, Lookup
    <3> QED BY <3>2, <3>3
  <2> QED BY <1>1, <1>3, <2>1, <2>3 DEF SameView
<1>5. EntryOK'
  BY <1>1, <1>4, StillDescribes DEF IInv, EntryOK
<1>6. Types'
  BY <1>1 DEF IInv, Types
<1> QED BY <1>2, <1>5, <1>6 DEF IInv

\* Every step keeps the invariant.
LEMMA NextKeeps ==
    ASSUME IInv, [Next]_vars
    PROVE  IInv'
<1>1. ASSUME NEW t \in Targets, Execute(t)
      PROVE  IInv'
  <2>1. CASE RaiseAtOnce(t)
    BY <2>1, RestKeeps DEF RaiseAtOnce, vars, Classes
  <2>2. CASE FillAtOnce(t)
    BY <2>2, FillKeeps DEF FillAtOnce
  <2>3. CASE StartPython(t)
    BY <2>3, RestKeeps DEF StartPython
  <2>4. CASE WriteHit(t)
    BY <2>4, RestKeeps DEF WriteHit
  <2> QED BY <1>1, <2>1, <2>2, <2>3, <2>4 DEF Execute
<1>2. CASE FillLate
  BY <1>2, FillKeeps DEF FillLate
<1>3. CASE RaiseLate
  BY <1>3, RestKeeps DEF RaiseLate
<1>4. ASSUME NEW c \in Class, ChangeClass(c)
      PROVE  IInv'
  <2>1. ASSUME NEW name, NEW v, Mutate(c, name, v)
        PROVE  IInv'
    BY <2>1, MutateKeeps
  <2>2. CASE Die(c)
    BY <2>2, DieKeeps
  <2>3. ASSUME NEW v, NewClass(c, v)
        PROVE  IInv'
    BY <2>3, NewClassKeeps
  <2> QED BY <1>4, <2>1, <2>2, <2>3 DEF ChangeClass, SetClassAttr, DeleteClassAttr
<1>5. ASSUME NEW i \in Receiver, ChangeInstance(i)
      PROVE  IInv'
  BY <1>5, RestKeeps DEF ChangeInstance, EditEntries, EditDict, EditCell
<1>6. ASSUME NEW i \in Receiver \cup Object, NEW c \in Class, Retype(i, c)
      PROVE  IInv'
  BY <1>6, RetypeKeeps
<1>7. CASE UNCHANGED vars
  BY <1>7, RestKeeps DEF vars, Classes
<1> QED BY <1>1, <1>2, <1>3, <1>4, <1>5, <1>6, <1>7 DEF Next

\* It holds before the instruction is executed for the first time.
LEMMA InitIInv ==
    ASSUME Init
    PROVE  IInv
<1>1. /\ site \in Sites /\ alive = Class /\ epoch = 0 /\ class = InitClass
      /\ entry = Empty /\ slipped = FALSE
  BY DEF Init
<1>2. Types
  <2>1. MaxEpoch \in Nat
    BY BoundAssumption
  <2>2. epoch \in 0..MaxEpoch
    BY <1>1, <2>1
  <2>3. slipped \in BOOLEAN
    BY <1>1
  <2> QED BY <1>1, <2>2, <2>3 DEF Types
<1>3. AliveOK
  <2>1. \A c \in Class : ToSet(Mro[c]) \subseteq Class
    BY ClassAssumption DEF ToSet
  <2> QED BY <1>1, <2>1, ClassAssumption DEF AliveOK
<1>4. EntryOK
  BY <1>1 DEF EntryOK, Empty, Monomorphic
<1> QED BY <1>2, <1>3, <1>4 DEF IInv

\* The invariant is one.
THEOREM Inductive == Spec => []IInv
<1>1. Init => IInv
  BY InitIInv
<1>2. IInv /\ [Next]_vars => IInv'
  BY NextKeeps
<1> QED BY <1>1, <1>2, PTL DEF Spec

\* A hit does what the slow path would do.
LEMMA HitIsSlow ==
    ASSUME IInv, ~slipped, NEW t \in Targets, Hit(t) # Miss, ~ReadsOldDict(t)
    PROVE  Hit(t) = Slow(t)
<1> DEFINE c == ClassOf(t)
           v == Lookup(c, "attr")
<1>1. /\ entry.kind \in Monomorphic /\ entry.class = c
      /\ entry.epoch = epoch /\ epoch # MaxEpoch
  BY DEF Hit, Holds, StampMatches
<1>2. c \in alive /\ (t \in Class => site \in {"get", "call"} /\ c = t)
      /\ (t \notin Class => t \in Receiver /\ c = class[t])
  BY ClassAssumption DEF Targets, ClassOf, IInv, AliveOK
<1>3. Describes(entry) /\ site \in Sites
  BY <1>1, <1>2 DEF IInv, EntryOK, Types
<1> HIDE DEF c
<1>4. CASE entry.kind = "native"
  <2>1. t \in Class /\ Hit(t) = <<"native", entry.value, t>>
    BY <1>4 DEF Hit
  <2>2. v = entry.value /\ v # Unset /\ Kind[v] = "native_classmethod"
    BY <1>1, <1>3, <1>4 DEF Describes
  <2>3. Slow(t) = ReadClass(t)
    BY <1>2, <2>1 DEF Slow
  <2> QED BY <1>2, <2>1, <2>2, <2>3 DEF ReadClass
<1>5. CASE entry.kind = "write"
  <2>1. Hit(t) = <<"insert">>
    BY <1>5 DEF Hit
  <2>2. site = "set" /\ ~Has(c, "__setattr__") /\ (v = Unset \/ ~IsDataDescriptor(v))
    BY <1>1, <1>3, <1>5 DEF Describes
  <2>3. Slow(t) = WriteInstance(t) /\ c = class[t]
    BY <1>2, <2>2 DEF Slow
  <2> QED BY <2>1, <2>2, <2>3 DEF WriteInstance
<1>6. CASE entry.kind = "next"
  <2>1. Hit(t) = <<"method", entry.value>>
    BY <1>6 DEF Hit
  <2>2. site = "next" /\ v = entry.value
    BY <1>1, <1>3, <1>6 DEF Describes
  <2>3. Slow(t) = <<"method", Lookup(class[t], "attr")>> /\ c = class[t]
    BY <1>2, <2>2 DEF Slow
  <2> QED BY <2>1, <2>2, <2>3
<1>7. CASE entry.kind \in {"instance", "slot", "class"}
  <2>1. site \in {"get", "call"} /\ ~Has(c, "__getattribute__")
    BY <1>1, <1>3, <1>7 DEF Describes
  <2>2. t \notin Class
    BY <1>7 DEF Hit
  <2>3. Slow(t) = ReadInstance(t) /\ c = class[t] /\ t \in Receiver
    BY <1>2, <2>1, <2>2 DEF Slow
  <2>4. CASE entry.kind = "instance"
    <3>1. inst[t].entries # Unset /\ Hit(t) = <<"value", inst[t].entries>>
      BY <2>4 DEF Hit
    <3>2. v = Unset \/ ~IsDataDescriptor(v)
      BY <1>1, <1>3, <2>4 DEF Describes
    <3>3. Visible(t) = inst[t].entries
      BY <2>3, <2>4 DEF ReadsOldDict, Visible
    <3> QED BY <2>1, <2>3, <3>1, <3>2, <3>3 DEF ReadInstance
  <2>5. CASE entry.kind = "slot"
    <3>1. inst[t].cell # Unset /\ Hit(t) = <<"value", inst[t].cell>>
      BY <2>5 DEF Hit
    <3>2. v # Unset /\ Kind[v] = "member"
      BY <1>1, <1>3, <2>5 DEF Describes
    <3>3. IsDataDescriptor(v)
      BY <3>2 DEF IsDataDescriptor
    <3> QED BY <2>1, <2>3, <3>1, <3>2, <3>3 DEF ReadInstance
  <2>6. CASE entry.kind = "class"
    <3>1. Visible(t) = Unset /\ Hit(t) = Bound(entry.value)
      BY <2>6 DEF Hit
    <3>2. /\ v = entry.value /\ v # Unset /\ Kind[v] # "native_classmethod"
          /\ ~IsDataDescriptor(v) /\ ~IsNonDataDescriptor(v)
      BY <1>1, <1>3, <2>6 DEF Describes
    <3> QED BY <2>1, <2>3, <3>1, <3>2 DEF ReadInstance
  <2> QED BY <1>7, <2>4, <2>5, <2>6
<1> QED BY <1>1, <1>4, <1>5, <1>6, <1>7 DEF Monomorphic

\* No change of a class, of an ancestor, of the class of a descriptor or of the
\* receiver is missed by the inline caches, however the steps of the program and
\* of the slow paths interleave (HitSound, class_cache_stamp_matches).
THEOREM HitAlwaysSound == Spec => []HitSound
<1>1. IInv => HitSound
  BY HitIsSlow DEF HitSound
<1> QED BY <1>1, Inductive, PTL
=============================================================================
