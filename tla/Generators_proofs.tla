------------------------- MODULE Generators_proofs -------------------------
(* Proofs about Generators, for every value of its constants. *)
EXTENDS Generators, TLAPS

-----------------------------------------------------------------------------
(* The inductive invariant *)

\* The activation has entered its frame (run_bytecode_inner has been called).
Installed(a) == a.phase \in {"run", "advance"}

\* What an activation does while a call of the given kind is under way.
Waiting(call) == CASE call = "from" -> "advance"
                   [] call = "forward" -> "forward"
                   [] OTHER -> "run"

\* Main is the bottom of the stack and only that; every activation waits
\* for the one above it in the way that one was called; the dispatch loop
\* drives only generators without handlers.
ShapeOf(st) ==
    /\ st # <<>>
    /\ st[1].who = Main /\ st[1].via = "script" /\ st[1].phase = "run"
    /\ \A i \in 2 .. Len(st) :
         /\ st[i].who \in Gen /\ st[i].via # "script"
         /\ st[i - 1].phase = Waiting(st[i].call)
         /\ st[i].via = "drive" => st[i].who \notin Guarded /\ Installed(st[i])

\* No body is activated twice, and the cells say which are.
ActivatedOf(st, c) ==
    /\ \A i, j \in 1 .. Len(st) : st[i].who = st[j].who => i = j
    /\ \A i \in 2 .. Len(st) :
          c[st[i].who] = IF st[i].via = "native" THEN "borrowed" ELSE "driving"
    /\ \A g \in Gen : c[g] # "frame" => \E i \in 2 .. Len(st) : st[i].who = g

\* In exception state s, the activation a still has below its own part what
\* its resumer left there.
Keeps(a, s) ==
    /\ a.via = "script" => a.hbase = 0 /\ a.sbase = 0
    /\ a.via = "drive" => s = a.seen
    /\ a.via = "native" /\ ~ Installed(a) => s = a.seen
    /\ a.via = "native" /\ Installed(a) =>
         /\ a.hbase <= Len(s.handled) /\ a.sbase <= Len(s.saved)
         /\ a.seen = [handled |-> SubSeq(s.handled, 1, a.hbase),
                      saved |-> SubSeq(s.saved, 1, a.sbase), active |-> a.prev]

\* The exception state as the i-th activation left it, or has it now.
KeptOf(st, s) ==
    \A i \in 1 .. Len(st) : Keeps(st[i], IF i = Len(st) THEN s ELSE st[i + 1].seen)

\* The same, of the current state.
Shape == ShapeOf(stack)
Activated == ActivatedOf(stack, cell)
Kept == KeptOf(stack, ExceptionState)

\* A signal finds the activation that waits for it.
SignalOK ==
    /\ signal.kind = "raised" => signal.exc # NoExc
    /\ signal.kind # "none" => Top.phase = Waiting(signal.call)

\* A frame that stands at a YieldFrom has a generator to delegate to.
DelegateOK ==
    /\ \A g \in Gen : frame[g].pc = "from" => frame[g].sub \in Gen
    /\ \A i \in 2 .. Len(stack) : stack[i].phase \in {"advance", "forward"} =>
          frame[stack[i].who].sub \in Gen

\* A generator without handlers is never inside an except body.
HandlersOK == \A g \in Gen \ Guarded : inside[g] = <<>>

\* The inductive invariant.
IInv == /\ TypeOK /\ Shape /\ Activated /\ Kept /\ SignalOK
        /\ DelegateOK /\ HandlersOK

-----------------------------------------------------------------------------
(* Prefixes *)

\* A prefix of a stack is a stack, of the length asked for.
LEMMA PrefixType ==
    ASSUME NEW S, NEW s \in Seq(S), NEW n \in 0 .. Len(s)
    PROVE  /\ SubSeq(s, 1, n) \in Seq(S) /\ Len(SubSeq(s, 1, n)) = n
           /\ \A i \in 1 .. n : SubSeq(s, 1, n)[i] = s[i]
OBVIOUS

\* Pushing leaves the shorter prefixes alone.
LEMMA PrefixAppend ==
    ASSUME NEW S, NEW s \in Seq(S), NEW e \in S, NEW n \in 0 .. Len(s)
    PROVE  /\ Append(s, e) \in Seq(S) /\ n <= Len(Append(s, e))
           /\ SubSeq(Append(s, e), 1, n) = SubSeq(s, 1, n)
OBVIOUS

\* So does installing a slice on top.
LEMMA PrefixConcat ==
    ASSUME NEW S, NEW s \in Seq(S), NEW t \in Seq(S)
    PROVE  /\ s \o t \in Seq(S) /\ Len(s) <= Len(s \o t)
           /\ SubSeq(s \o t, 1, Len(s)) = s
OBVIOUS

\* And so does popping an entry above them.
LEMMA PrefixFront ==
    ASSUME NEW S, NEW s \in Seq(S), NEW n \in Nat, n < Len(s)
    PROVE  /\ Front(s) \in Seq(S) /\ Last(s) \in S /\ n <= Len(Front(s))
           /\ Len(Front(s)) = Len(s) - 1
           /\ SubSeq(Front(s), 1, n) = SubSeq(s, 1, n)
<1>1. /\ Front(s) \in Seq(S) /\ Len(Front(s)) = Len(s) - 1
      /\ \A i \in 1 .. Len(s) - 1 : Front(s)[i] = s[i]
  <2>1. Len(s) - 1 \in 0 .. Len(s)
    OBVIOUS
  <2> QED BY <2>1, PrefixType DEF Front
<1>2. Last(s) \in S
  BY DEF Last
<1> HIDE DEF Front
<1>3. n \in 0 .. Len(s) /\ n \in 0 .. Len(Front(s))
  BY <1>1
<1>4. \A i \in 1 .. n : Front(s)[i] = s[i]
  BY <1>1
<1>5. /\ SubSeq(s, 1, n) \in Seq(S) /\ Len(SubSeq(s, 1, n)) = n
      /\ \A i \in 1 .. n : SubSeq(s, 1, n)[i] = s[i]
  BY <1>3, PrefixType
<1>6. /\ SubSeq(Front(s), 1, n) \in Seq(S) /\ Len(SubSeq(Front(s), 1, n)) = n
      /\ \A i \in 1 .. n : SubSeq(Front(s), 1, n)[i] = Front(s)[i]
  BY <1>1, <1>3, PrefixType
<1>7. SubSeq(Front(s), 1, n) = SubSeq(s, 1, n)
  BY <1>1, <1>3, <1>4
<1> QED BY <1>1, <1>2, <1>3, <1>7

\* The part above a base is a stack.
LEMMA SliceType ==
    ASSUME NEW S, NEW s \in Seq(S), NEW n \in Nat
    PROVE  SubSeq(s, n + 1, Len(s)) \in Seq(S)
OBVIOUS

-----------------------------------------------------------------------------
(* The three ways the stack of activations changes *)

\* The activation on top changes, or nothing does.
LEMMA TopChanges ==
    ASSUME NEW st \in Seq(Activation), NEW c, NEW a \in Activation, NEW s, NEW s1,
           ShapeOf(st), ActivatedOf(st, c), KeptOf(st, s),
           LET t == st[Len(st)] IN
             /\ a.who = t.who /\ a.via = t.via /\ a.call = t.call /\ a.seen = t.seen
             /\ t.via = "script" => a.phase = "run"
             /\ t.via = "drive" => Installed(a),
           Keeps(a, s1)
    PROVE  LET st1 == [st EXCEPT ![Len(st)] = a] IN
             /\ st1 \in Seq(Activation) /\ Len(st1) = Len(st) /\ st1[Len(st1)] = a
             /\ ShapeOf(st1) /\ ActivatedOf(st1, c) /\ KeptOf(st1, s1)
<1> DEFINE n == Len(st)
           st1 == [st EXCEPT ![n] = a]
<1>1. n \in Nat /\ n >= 1
  BY DEF ShapeOf
<1>2. /\ st1 \in Seq(Activation) /\ Len(st1) = n
      /\ st1[n] = a /\ \A i \in 1 .. n : i # n => st1[i] = st[i]
  BY <1>1
<1>3. \A i \in 1 .. n : /\ st1[i].who = st[i].who /\ st1[i].via = st[i].via
                        /\ st1[i].call = st[i].call /\ st1[i].seen = st[i].seen
  BY <1>1, <1>2
<1> HIDE DEF st1
<1>4. ShapeOf(st1)
  <2>1. st1[1].who = Main /\ st1[1].via = "script" /\ st1[1].phase = "run"
    BY <1>1, <1>2, <1>3 DEF ShapeOf
  <2>2. \A i \in 2 .. n : st1[i - 1].phase = st[i - 1].phase
    BY <1>1, <1>2
  <2> QED BY <1>1, <1>2, <1>3, <2>1, <2>2 DEF ShapeOf
<1>5. ActivatedOf(st1, c)
  BY <1>2, <1>3 DEF ActivatedOf
<1>6. KeptOf(st1, s1)
  <2> SUFFICES ASSUME NEW i \in 1 .. n
               PROVE  Keeps(st1[i], IF i = n THEN s1 ELSE st1[i + 1].seen)
    BY <1>2 DEF KeptOf
  <2>1. CASE i = n
    BY <1>2, <2>1
  <2>2. CASE i # n
    <3>1. i + 1 \in 1 .. n /\ st1[i] = st[i] /\ st1[i + 1].seen = st[i + 1].seen
      BY <1>1, <1>2, <1>3, <2>2
    <3> QED BY <2>2, <3>1 DEF KeptOf
  <2> QED BY <2>1, <2>2
<1> QED BY <1>2, <1>4, <1>5, <1>6 DEF st1

\* A generator that is not active is resumed or driven.
LEMMA Pushed ==
    ASSUME NEW st \in Seq(Activation), NEW c \in [Gen -> {"frame", "borrowed", "driving"}],
           NEW a \in Activation, NEW s,
           ShapeOf(st), ActivatedOf(st, c), KeptOf(st, s),
           a.who \in Gen, c[a.who] = "frame", a.via # "script",
           a.via = "drive" => a.who \notin Guarded /\ Installed(a),
           st[Len(st)].phase = Waiting(a.call),
           a.seen = s, Keeps(a, s)
    PROVE  LET st1 == Append(st, a)
               c1 == [c EXCEPT ![a.who] = IF a.via = "native" THEN "borrowed" ELSE "driving"]
           IN  /\ st1 \in Seq(Activation) /\ st1[Len(st1)] = a
               /\ ShapeOf(st1) /\ ActivatedOf(st1, c1) /\ KeptOf(st1, s)
<1> DEFINE n == Len(st)
           st1 == Append(st, a)
           mark == IF a.via = "native" THEN "borrowed" ELSE "driving"
           c1 == [c EXCEPT ![a.who] = mark]
<1>0. n \in Nat /\ n >= 1
  BY DEF ShapeOf
<1>1. /\ st1 \in Seq(Activation) /\ Len(st1) = n + 1
      /\ st1[n + 1] = a /\ \A i \in 1 .. n : st1[i] = st[i]
  OBVIOUS
<1> HIDE DEF st1
<1>2. ShapeOf(st1)
  <2>1. st1 # <<>> /\ st1[1] = st[1]
    BY <1>0, <1>1
  <2>2. ASSUME NEW i \in 2 .. n + 1
        PROVE  /\ st1[i].who \in Gen /\ st1[i].via # "script"
               /\ st1[i - 1].phase = Waiting(st1[i].call)
               /\ st1[i].via = "drive" => st1[i].who \notin Guarded /\ Installed(st1[i])
    <3>1. CASE i = n + 1
      BY <1>0, <1>1, <3>1
    <3>2. CASE i # n + 1
      <4>1. i \in 2 .. n /\ st1[i] = st[i] /\ st1[i - 1] = st[i - 1]
        BY <1>0, <1>1, <3>2
      <4> QED BY <4>1 DEF ShapeOf
    <3> QED BY <3>1, <3>2
  <2> QED BY <1>1, <2>1, <2>2 DEF ShapeOf
<1>3. ActivatedOf(st1, c1)
  <2>1. \A i \in 1 .. n : st[i].who # a.who
    <3> SUFFICES ASSUME NEW i \in 1 .. n, st[i].who = a.who PROVE FALSE
      OBVIOUS
    <3>1. i # 1
      BY GeneratorsAssumption DEF ShapeOf
    <3>2. i \in 2 .. n
      BY <1>0, <3>1
    <3> QED BY <3>2 DEF ActivatedOf
  <2>2. \A i, j \in 1 .. n + 1 : st1[i].who = st1[j].who => i = j
    <3> SUFFICES ASSUME NEW i \in 1 .. n + 1, NEW j \in 1 .. n + 1,
                        st1[i].who = st1[j].who, i # j
                 PROVE  FALSE
      OBVIOUS
    <3>1. CASE i \in 1 .. n /\ j \in 1 .. n
      BY <1>1, <3>1 DEF ActivatedOf
    <3>2. CASE i = n + 1 /\ j \in 1 .. n
      BY <1>1, <2>1, <3>2
    <3>3. CASE j = n + 1 /\ i \in 1 .. n
      BY <1>1, <2>1, <3>3
    <3> QED BY <1>0, <3>1, <3>2, <3>3
  <2>3. \A i \in 2 .. n + 1 :
          c1[st1[i].who] = IF st1[i].via = "native" THEN "borrowed" ELSE "driving"
    <3> SUFFICES ASSUME NEW i \in 2 .. n + 1
                 PROVE  c1[st1[i].who] = IF st1[i].via = "native" THEN "borrowed"
                                         ELSE "driving"
      OBVIOUS
    <3>1. CASE i = n + 1
      BY <1>1, <3>1
    <3>2. CASE i # n + 1
      <4>1. i \in 2 .. n /\ i \in 1 .. n /\ st1[i] = st[i]
        BY <1>0, <1>1, <3>2
      <4>2. st[i].who \in Gen /\ st[i].who # a.who
        BY <2>1, <4>1 DEF ShapeOf
      <4>3. c1[st[i].who] = c[st[i].who]
        BY <4>2
      <4> QED BY <4>1, <4>3 DEF ActivatedOf
    <3> QED BY <3>1, <3>2
  <2>4. ASSUME NEW g \in Gen, c1[g] # "frame"
        PROVE  \E i \in 2 .. n + 1 : st1[i].who = g
    <3>1. CASE g = a.who
      BY <1>0, <1>1, <3>1
    <3>2. CASE g # a.who
      <4>1. c[g] # "frame"
        BY <2>4, <3>2
      <4>2. PICK i \in 2 .. n : st[i].who = g
        BY <4>1 DEF ActivatedOf
      <4> QED BY <1>0, <1>1, <4>2
    <3> QED BY <3>1, <3>2
  <2> QED BY <1>1, <2>2, <2>3, <2>4 DEF ActivatedOf
<1>4. KeptOf(st1, s)
  <2> SUFFICES ASSUME NEW i \in 1 .. n + 1
               PROVE  Keeps(st1[i], IF i = n + 1 THEN s ELSE st1[i + 1].seen)
    BY <1>1 DEF KeptOf
  <2>1. CASE i = n + 1
    BY <1>1, <2>1
  <2>2. CASE i = n
    <3>1. st1[i] = st[n] /\ st1[i + 1].seen = s /\ n \in 1 .. n
      BY <1>0, <1>1, <2>2
    <3> QED BY <1>0, <2>2, <3>1 DEF KeptOf
  <2>3. CASE i # n /\ i # n + 1
    <3>1. i \in 1 .. n /\ st1[i] = st[i] /\ st1[i + 1] = st[i + 1]
      BY <1>0, <1>1, <2>3
    <3> QED BY <2>3, <3>1 DEF KeptOf
  <2> QED BY <2>1, <2>2, <2>3
<1> QED BY <1>1, <1>2, <1>3, <1>4 DEF st1

\* The activation on top ends, and its resumer has its exception state back.
LEMMA Popped ==
    ASSUME NEW st \in Seq(Activation), NEW c \in [Gen -> {"frame", "borrowed", "driving"}],
           NEW s, ShapeOf(st), ActivatedOf(st, c), KeptOf(st, s),
           st[Len(st)].who \in Gen
    PROVE  LET t == st[Len(st)]
               st1 == Front(st)
               c1 == [c EXCEPT ![t.who] = "frame"]
           IN  /\ st1 \in Seq(Activation) /\ Len(st1) = Len(st) - 1
               /\ st1[Len(st1)].phase = Waiting(t.call)
               /\ \A i \in 1 .. Len(st1) : st1[i] = st[i]
               /\ ShapeOf(st1) /\ ActivatedOf(st1, c1) /\ KeptOf(st1, t.seen)
<1> DEFINE n == Len(st)
           t == st[n]
           st1 == Front(st)
           c1 == [c EXCEPT ![t.who] = "frame"]
<1>0. n \in Nat /\ n >= 2
  BY GeneratorsAssumption DEF ShapeOf
<1>1. /\ st1 \in Seq(Activation) /\ Len(st1) = n - 1
      /\ \A i \in 1 .. n - 1 : st1[i] = st[i]
  <2>1. n - 1 \in 0 .. Len(st)
    BY <1>0
  <2> QED BY <2>1, PrefixType DEF Front
<1> HIDE DEF st1
<1>2. ShapeOf(st1) /\ st1[n - 1].phase = Waiting(t.call)
  <2>1. st1 # <<>> /\ st1[1] = st[1]
    BY <1>0, <1>1
  <2>2. \A i \in 2 .. n - 1 : i \in 2 .. n /\ st1[i] = st[i] /\ st1[i - 1] = st[i - 1]
    BY <1>0, <1>1
  <2>3. n \in 2 .. n /\ st1[n - 1] = st[n - 1]
    BY <1>0, <1>1
  <2> QED BY <1>1, <2>1, <2>2, <2>3 DEF ShapeOf
<1>3. ActivatedOf(st1, c1)
  <2>1. \A i, j \in 1 .. n - 1 : st1[i].who = st1[j].who => i = j
    <3>1. \A i \in 1 .. n - 1 : i \in 1 .. n
      BY <1>0
    <3> QED BY <1>1, <3>1 DEF ActivatedOf
  <2>2. ASSUME NEW i \in 2 .. n - 1
        PROVE  c1[st1[i].who] = IF st1[i].via = "native" THEN "borrowed" ELSE "driving"
    <3>1. i \in 2 .. n /\ i \in 1 .. n /\ n \in 1 .. n /\ i # n /\ st1[i] = st[i]
      BY <1>0, <1>1
    <3>2. st[i].who # t.who
      BY <3>1 DEF ActivatedOf
    <3>3. st[i].who \in Gen
      BY <3>1 DEF ShapeOf
    <3>4. c1[st[i].who] = c[st[i].who]
      BY <3>2, <3>3
    <3> QED BY <3>1, <3>4 DEF ActivatedOf
  <2>3. ASSUME NEW g \in Gen, c1[g] # "frame"
        PROVE  \E i \in 2 .. n - 1 : st1[i].who = g
    <3>1. g # t.who /\ c[g] # "frame"
      BY <2>3
    <3>2. PICK i \in 2 .. n : st[i].who = g
      BY <3>1 DEF ActivatedOf
    <3>3. i # n
      BY <3>1, <3>2
    <3>4. i \in 2 .. n - 1 /\ st1[i] = st[i]
      BY <1>0, <1>1, <3>3
    <3> QED BY <3>2, <3>4
  <2> QED BY <1>1, <2>1, <2>2, <2>3 DEF ActivatedOf
<1>4. KeptOf(st1, t.seen)
  <2> SUFFICES ASSUME NEW i \in 1 .. n - 1
               PROVE  Keeps(st1[i], IF i = n - 1 THEN t.seen ELSE st1[i + 1].seen)
    BY <1>1 DEF KeptOf
  <2>1. /\ i \in 1 .. n /\ i # n /\ st1[i] = st[i]
        /\ i # n - 1 => st1[i + 1] = st[i + 1]
        /\ i = n - 1 => st[i + 1] = t
    BY <1>0, <1>1
  <2>2. Keeps(st[i], st[i + 1].seen)
    BY <2>1 DEF KeptOf
  <2> QED BY <2>1, <2>2
<1> QED BY <1>1, <1>2, <1>3, <1>4 DEF st1

-----------------------------------------------------------------------------
(* What every step has to show *)

\* The invariant holds again, and an activation that has ended left its
\* resumer's exception state behind.
Sound == IInv' /\ (Len(stack') < Len(stack) => ExceptionState' = Top.seen)

\* What is known of the running activation.
LEMMA TopFacts ==
    ASSUME IInv
    PROVE  /\ stack \in Seq(Activation) /\ Len(stack) \in Nat \ {0} /\ Top \in Activation
           /\ Keeps(Top, ExceptionState)
           /\ Top.who = Main => Len(stack) = 1 /\ Top.via = "script" /\ Top.phase = "run"
           /\ Top.who \in Gen => Len(stack) \in 2 .. Len(stack) /\ Top.via # "script"
           /\ Top.via = "script" => Top.phase = "run"
           /\ Top.phase # "run" => Top.who \in Gen
           /\ Top.via = "drive" => Top.who \in Gen \ Guarded /\ Installed(Top)
           /\ Top.phase \in {"advance", "forward"} => frame[Top.who].sub \in Gen
<1> DEFINE n == Len(stack)
<1>1. stack \in Seq(Activation) /\ n \in Nat /\ n >= 1
  BY DEF IInv, TypeOK, Shape, ShapeOf
<1>2. Top \in Activation /\ n \in 1 .. n
  BY <1>1 DEF Top
<1>3. Keeps(Top, ExceptionState)
  BY <1>2 DEF IInv, Kept, KeptOf, Top
<1>4. CASE n = 1
  BY <1>1, <1>2, <1>3, <1>4, GeneratorsAssumption DEF IInv, Shape, ShapeOf, Top
<1>5. CASE n # 1
  <2>0. n \in Nat /\ n >= 2
    BY <1>1, <1>5
  <2>1. n \in 2 .. n
    BY <2>0
  <2>2. /\ Top.who \in Gen /\ Top.via # "script"
        /\ Top.via = "drive" => Top.who \notin Guarded /\ Installed(Top)
    BY <2>1 DEF IInv, Shape, ShapeOf, Top
  <2>3. Top.phase \in {"advance", "forward"} => frame[Top.who].sub \in Gen
    BY <2>1 DEF IInv, DelegateOK, Top
  <2> QED BY <1>1, <1>2, <1>3, <2>1, <2>2, <2>3, GeneratorsAssumption
<1> QED BY <1>4, <1>5

\* Delegation survives when no frame forgets its sub-iterator.
LEMMA DelegateKept ==
    ASSUME DelegateOK,
           \A g \in Gen : /\ frame[g].sub \in Gen => frame'[g].sub \in Gen
                          /\ frame'[g].pc = "from" => frame'[g].sub \in Gen,
           \A i \in 2 .. Len(stack') :
              /\ stack'[i].who \in Gen
              /\ \/ /\ i \in 2 .. Len(stack)
                    /\ stack'[i].who = stack[i].who /\ stack'[i].phase = stack[i].phase
                 \/ /\ stack'[i].phase \in {"advance", "forward"} =>
                          frame'[stack'[i].who].sub \in Gen
    PROVE  DelegateOK'
BY DEF DelegateOK

-----------------------------------------------------------------------------
(* The steps actions are made of *)

\* resume_generator_with_exc is entered.
LEMMA ResumeSound ==
    ASSUME IInv, NEW g \in Gen, NEW call \in Call, NEW inj \in MaybeExc,
           NEW below \in Activation,
           cell[g] = "frame", signal.kind = "none",
           /\ below.who = Top.who /\ below.via = Top.via /\ below.call = Top.call
           /\ below.seen = Top.seen
           /\ Top.via = "script" => below.phase = "run"
           /\ Top.via = "drive" => Installed(below),
           Keeps(below, ExceptionState),
           below.phase = Waiting(call),
           below.phase # "run" => frame[below.who].sub \in Gen,
           Resume(g, call, inj, below)
    PROVE  Sound
<1> DEFINE n == Len(stack)
           a == [who |-> g, via |-> "native", call |-> call,
                 phase |-> "resume", inject |-> inj,
                 hbase |-> 0, sbase |-> 0, prev |-> NoExc, seen |-> ExceptionState]
           st0 == [stack EXCEPT ![n] = below]
<1>1. /\ stack \in Seq(Activation) /\ Len(stack) \in Nat \ {0}
  BY TopFacts
<1>2. ExceptionState \in [handled : Seq(Exc), saved : Seq(MaybeExc), active : MaybeExc]
  BY DEF IInv, TypeOK, ExceptionState
<1>3. a \in Activation
  BY <1>2 DEF Activation, MaybeExc, Frames
<1>4. /\ st0 \in Seq(Activation) /\ Len(st0) = n /\ st0[n] = below
      /\ ShapeOf(st0) /\ ActivatedOf(st0, cell) /\ KeptOf(st0, ExceptionState)
  BY <1>1, TopChanges DEF IInv, Shape, Activated, Kept, Top
<1>5. /\ a.who = g /\ a.via = "native" /\ a.call = call /\ a.phase = "resume"
      /\ a.seen = ExceptionState
  OBVIOUS
<1>6. Keeps(a, ExceptionState)
  BY <1>5 DEF Keeps, Installed
<1>7. stack' = Append(st0, a) /\ cell' = [cell EXCEPT ![g] = "borrowed"]
  BY DEF Resume
<1>8. UNCHANGED <<frame, handled, saved, active, inside, signal>>
  BY DEF Resume
<1>9. cell \in [Gen -> {"frame", "borrowed", "driving"}]
  BY DEF IInv, TypeOK
<1> HIDE DEF a, st0
<1>10. /\ stack' \in Seq(Activation) /\ stack'[Len(stack')] = a
       /\ ShapeOf(stack') /\ ActivatedOf(stack', cell') /\ KeptOf(stack', ExceptionState)
  BY <1>3, <1>4, <1>5, <1>6, <1>7, <1>9, Pushed
<1>11. ExceptionState' = ExceptionState
  BY <1>8 DEF ExceptionState
<1>12. Len(stack') = n + 1
  BY <1>4, <1>7
<1>13. DelegateOK'
  <2>1. ASSUME NEW i \in 2 .. n + 1
        PROVE  /\ stack'[i].who \in Gen
               /\ \/ /\ i \in 2 .. n
                     /\ stack'[i].who = stack[i].who /\ stack'[i].phase = stack[i].phase
                  \/ /\ stack'[i].phase \in {"advance", "forward"} =>
                           frame'[stack'[i].who].sub \in Gen
    <3>0. stack'[i].who \in Gen
      BY <1>10, <1>12 DEF ShapeOf
    <3>1. CASE i = n + 1
      BY <1>5, <1>10, <1>12, <3>0, <3>1
    <3>2. CASE i = n
      <4>1. stack'[i] = below
        BY <1>1, <1>4, <1>7, <3>2
      <4> QED BY <1>8, <3>0, <4>1
    <3>3. CASE i # n /\ i # n + 1
      <4>1. i \in 2 .. n /\ stack'[i] = stack[i]
        BY <1>1, <1>4, <1>7, <3>3 DEF st0
      <4> QED BY <3>0, <4>1
    <3> QED BY <3>1, <3>2, <3>3
  <2>2. DelegateOK
    BY DEF IInv
  <2> QED BY <1>8, <1>12, <2>1, <2>2, DelegateKept DEF DelegateOK
<1>14. TypeOK'
  BY <1>1, <1>7, <1>8, <1>9, <1>10, <1>12 DEF IInv, TypeOK
<1>15. SignalOK' /\ HandlersOK'
  BY <1>8 DEF IInv, SignalOK, HandlersOK
<1> QED
  BY <1>1, <1>10, <1>11, <1>12, <1>13, <1>14, <1>15
     DEF Sound, IInv, Shape, Activated, Kept

\* vm_enter_gen_drive.
LEMMA DriveSound ==
    ASSUME IInv, NEW g \in Gen \ Guarded, cell[g] = "frame", signal.kind = "none",
           Top.phase = "run", Drive(g)
    PROVE  Sound
<1> DEFINE n == Len(stack)
           a == [who |-> g, via |-> "drive", call |-> "for",
                 phase |-> "run", inject |-> NoExc, hbase |-> Top.hbase,
                 sbase |-> Top.sbase, prev |-> Top.prev, seen |-> ExceptionState]
<1>1. stack \in Seq(Activation) /\ Len(stack) \in Nat \ {0} /\ Top \in Activation
  BY TopFacts
<1>2. ExceptionState \in [handled : Seq(Exc), saved : Seq(MaybeExc), active : MaybeExc]
  BY DEF IInv, TypeOK, ExceptionState
<1>3. a \in Activation
  BY <1>1, <1>2 DEF Activation, MaybeExc, Frames, Call
<1>4. /\ a.who = g /\ a.via = "drive" /\ a.call = "for" /\ a.phase = "run"
      /\ a.seen = ExceptionState
  OBVIOUS
<1>5. Keeps(a, ExceptionState) /\ Installed(a) /\ Waiting(a.call) = "run"
  BY <1>4 DEF Keeps, Installed, Waiting
<1>6. stack' = Append(stack, a) /\ cell' = [cell EXCEPT ![g] = "driving"]
  BY DEF Drive
<1>7. UNCHANGED <<frame, handled, saved, active, inside, signal>>
  BY DEF Drive
<1>8. cell \in [Gen -> {"frame", "borrowed", "driving"}]
  BY DEF IInv, TypeOK
<1> HIDE DEF a
<1>9. /\ stack' \in Seq(Activation) /\ stack'[Len(stack')] = a
      /\ ShapeOf(stack') /\ ActivatedOf(stack', cell') /\ KeptOf(stack', ExceptionState)
  BY <1>1, <1>3, <1>4, <1>5, <1>6, <1>8, Pushed DEF IInv, Shape, Activated, Kept, Top
<1>10. ExceptionState' = ExceptionState
  BY <1>7 DEF ExceptionState
<1>11. /\ Len(stack') = n + 1
       /\ \A i \in 1 .. n : stack'[i] = stack[i]
  BY <1>1, <1>6
<1>12. DelegateOK'
  <2>1. ASSUME NEW i \in 2 .. n + 1
        PROVE  /\ stack'[i].who \in Gen
               /\ \/ /\ i \in 2 .. n
                     /\ stack'[i].who = stack[i].who /\ stack'[i].phase = stack[i].phase
                  \/ stack'[i].phase \in {"advance", "forward"} =>
                        frame'[stack'[i].who].sub \in Gen
    <3>0. stack'[i].who \in Gen
      BY <1>9, <1>11 DEF ShapeOf
    <3>1. CASE i = n + 1
      BY <1>4, <1>9, <1>11, <3>0, <3>1
    <3>2. CASE i # n + 1
      <4>1. i \in 2 .. n /\ stack'[i] = stack[i]
        BY <1>1, <1>11, <3>2
      <4> QED BY <3>0, <4>1
    <3> QED BY <3>1, <3>2
  <2>2. DelegateOK
    BY DEF IInv
  <2> QED BY <1>7, <1>11, <2>1, <2>2, DelegateKept DEF DelegateOK
<1>13. TypeOK'
  <2>1. cell' \in [Gen -> {"frame", "borrowed", "driving"}]
    BY <1>6, <1>8
  <2>2. stack' # <<>>
    BY <1>9 DEF ShapeOf
  <2> QED BY <1>7, <1>9, <2>1, <2>2 DEF IInv, TypeOK
<1>14. SignalOK' /\ HandlersOK'
  BY <1>7 DEF IInv, SignalOK, HandlersOK
<1> QED
  BY <1>1, <1>9, <1>10, <1>11, <1>12, <1>13, <1>14
     DEF Sound, IInv, Shape, Activated, Kept

\* The activation on top goes on, in a new phase or exception state.
LEMMA GoOnSound ==
    ASSUME IInv, NEW a \in Activation, SetTop(a), UNCHANGED cell,
           /\ a.who = Top.who /\ a.via = Top.via /\ a.call = Top.call
           /\ a.seen = Top.seen
           /\ Top.via = "script" => a.phase = "run"
           /\ Top.via = "drive" => Installed(a),
           Keeps(a, ExceptionState'),
           a.phase \in {"advance", "forward"} => frame'[a.who].sub \in Gen,
           \A g \in Gen : /\ frame[g].sub \in Gen => frame'[g].sub \in Gen
                          /\ frame'[g].pc = "from" => frame'[g].sub \in Gen,
           frame' \in [Gen -> GeneratorFrame],
           handled' \in Seq(Exc), saved' \in Seq(MaybeExc), active' \in MaybeExc,
           inside' \in [Frames -> Seq(Exc)], HandlersOK',
           signal' \in Outcome,
           signal'.kind = "raised" => signal'.exc # NoExc,
           signal'.kind # "none" => a.phase = Waiting(signal'.call)
    PROVE  Sound
<1> DEFINE n == Len(stack)
<1>1. stack \in Seq(Activation) /\ n \in Nat \ {0}
  BY TopFacts
<1>2. stack' = [stack EXCEPT ![n] = a]
  BY DEF SetTop
<1>3. /\ stack' \in Seq(Activation) /\ Len(stack') = n /\ stack'[n] = a
      /\ ShapeOf(stack') /\ ActivatedOf(stack', cell') /\ KeptOf(stack', ExceptionState')
  BY <1>1, <1>2, TopChanges DEF IInv, Shape, Activated, Kept, Top
<1>4. DelegateOK'
  <2>1. ASSUME NEW i \in 2 .. n
        PROVE  /\ stack'[i].who \in Gen
               /\ \/ /\ i \in 2 .. n
                     /\ stack'[i].who = stack[i].who /\ stack'[i].phase = stack[i].phase
                  \/ stack'[i].phase \in {"advance", "forward"} =>
                        frame'[stack'[i].who].sub \in Gen
    <3>0. stack'[i].who \in Gen
      BY <1>3 DEF ShapeOf
    <3>1. CASE i = n
      BY <1>3, <3>0, <3>1
    <3>2. CASE i # n
      BY <1>1, <1>2, <3>0, <3>2
    <3> QED BY <3>1, <3>2
  <2>2. DelegateOK
    BY DEF IInv
  <2> QED BY <1>3, <2>1, <2>2, DelegateKept DEF DelegateOK
<1>5. TypeOK'
  BY <1>1, <1>3 DEF IInv, TypeOK
<1>6. SignalOK'
  BY <1>3 DEF SignalOK, Top
<1> QED
  BY <1>1, <1>3, <1>4, <1>5, <1>6 DEF Sound, IInv, Shape, Activated, Kept

\* The stack of activations stays as it is.
LEMMA StaySound ==
    ASSUME IInv, UNCHANGED <<stack, cell>>, Keeps(Top, ExceptionState'),
           \A g \in Gen : frame'[g].sub = frame[g].sub /\ frame'[g].pc = frame[g].pc,
           frame' \in [Gen -> GeneratorFrame],
           handled' \in Seq(Exc), saved' \in Seq(MaybeExc), active' \in MaybeExc,
           inside' \in [Frames -> Seq(Exc)], HandlersOK',
           signal' \in Outcome,
           signal'.kind = "raised" => signal'.exc # NoExc,
           signal'.kind # "none" => Top.phase = Waiting(signal'.call)
    PROVE  Sound
<1>1. /\ stack \in Seq(Activation) /\ Len(stack) \in Nat \ {0} /\ Top \in Activation
      /\ Top.via = "script" => Top.phase = "run"
      /\ Top.via = "drive" => Installed(Top)
      /\ Top.phase \in {"advance", "forward"} => Top.who \in Gen /\ frame[Top.who].sub \in Gen
  BY TopFacts
<1>2. SetTop(Top)
  BY <1>1 DEF SetTop, Top
<1>3. \A g \in Gen : frame[g].pc = "from" => frame[g].sub \in Gen
  BY DEF IInv, DelegateOK
<1>4. \A g \in Gen : /\ frame[g].sub \in Gen => frame'[g].sub \in Gen
                     /\ frame'[g].pc = "from" => frame'[g].sub \in Gen
  BY <1>3
<1> QED BY <1>1, <1>2, <1>4, GoOnSound

\* The activation on top ends and leaves its resumer's exception state.
LEMMA PopSound ==
    ASSUME IInv, Top.who \in Gen,
           stack' = Front(stack), cell' = [cell EXCEPT ![Top.who] = "frame"],
           ExceptionState' = Top.seen,
           handled' \in Seq(Exc), saved' \in Seq(MaybeExc), active' \in MaybeExc,
           NEW f \in GeneratorFrame, frame' = [frame EXCEPT ![Top.who] = f],
           f.sub = frame[Top.who].sub, f.pc = "from" => f.sub \in Gen,
           inside' \in [Frames -> Seq(Exc)], HandlersOK',
           signal' \in Outcome, signal'.call = Top.call,
           signal'.kind = "raised" => signal'.exc # NoExc
    PROVE  Sound
<1> DEFINE n == Len(stack)
<1>1. /\ stack \in Seq(Activation) /\ n \in Nat \ {0} /\ n \in 2 .. n /\ Top \in Activation
  BY TopFacts
<1>2. /\ cell \in [Gen -> {"frame", "borrowed", "driving"}]
      /\ frame \in [Gen -> GeneratorFrame]
  BY DEF IInv, TypeOK
<1>3. /\ stack' \in Seq(Activation) /\ Len(stack') = n - 1
      /\ stack'[Len(stack')].phase = Waiting(Top.call)
      /\ \A i \in 1 .. Len(stack') : stack'[i] = stack[i]
      /\ ShapeOf(stack') /\ ActivatedOf(stack', cell') /\ KeptOf(stack', Top.seen)
  BY <1>1, <1>2, Popped DEF IInv, Shape, Activated, Kept, Top
<1>4. \A g \in Gen : /\ frame[g].sub \in Gen => frame'[g].sub \in Gen
                     /\ frame'[g].pc = "from" => frame'[g].sub \in Gen
  BY <1>2 DEF IInv, DelegateOK
<1>5. DelegateOK'
  <2>1. \A i \in 2 .. Len(stack') :
           /\ stack'[i].who \in Gen
           /\ i \in 2 .. Len(stack) /\ stack'[i] = stack[i]
    BY <1>1, <1>3 DEF ShapeOf
  <2>2. DelegateOK
    BY DEF IInv
  <2> QED BY <1>4, <2>1, <2>2, DelegateKept
<1>6. TypeOK'
  <2>1. frame' \in [Gen -> GeneratorFrame] /\ cell' \in [Gen -> {"frame", "borrowed", "driving"}]
    BY <1>2
  <2>2. stack' # <<>>
    BY <1>3 DEF ShapeOf
  <2> QED BY <1>3, <2>1, <2>2 DEF TypeOK
<1>7. SignalOK'
  BY <1>3 DEF SignalOK, Top
<1> QED
  BY <1>3, <1>5, <1>6, <1>7 DEF Sound, IInv, Shape, Activated, Kept

\* A frame is left: a native one cuts the exception state at its bases, a
\* driven one has never touched it.
LEMMA LeaveSound ==
    ASSUME IInv, Top.who \in Gen, Installed(Top),
           NEW f \in GeneratorFrame, NEW kind \in {"yielded", "stopped", "raised"},
           NEW e \in MaybeExc, kind = "raised" => e # NoExc,
           f.sub = frame[Top.who].sub, f.pc = "from" => f.sub \in Gen,
           inside' \in [Frames -> Seq(Exc)], HandlersOK',
           Leave(f, kind, e)
    PROVE  Sound
<1>1. Top \in Activation /\ Keeps(Top, ExceptionState) /\ Top.via # "script"
  BY TopFacts
<1>2. handled \in Seq(Exc) /\ saved \in Seq(MaybeExc) /\ active \in MaybeExc
  BY DEF IInv, TypeOK
<1>3. /\ ExceptionState' = Top.seen
      /\ handled' \in Seq(Exc) /\ saved' \in Seq(MaybeExc) /\ active' \in MaybeExc
  <2>1. CASE Top.via = "native"
    <3>1. /\ handled' = SubSeq(handled, 1, Top.hbase)
          /\ saved' = SubSeq(saved, 1, Top.sbase) /\ active' = Top.prev
      BY <2>1 DEF Leave
    <3>2. ExceptionState.handled = handled /\ ExceptionState.saved = saved
      BY DEF ExceptionState
    <3>3. /\ Top.hbase <= Len(handled) /\ Top.sbase <= Len(saved)
          /\ Top.seen = [handled |-> SubSeq(handled, 1, Top.hbase),
                         saved |-> SubSeq(saved, 1, Top.sbase), active |-> Top.prev]
      BY <1>1, <2>1, <3>2 DEF Keeps
    <3>4. Top.hbase \in Nat /\ Top.sbase \in Nat /\ Top.prev \in MaybeExc
      BY <1>1 DEF Activation
    <3>5. Len(handled) \in Nat /\ Len(saved) \in Nat
      BY <1>2
    <3>6. Top.hbase \in 0 .. Len(handled) /\ Top.sbase \in 0 .. Len(saved)
      BY <3>3, <3>4, <3>5
    <3> QED BY <1>2, <3>1, <3>3, <3>4, <3>6, PrefixType DEF ExceptionState
  <2>2. CASE Top.via # "native"
    <3>1. Top.via = "drive"
      BY <1>1, <2>2 DEF Activation
    <3>2. UNCHANGED <<handled, saved, active>>
      BY <3>1 DEF Leave
    <3> QED BY <1>1, <1>2, <3>1, <3>2 DEF Keeps, ExceptionState
  <2> QED BY <2>1, <2>2
<1>4. /\ stack' = Front(stack) /\ cell' = [cell EXCEPT ![Top.who] = "frame"]
      /\ frame' = [frame EXCEPT ![Top.who] = f]
      /\ signal' = [kind |-> kind, exc |-> e, call |-> Top.call, gen |-> Top.who]
  BY DEF Leave
<1>5. signal' \in Outcome
  BY <1>1, <1>4 DEF Outcome, Activation
<1> QED BY <1>3, <1>4, <1>5, PopSound

\* Insn::Yield and a YieldFrom that passes a value on.
LEMMA SuspendSound ==
    ASSUME IInv, Top.who \in Gen, Installed(Top), NEW pc \in {"yield", "from"},
           pc = "from" => frame[Top.who].sub \in Gen, Suspend(pc)
    PROVE  Sound
<1> DEFINE w == Top.who
           f == IF Top.via = "native"
                THEN [frame[w] EXCEPT
                        !.pc = pc,
                        !.handled = SubSeq(handled, Top.hbase + 1, Len(handled)),
                        !.saved = SubSeq(saved, Top.sbase + 1, Len(saved)),
                        !.active = active]
                ELSE [frame[w] EXCEPT !.pc = pc]
<1>1. Top.hbase \in Nat /\ Top.sbase \in Nat
  BY TopFacts DEF Activation
<1>2. /\ handled \in Seq(Exc) /\ saved \in Seq(MaybeExc) /\ active \in MaybeExc
      /\ frame[w] \in GeneratorFrame /\ inside \in [Frames -> Seq(Exc)]
  BY DEF IInv, TypeOK
<1>3. /\ SubSeq(handled, Top.hbase + 1, Len(handled)) \in Seq(Exc)
      /\ SubSeq(saved, Top.sbase + 1, Len(saved)) \in Seq(MaybeExc)
  BY <1>1, <1>2, SliceType
<1>4. f \in GeneratorFrame /\ f.sub = frame[w].sub /\ f.pc = pc
  BY <1>2, <1>3 DEF GeneratorFrame
<1>5. Leave(f, "yielded", NoExc) /\ UNCHANGED inside
  BY <1>2 DEF Suspend, GeneratorFrame
<1>6. HandlersOK'
  BY <1>5 DEF IInv, HandlersOK
<1>7. NoExc \in MaybeExc
  BY DEF MaybeExc
<1> HIDE DEF f
<1> QED BY <1>2, <1>4, <1>5, <1>6, <1>7, LeaveSound

\* A frame returns, or an exception leaves it.
LEMMA FinishSound ==
    ASSUME IInv, Top.who \in Gen, Installed(Top), NEW kind \in {"stopped", "raised"},
           NEW e \in MaybeExc, kind = "raised" => e # NoExc, Finish(kind, e)
    PROVE  Sound
<1> DEFINE w == Top.who
           f == [frame[w] EXCEPT !.done = TRUE]
<1>1. /\ frame[w] \in GeneratorFrame /\ inside \in [Frames -> Seq(Exc)] /\ w \in Frames
      /\ frame[w].pc = "from" => frame[w].sub \in Gen
  BY DEF IInv, TypeOK, DelegateOK, Frames
<1>2. f \in GeneratorFrame /\ f.sub = frame[w].sub /\ f.pc = frame[w].pc
  BY <1>1 DEF GeneratorFrame
<1>3. inside' = [inside EXCEPT ![w] = <<>>] /\ Leave(f, kind, e)
  BY DEF Finish
<1>4. <<>> \in Seq(Exc)
  OBVIOUS
<1>5. inside' \in [Frames -> Seq(Exc)]
  BY <1>1, <1>3, <1>4
<1>6. HandlersOK'
  BY <1>1, <1>3 DEF IInv, HandlersOK, Frames
<1> HIDE DEF f
<1> QED BY <1>1, <1>2, <1>3, <1>5, <1>6, LeaveSound

\* "None" is no exception.
LEMMA NoExcIsNone == NoExc \notin Exc /\ "stop" \in Exc /\ "fault" \in Exc /\ "exit" \in Exc
BY GeneratorsAssumption DEF NoExc, Exc

\* An exception raised by the running code.
LEMMA RaiseSound ==
    ASSUME IInv, NEW e \in Exc, Top.phase = "run", RaiseHere(e)
    PROVE  Sound
<1>1. UNCHANGED <<frame, cell, stack, handled, saved, active, inside>>
  BY DEF RaiseHere
<1>2. ExceptionState' = ExceptionState
  BY <1>1 DEF ExceptionState
<1>3. Keeps(Top, ExceptionState')
  BY <1>2, TopFacts
<1>4. signal' = RaisedHere(e)
  BY DEF RaiseHere
<1>5. signal' \in Outcome
  BY <1>4 DEF RaisedHere, Outcome, MaybeExc, Frames
<1>6. signal'.exc = e /\ Waiting(signal'.call) = "run"
  BY <1>4 DEF RaisedHere, Waiting
<1>7. HandlersOK'
  BY <1>1 DEF IInv, HandlersOK
<1> QED BY <1>1, <1>3, <1>5, <1>6, <1>7, NoExcIsNone, StaySound DEF IInv, TypeOK

\* A generator resumed by running code.
LEMMA CallSound ==
    ASSUME IInv, NEW g \in Gen, NEW call \in {"next", "throw", "close", "for"},
           NEW inj \in MaybeExc, cell[g] = "frame", signal.kind = "none",
           Top.phase = "run", Resume(g, call, inj, Top)
    PROVE  Sound
<1>1. /\ Top \in Activation /\ Keeps(Top, ExceptionState)
      /\ Top.via = "drive" => Installed(Top)
  BY TopFacts
<1>2. call \in Call /\ Waiting(call) = "run"
  BY DEF Call, Waiting
<1> QED BY <1>1, <1>2, ResumeSound

-----------------------------------------------------------------------------
(* The actions *)

\* run_bytecode_inner on entry.
LEMMA InstallSound == ASSUME IInv, Install PROVE Sound
<1> DEFINE w == Top.who
           f == frame[w]
           a == [Top EXCEPT !.phase = IF Top.inject = NoExc /\ f.pc = "from"
                                      THEN "advance" ELSE "run",
                            !.inject = NoExc, !.hbase = Len(handled),
                            !.sbase = Len(saved), !.prev = active]
<1>1. Top.phase = "resume" /\ signal.kind = "none"
  BY DEF Install
<1>2. /\ Top \in Activation /\ w \in Gen /\ Top.via = "native" /\ ~ Installed(Top)
      /\ Keeps(Top, ExceptionState)
  BY <1>1, TopFacts DEF Installed, Activation
<1>3. Top.seen = ExceptionState
  BY <1>2 DEF Keeps
<1>4. /\ handled \in Seq(Exc) /\ saved \in Seq(MaybeExc) /\ active \in MaybeExc
      /\ frame \in [Gen -> GeneratorFrame] /\ f \in GeneratorFrame
      /\ inside \in [Frames -> Seq(Exc)]
  BY <1>2 DEF IInv, TypeOK
<1>5. f.handled \in Seq(Exc) /\ f.saved \in Seq(MaybeExc) /\ f.active \in MaybeExc
  BY <1>4 DEF GeneratorFrame
<1>6. /\ SetTop(a) /\ UNCHANGED <<cell, inside>>
      /\ handled' = handled \o f.handled /\ saved' = saved \o f.saved
      /\ active' = IF f.active # NoExc THEN f.active ELSE active
  BY DEF Install
<1>7. /\ handled' \in Seq(Exc) /\ Len(handled) <= Len(handled')
      /\ SubSeq(handled', 1, Len(handled)) = handled
      /\ saved' \in Seq(MaybeExc) /\ Len(saved) <= Len(saved')
      /\ SubSeq(saved', 1, Len(saved)) = saved
      /\ active' \in MaybeExc
  BY <1>4, <1>5, <1>6, PrefixConcat
<1>8. Len(handled) \in Nat /\ Len(saved) \in Nat
  BY <1>4
<1>9. /\ a \in Activation /\ a.who = w /\ a.via = "native" /\ a.call = Top.call
      /\ a.seen = Top.seen /\ a.hbase = Len(handled) /\ a.sbase = Len(saved)
      /\ a.prev = active /\ Installed(a)
      /\ a.phase = "advance" <=> Top.inject = NoExc /\ f.pc = "from"
      /\ a.phase # "advance" => a.phase = "run"
  BY <1>2, <1>4, <1>8 DEF Activation, MaybeExc, Installed
<1> HIDE DEF a
<1>10. Keeps(a, ExceptionState')
  <2>1. ExceptionState'.handled = handled' /\ ExceptionState'.saved = saved'
    BY DEF ExceptionState
  <2>2. a.seen = [handled |-> handled, saved |-> saved, active |-> active]
    BY <1>3, <1>9 DEF ExceptionState
  <2> QED BY <1>7, <1>9, <2>1, <2>2 DEF Keeps
<1>11. frame' = [frame EXCEPT ![w].handled = <<>>, ![w].saved = <<>>, ![w].active = NoExc]
  BY DEF Install
<1>12. /\ frame' \in [Gen -> GeneratorFrame]
       /\ \A g \in Gen : frame'[g].sub = frame[g].sub /\ frame'[g].pc = frame[g].pc
  <2> DEFINE f1 == [f EXCEPT !.handled = <<>>, !.saved = <<>>, !.active = NoExc]
  <2>1. <<>> \in Seq(Exc) /\ <<>> \in Seq(MaybeExc) /\ NoExc \in MaybeExc
    BY DEF MaybeExc
  <2>2. f1 \in GeneratorFrame /\ f1.sub = f.sub /\ f1.pc = f.pc
    BY <1>4, <2>1 DEF GeneratorFrame
  <2>3. frame' = [frame EXCEPT ![w] = f1]
    BY <1>2, <1>4, <1>11 DEF GeneratorFrame
  <2> HIDE DEF f1
  <2> QED BY <1>2, <1>4, <2>2, <2>3
<1>13. \A g \in Gen : frame[g].pc = "from" => frame[g].sub \in Gen
  BY DEF IInv, DelegateOK
<1>14. a.phase \in {"advance", "forward"} => frame'[a.who].sub \in Gen
  BY <1>2, <1>9, <1>12, <1>13
<1>15. signal' = IF Top.inject = NoExc THEN Quiet
                 ELSE IF f.pc = "start" THEN RaisedOnEntry(Top.inject)
                 ELSE RaisedHere(Top.inject)
  BY DEF Install
<1>16. Top.inject \in MaybeExc
  BY <1>2 DEF Activation
<1>17. /\ signal' \in Outcome
       /\ signal'.kind = "raised" => signal'.exc # NoExc
       /\ signal'.kind # "none" => Top.inject # NoExc /\ Waiting(signal'.call) = "run"
  BY <1>15, <1>16 DEF Quiet, RaisedOnEntry, RaisedHere, Outcome, MaybeExc, Frames, Waiting
<1>18. HandlersOK'
  BY <1>6 DEF IInv, HandlersOK
<1> QED
  BY <1>2, <1>4, <1>6, <1>7, <1>9, <1>10, <1>12, <1>13, <1>14, <1>17, <1>18, GoOnSound

\* A frame that forwarded an exception goes on past its YieldFrom.
LEMMA PastYieldFromSound ==
    ASSUME IInv, Top.phase \in {"resume", "forward"}, NEW e \in MaybeExc,
           PastYieldFrom(e), UNCHANGED <<cell, handled, saved, active, inside>>,
           signal' \in Outcome, signal'.kind = "none"
    PROVE  Sound
<1> DEFINE w == Top.who
           a == [Top EXCEPT !.phase = "resume", !.inject = IF e = "stop" THEN NoExc ELSE e]
<1>1. /\ Top \in Activation /\ w \in Gen /\ Top.via = "native" /\ ~ Installed(Top)
      /\ Keeps(Top, ExceptionState)
  BY TopFacts DEF Installed, Activation
<1>2. /\ a \in Activation /\ a.who = w /\ a.via = "native" /\ a.call = Top.call
      /\ a.seen = Top.seen /\ a.phase = "resume" /\ ~ Installed(a)
  BY <1>1 DEF Activation, MaybeExc, Installed
<1>3. SetTop(a) /\ frame' = [frame EXCEPT ![w].pc = "yield"]
  BY DEF PastYieldFrom
<1> HIDE DEF a
<1>4. ExceptionState' = ExceptionState
  BY DEF ExceptionState
<1>5. Keeps(a, ExceptionState')
  BY <1>1, <1>2, <1>4 DEF Keeps
<1>6. frame \in [Gen -> GeneratorFrame]
  BY DEF IInv, TypeOK
<1>7. /\ frame' \in [Gen -> GeneratorFrame]
      /\ \A g \in Gen : /\ frame'[g].sub = frame[g].sub
                        /\ frame'[g].pc = "from" => frame[g].pc = "from"
  BY <1>1, <1>3, <1>6 DEF GeneratorFrame
<1>8. \A g \in Gen : frame[g].pc = "from" => frame[g].sub \in Gen
  BY DEF IInv, DelegateOK
<1>9. HandlersOK'
  BY DEF IInv, HandlersOK
<1> QED BY <1>1, <1>2, <1>3, <1>5, <1>7, <1>8, <1>9, GoOnSound DEF IInv, TypeOK

\* yield_from_throw_forward.
LEMMA ForwardThrowSound == ASSUME IInv, ForwardThrow PROVE Sound
<1> DEFINE s == frame[Top.who].sub
           below == [Top EXCEPT !.phase = "forward"]
<1>1. /\ Top.phase = "resume" /\ signal.kind = "none" /\ Top.inject # NoExc
      /\ frame[Top.who].pc = "from"
  BY DEF ForwardThrow, Forwards
<1>2. /\ Top \in Activation /\ Top.who \in Gen /\ Top.via = "native" /\ ~ Installed(Top)
      /\ Keeps(Top, ExceptionState) /\ Top.inject \in MaybeExc
  BY <1>1, TopFacts DEF Installed, Activation
<1>3. s \in Gen
  BY <1>1, <1>2 DEF IInv, DelegateOK
<1>4. CASE cell[s] = "frame" /\ ~ frame[s].done
  <2>1. Resume(s, "forward", Top.inject, below)
    BY <1>4 DEF ForwardThrow
  <2>2. /\ below \in Activation /\ below.who = Top.who /\ below.via = Top.via
        /\ below.call = Top.call /\ below.seen = Top.seen /\ below.phase = "forward"
        /\ ~ Installed(below)
    BY <1>2 DEF Activation, Installed
  <2> HIDE DEF below
  <2>3. Keeps(below, ExceptionState)
    BY <1>2, <2>2 DEF Keeps
  <2>4. "forward" \in Call /\ Waiting("forward") = "forward"
    BY DEF Call, Waiting
  <2> QED BY <1>1, <1>2, <1>3, <1>4, <2>1, <2>2, <2>3, <2>4, ResumeSound
<1>5. CASE ~ (cell[s] = "frame" /\ ~ frame[s].done)
  <2>1. /\ PastYieldFrom(IF cell[s] = "borrowed" THEN "fault" ELSE Top.inject)
        /\ UNCHANGED <<cell, handled, saved, active, inside, signal>>
    BY <1>5 DEF ForwardThrow
  <2>2. (IF cell[s] = "borrowed" THEN "fault" ELSE Top.inject) \in MaybeExc
    BY <1>2 DEF MaybeExc, Exc
  <2>3. signal' \in Outcome /\ signal'.kind = "none"
    BY <1>1, <2>1 DEF IInv, TypeOK
  <2> QED BY <1>1, <2>1, <2>2, <2>3, PastYieldFromSound
<1> QED BY <1>4, <1>5

\* yield_from_advance.
LEMMA AdvanceSubSound == ASSUME IInv, AdvanceSub PROVE Sound
<1> DEFINE s == frame[Top.who].sub
           a == [Top EXCEPT !.phase = "run"]
<1>1. Top.phase = "advance" /\ signal.kind = "none"
  BY DEF AdvanceSub
<1>2. /\ Top \in Activation /\ Top.who \in Gen /\ Installed(Top) /\ s \in Gen
      /\ Keeps(Top, ExceptionState) /\ Top.via # "script"
  BY <1>1, TopFacts DEF Installed
<1>3. CASE cell[s] = "frame" /\ ~ frame[s].done
  <2>1. Resume(s, "from", NoExc, Top)
    BY <1>3 DEF AdvanceSub
  <2>2. "from" \in Call /\ Waiting("from") = "advance" /\ NoExc \in MaybeExc
    BY DEF Call, Waiting, MaybeExc
  <2> QED BY <1>1, <1>2, <1>3, <2>1, <2>2, ResumeSound
<1>4. CASE ~ (cell[s] = "frame" /\ ~ frame[s].done)
  <2>1. /\ SetTop(a) /\ signal' = IF cell[s] = "frame" THEN Quiet ELSE RaisedHere("fault")
        /\ UNCHANGED <<frame, cell, handled, saved, active, inside>>
    BY <1>4 DEF AdvanceSub
  <2>2. /\ a \in Activation /\ a.who = Top.who /\ a.via = Top.via /\ a.call = Top.call
        /\ a.seen = Top.seen /\ a.phase = "run" /\ Installed(a)
        /\ a.hbase = Top.hbase /\ a.sbase = Top.sbase /\ a.prev = Top.prev
    BY <1>2 DEF Activation, Installed
  <2> HIDE DEF a
  <2>3. ExceptionState' = ExceptionState
    BY <2>1 DEF ExceptionState
  <2>4. Keeps(a, ExceptionState')
    BY <1>2, <2>2, <2>3 DEF Keeps
  <2>5. /\ signal'.kind = "raised" => signal'.exc # NoExc
        /\ Waiting(signal'.call) = "run"
    BY <2>1, NoExcIsNone DEF Quiet, RaisedHere, Waiting
  <2>6. signal' \in Outcome
    BY <2>1, NoExcIsNone DEF Quiet, RaisedHere, Outcome, MaybeExc, Frames
  <2>7. \A g \in Gen : frame[g].pc = "from" => frame[g].sub \in Gen
    BY DEF IInv, DelegateOK
  <2>8. HandlersOK'
    BY <2>1 DEF IInv, HandlersOK
  <2> QED BY <1>2, <2>1, <2>2, <2>4, <2>5, <2>6, <2>7, <2>8, GoOnSound DEF IInv, TypeOK
<1> QED BY <1>3, <1>4
\* An outcome that only changes the signal, and perhaps ends a frame.
LEMMA HandedOver ==
    ASSUME IInv, UNCHANGED <<cell, stack, handled, saved, active, inside>>,
           frame' \in [Gen -> GeneratorFrame],
           \A g \in Gen : frame'[g].sub = frame[g].sub /\ frame'[g].pc = frame[g].pc,
           Top.phase = "run",
           signal' = Quiet \/ \E e \in Exc : signal' = RaisedHere(e)
    PROVE  Sound
<1>1. ExceptionState' = ExceptionState
  BY DEF ExceptionState
<1>2. Keeps(Top, ExceptionState')
  BY <1>1, TopFacts
<1>3. /\ signal' \in Outcome /\ Waiting(signal'.call) = "run"
      /\ signal'.kind = "raised" => signal'.exc # NoExc
  <2>1. CASE signal' = Quiet
    BY <2>1 DEF Quiet, Outcome, MaybeExc, Frames, Waiting
  <2>2. CASE \E e \in Exc : signal' = RaisedHere(e)
    <3>1. PICK e \in Exc : signal' = RaisedHere(e)
      BY <2>2
    <3> QED BY <3>1, NoExcIsNone DEF RaisedHere, Outcome, MaybeExc, Frames, Waiting
  <2> QED BY <2>1, <2>2
<1>4. HandlersOK'
  BY DEF IInv, HandlersOK
<1> QED BY <1>2, <1>3, <1>4, StaySound DEF IInv, TypeOK

\* What is known of an outcome on its way.
LEMMA OutcomeFacts ==
    ASSUME IInv, signal.kind # "none"
    PROVE  /\ signal.kind \in {"yielded", "stopped", "raised"}
           /\ signal.kind = "raised" => signal.exc \in Exc
           /\ signal.exc \in MaybeExc
           /\ Top.phase = Waiting(signal.call)
BY DEF IInv, TypeOK, SignalOK, Outcome, MaybeExc

\* next(), send(), throw(), close() and for hand the outcome to the caller.
LEMMA DeliverCallSound ==
    ASSUME IInv, signal.kind # "none", DeliverCall \/ DeliverClose \/ DeliverFor
    PROVE  Sound
<1>1. /\ signal.kind \in {"yielded", "stopped", "raised"}
      /\ signal.kind = "raised" => signal.exc \in Exc
      /\ Top.phase = Waiting(signal.call)
  BY OutcomeFacts
<1>2. UNCHANGED <<cell, stack, handled, saved, active, inside>>
  BY DEF DeliverCall, DeliverClose, DeliverFor
<1>3. Top.phase = "run"
  BY <1>1 DEF DeliverCall, DeliverClose, DeliverFor, Waiting
<1>4. signal' = Quiet \/ \E e \in Exc : signal' = RaisedHere(e)
  <2>1. CASE DeliverCall
    BY <1>1, <2>1, NoExcIsNone DEF DeliverCall
  <2>2. CASE DeliverClose
    BY <1>1, <2>2, NoExcIsNone DEF DeliverClose
  <2>3. CASE DeliverFor
    BY <1>1, <2>3 DEF DeliverFor
  <2> QED BY <2>1, <2>2, <2>3
<1>5. frame \in [Gen -> GeneratorFrame]
  BY DEF IInv, TypeOK
<1>6. /\ frame' \in [Gen -> GeneratorFrame]
      /\ \A g \in Gen : frame'[g].sub = frame[g].sub /\ frame'[g].pc = frame[g].pc
  <2>1. CASE frame' = frame
    BY <1>5, <2>1
  <2>2. CASE frame' = [frame EXCEPT ![signal.gen].done = TRUE]
    <3>1. CASE signal.gen \in Gen
      <4> DEFINE f1 == [frame[signal.gen] EXCEPT !.done = TRUE]
      <4>1. /\ f1 \in GeneratorFrame /\ f1.sub = frame[signal.gen].sub
            /\ f1.pc = frame[signal.gen].pc
        BY <1>5, <3>1 DEF GeneratorFrame
      <4>2. frame' = [frame EXCEPT ![signal.gen] = f1]
        BY <1>5, <2>2, <3>1 DEF GeneratorFrame
      <4> HIDE DEF f1
      <4> QED BY <1>5, <3>1, <4>1, <4>2
    <3>2. CASE signal.gen \notin Gen
      BY <1>5, <2>2, <3>2
    <3> QED BY <3>1, <3>2
  <2> QED BY <2>1, <2>2 DEF DeliverCall, DeliverClose, DeliverFor
<1> QED BY <1>2, <1>3, <1>4, <1>6, HandedOver

\* Running code goes on in another phase of the same activation.
LEMMA PhaseSound ==
    ASSUME IInv, Top.who \in Gen, Installed(Top), NEW p \in {"run", "advance"},
           SetTop([Top EXCEPT !.phase = p]),
           UNCHANGED <<cell, handled, saved, active, inside>>,
           frame' \in [Gen -> GeneratorFrame],
           \A g \in Gen : /\ frame[g].sub \in Gen => frame'[g].sub \in Gen
                          /\ frame'[g].pc = frame[g].pc,
           p = "advance" => frame'[Top.who].sub \in Gen,
           \/ signal' \in Outcome /\ signal'.kind = "none"
           \/ p = "run" /\ \E e \in Exc : signal' = RaisedHere(e)
    PROVE  Sound
<1> DEFINE a == [Top EXCEPT !.phase = p]
<1>1. Top \in Activation /\ Top.via # "script" /\ Keeps(Top, ExceptionState)
  BY TopFacts
<1>2. /\ a \in Activation /\ a.who = Top.who /\ a.via = Top.via /\ a.call = Top.call
      /\ a.seen = Top.seen /\ a.phase = p /\ Installed(a)
      /\ a.hbase = Top.hbase /\ a.sbase = Top.sbase /\ a.prev = Top.prev
  BY <1>1 DEF Activation, Installed
<1>3. SetTop(a)
  OBVIOUS
<1> HIDE DEF a
<1>4. ExceptionState' = ExceptionState
  BY DEF ExceptionState
<1>5. Keeps(a, ExceptionState')
  BY <1>1, <1>2, <1>4 DEF Keeps
<1>6. /\ signal' \in Outcome
      /\ signal'.kind = "raised" => signal'.exc # NoExc
      /\ signal'.kind # "none" => p = Waiting(signal'.call)
  <2>1. CASE signal' \in Outcome /\ signal'.kind = "none"
    BY <2>1
  <2>2. CASE p = "run" /\ \E e \in Exc : signal' = RaisedHere(e)
    <3>1. PICK e \in Exc : signal' = RaisedHere(e)
      BY <2>2
    <3> QED BY <2>2, <3>1, NoExcIsNone DEF RaisedHere, Outcome, MaybeExc, Frames, Waiting
  <2> QED BY <2>1, <2>2
<1>7. \A g \in Gen : frame[g].pc = "from" => frame[g].sub \in Gen
  BY DEF IInv, DelegateOK
<1>8. HandlersOK'
  BY DEF IInv, HandlersOK
<1> QED BY <1>1, <1>2, <1>3, <1>5, <1>6, <1>7, <1>8, GoOnSound DEF IInv, TypeOK

\* YieldFrom gets an outcome of its sub-iterator.
LEMMA DeliverFromSound == ASSUME IInv, signal.kind # "none", DeliverFrom PROVE Sound
<1>1. /\ signal.kind \in {"yielded", "stopped", "raised"}
      /\ signal.kind = "raised" => signal.exc \in Exc
      /\ Top.phase = "advance"
  BY OutcomeFacts DEF DeliverFrom, Waiting
<1>2. Top.who \in Gen /\ Installed(Top) /\ frame[Top.who].sub \in Gen
  BY <1>1, TopFacts DEF Installed
<1>3. CASE signal.kind = "yielded"
  BY <1>2, <1>3, SuspendSound DEF DeliverFrom
<1>4. CASE signal.kind # "yielded"
  <2>1. /\ SetTop([Top EXCEPT !.phase = "run"])
        /\ signal' = IF signal.kind = "raised" THEN RaisedHere(signal.exc) ELSE Quiet
        /\ UNCHANGED <<frame, cell, handled, saved, active, inside>>
    BY <1>4 DEF DeliverFrom
  <2>2. \/ signal' \in Outcome /\ signal'.kind = "none"
        \/ \E e \in Exc : signal' = RaisedHere(e)
    BY <1>1, <2>1 DEF Quiet, Outcome, MaybeExc, Frames
  <2>3. frame' \in [Gen -> GeneratorFrame]
    BY <2>1 DEF IInv, TypeOK
  <2> QED BY <1>2, <2>1, <2>2, <2>3, PhaseSound
<1> QED BY <1>3, <1>4

\* The outcome of a forwarded throw.
LEMMA DeliverForwardSound == ASSUME IInv, signal.kind # "none", DeliverForward PROVE Sound
<1>1. /\ signal.kind \in {"yielded", "stopped", "raised"}
      /\ signal.exc \in MaybeExc /\ Top.phase = "forward"
  BY OutcomeFacts DEF DeliverForward, Waiting
<1>2. /\ Top \in Activation /\ Top.who \in Gen /\ Top.via = "native" /\ ~ Installed(Top)
      /\ Keeps(Top, ExceptionState)
  BY <1>1, TopFacts DEF Installed, Activation
<1>3. UNCHANGED <<handled, saved, active, inside>>
  BY DEF DeliverForward
<1>4. CASE signal.kind = "yielded"
  <2>1. /\ stack' = Front(stack) /\ cell' = [cell EXCEPT ![Top.who] = "frame"]
        /\ signal' = [signal EXCEPT !.call = Top.call, !.gen = Top.who]
        /\ frame' = frame
    BY <1>4 DEF DeliverForward
  <2>2. signal' \in Outcome /\ signal'.call = Top.call /\ signal'.kind = "yielded"
    BY <1>2, <1>4, <2>1 DEF IInv, TypeOK, Outcome, Activation
  <2>3. ExceptionState' = Top.seen
    BY <1>2, <1>3 DEF Keeps, ExceptionState
  <2>4. frame[Top.who] \in GeneratorFrame /\ frame' = [frame EXCEPT ![Top.who] = frame[Top.who]]
    BY <1>2, <2>1 DEF IInv, TypeOK
  <2>5. frame[Top.who].pc = "from" => frame[Top.who].sub \in Gen
    BY <1>2 DEF IInv, DelegateOK
  <2>6. HandlersOK'
    BY <1>3 DEF IInv, HandlersOK
  <2>7. /\ handled' \in Seq(Exc) /\ saved' \in Seq(MaybeExc) /\ active' \in MaybeExc
        /\ inside' \in [Frames -> Seq(Exc)]
    BY <1>3 DEF IInv, TypeOK
  <2> QED BY <1>2, <2>1, <2>2, <2>3, <2>4, <2>5, <2>6, <2>7, PopSound
<1>5. CASE signal.kind # "yielded"
  <2> DEFINE e == IF signal.kind = "stopped" THEN "stop" ELSE signal.exc
  <2>1. PastYieldFrom(e) /\ signal' = Quiet /\ UNCHANGED cell
    BY <1>5 DEF DeliverForward
  <2>2. e \in MaybeExc /\ signal' \in Outcome /\ signal'.kind = "none"
    BY <1>1, <2>1 DEF MaybeExc, Exc, Quiet, Outcome, Frames
  <2> HIDE DEF e
  <2> QED BY <1>1, <1>3, <2>1, <2>2, PastYieldFromSound
<1> QED BY <1>4, <1>5

-----------------------------------------------------------------------------
(* Handlers *)

\* Where an exception is raised, code is running.
LEMMA RaisedAtFacts ==
    ASSUME IInv, NEW w, RaisedAt(w)
    PROVE  Top.who = w /\ Top.phase = "run" /\ Installed(Top) /\ signal.exc \in Exc
BY OutcomeFacts DEF RaisedAt, Waiting, Installed

\* What lies above the bases may be replaced.
LEMMA AboveBases ==
    ASSUME IInv, Top.via # "drive", Installed(Top),
           handled' \in Seq(Exc), saved' \in Seq(MaybeExc),
           Top.via = "native" =>
             /\ Top.hbase <= Len(handled') /\ Top.sbase <= Len(saved')
             /\ SubSeq(handled', 1, Top.hbase) = SubSeq(handled, 1, Top.hbase)
             /\ SubSeq(saved', 1, Top.sbase) = SubSeq(saved, 1, Top.sbase)
    PROVE  Keeps(Top, ExceptionState')
<1>1. Keeps(Top, ExceptionState)
  BY TopFacts
<1>2. /\ ExceptionState'.handled = handled' /\ ExceptionState'.saved = saved'
      /\ ExceptionState.handled = handled /\ ExceptionState.saved = saved
  BY DEF ExceptionState
<1> QED BY <1>1, <1>2 DEF Keeps

\* The bases of a native activation lie within the stacks.
LEMMA BasesFacts ==
    ASSUME IInv, Installed(Top)
    PROVE  /\ Top.hbase \in Nat /\ Top.sbase \in Nat
           /\ Len(handled) \in Nat /\ Len(saved) \in Nat
           /\ handled \in Seq(Exc) /\ saved \in Seq(MaybeExc) /\ active \in MaybeExc
           /\ Top.via = "native" =>
                Top.hbase \in 0 .. Len(handled) /\ Top.sbase \in 0 .. Len(saved)
<1>1. Top.hbase \in Nat /\ Top.sbase \in Nat /\ Keeps(Top, ExceptionState)
  BY TopFacts DEF Activation
<1>2. handled \in Seq(Exc) /\ saved \in Seq(MaybeExc) /\ active \in MaybeExc
  BY DEF IInv, TypeOK
<1>3. Len(handled) \in Nat /\ Len(saved) \in Nat
  BY <1>2
<1>4. Top.via = "native" => Top.hbase <= Len(handled) /\ Top.sbase <= Len(saved)
  <2>1. ExceptionState.handled = handled /\ ExceptionState.saved = saved
    BY DEF ExceptionState
  <2> QED BY <1>1, <2>1 DEF Keeps
<1> QED BY <1>1, <1>2, <1>3, <1>4

\* handle_vm_error finds a handler.
LEMMA CatchSound == ASSUME IInv, NEW w \in Frames, NEW d, Catch(w, d) PROVE Sound
<1>1. /\ Top.who = w /\ Top.phase = "run" /\ Installed(Top) /\ signal.exc \in Exc
  BY RaisedAtFacts DEF Catch
<1>2. Top.via # "drive"
  BY <1>1, TopFacts, GeneratorsAssumption DEF Catch
<1>3. /\ Top.hbase \in Nat /\ Top.sbase \in Nat
      /\ Len(handled) \in Nat /\ Len(saved) \in Nat
      /\ handled \in Seq(Exc) /\ saved \in Seq(MaybeExc) /\ active \in MaybeExc
      /\ Top.via = "native" =>
           Top.hbase \in 0 .. Len(handled) /\ Top.sbase \in 0 .. Len(saved)
  BY <1>1, BasesFacts
<1> DEFINE h == IF Len(handled) > Top.hbase /\ Last(handled) = active
                THEN Front(handled) ELSE handled
<1>4. /\ h \in Seq(Exc)
      /\ Top.via = "native" => /\ Top.hbase \in 0 .. Len(h)
                               /\ SubSeq(h, 1, Top.hbase) = SubSeq(handled, 1, Top.hbase)
  <2>1. CASE Len(handled) > Top.hbase /\ Last(handled) = active
    <3>1. h = Front(handled) /\ Top.hbase < Len(handled)
      BY <1>3, <2>1
    <3> HIDE DEF h
    <3>2. /\ Front(handled) \in Seq(Exc) /\ Top.hbase <= Len(Front(handled))
          /\ Len(Front(handled)) = Len(handled) - 1
          /\ SubSeq(Front(handled), 1, Top.hbase) = SubSeq(handled, 1, Top.hbase)
      BY <1>3, <3>1, PrefixFront
    <3> QED BY <1>3, <3>1, <3>2
  <2>2. CASE ~ (Len(handled) > Top.hbase /\ Last(handled) = active)
    BY <1>3, <2>2
  <2> QED BY <2>1, <2>2
<1>5. /\ handled' = Append(h, signal.exc) /\ saved' = Append(saved, active)
      /\ active' = signal.exc /\ signal' = Quiet /\ UNCHANGED <<frame, cell, stack>>
      /\ inside' = [inside EXCEPT ![w] = Append(SubSeq(inside[w], 1, d - 1), signal.exc)]
      /\ d \in 1 .. Len(inside[w]) + 1 /\ w \in Guarded \cup {Main}
  BY DEF Catch
<1> HIDE DEF h
<1>6. /\ handled' \in Seq(Exc) /\ saved' \in Seq(MaybeExc) /\ active' \in MaybeExc
  BY <1>1, <1>3, <1>4, <1>5 DEF MaybeExc
<1>7. Keeps(Top, ExceptionState')
  <2>1. CASE Top.via = "native"
    <3>1. /\ Top.hbase <= Len(handled')
          /\ SubSeq(handled', 1, Top.hbase) = SubSeq(handled, 1, Top.hbase)
      BY <1>1, <1>4, <1>5, <2>1, PrefixAppend
    <3>2. /\ Top.sbase <= Len(saved')
          /\ SubSeq(saved', 1, Top.sbase) = SubSeq(saved, 1, Top.sbase)
      BY <1>3, <1>5, <2>1, PrefixAppend
    <3> QED BY <1>1, <1>2, <1>6, <3>1, <3>2, AboveBases
  <2>2. CASE Top.via # "native"
    BY <1>1, <1>2, <1>6, <2>2, AboveBases
  <2> QED BY <2>1, <2>2
<1>8. inside' \in [Frames -> Seq(Exc)] /\ HandlersOK'
  <2>1. inside \in [Frames -> Seq(Exc)] /\ inside[w] \in Seq(Exc)
    BY DEF IInv, TypeOK
  <2>2. Len(inside[w]) \in Nat /\ d - 1 \in 0 .. Len(inside[w])
    BY <1>5, <2>1
  <2>3. SubSeq(inside[w], 1, d - 1) \in Seq(Exc)
    BY <2>1, <2>2, PrefixType
  <2>4. Append(SubSeq(inside[w], 1, d - 1), signal.exc) \in Seq(Exc)
    BY <1>1, <2>3
  <2>5. inside' \in [Frames -> Seq(Exc)]
    BY <1>5, <2>1, <2>4
  <2>6. \A g \in Gen \ Guarded : g # w /\ g \in Frames
    BY <1>5, GeneratorsAssumption DEF Frames
  <2>7. \A g \in Gen \ Guarded : inside'[g] = <<>>
    BY <1>5, <2>1, <2>6 DEF IInv, HandlersOK
  <2> QED BY <2>5, <2>7 DEF HandlersOK
<1>9. signal' \in Outcome /\ signal'.kind = "none"
  BY <1>5 DEF Quiet, Outcome, MaybeExc, Frames
<1> QED BY <1>5, <1>6, <1>7, <1>8, <1>9, StaySound DEF IInv, TypeOK
\* An except body is left, and what it displaced is active again
\* (RaiseReRaise and EndExcept share this).
LEMMA HandlerPopped ==
    ASSUME IInv, Installed(Top), Top.via # "drive",
           handled' = IF Len(handled) > Top.hbase THEN Front(handled) ELSE handled,
           IF Len(saved) > Top.sbase
           THEN active' = Last(saved) /\ saved' = Front(saved)
           ELSE active' = NoExc /\ UNCHANGED saved
    PROVE  /\ handled' \in Seq(Exc) /\ saved' \in Seq(MaybeExc) /\ active' \in MaybeExc
           /\ Keeps(Top, ExceptionState')
<1>1. /\ Top.hbase \in Nat /\ Top.sbase \in Nat
      /\ Len(handled) \in Nat /\ Len(saved) \in Nat
      /\ handled \in Seq(Exc) /\ saved \in Seq(MaybeExc) /\ active \in MaybeExc
      /\ Top.via = "native" =>
           Top.hbase \in 0 .. Len(handled) /\ Top.sbase \in 0 .. Len(saved)
  BY BasesFacts
<1>2. /\ handled' \in Seq(Exc)
      /\ Top.via = "native" =>
           /\ Top.hbase <= Len(handled')
           /\ SubSeq(handled', 1, Top.hbase) = SubSeq(handled, 1, Top.hbase)
  <2>1. CASE Len(handled) > Top.hbase
    <3>1. handled' = Front(handled) /\ Top.hbase < Len(handled)
      BY <1>1, <2>1
    <3> QED BY <1>1, <3>1, PrefixFront
  <2>2. CASE ~ (Len(handled) > Top.hbase)
    BY <1>1, <2>2
  <2> QED BY <2>1, <2>2
<1>3. /\ saved' \in Seq(MaybeExc) /\ active' \in MaybeExc
      /\ Top.via = "native" =>
           /\ Top.sbase <= Len(saved')
           /\ SubSeq(saved', 1, Top.sbase) = SubSeq(saved, 1, Top.sbase)
  <2>1. CASE Len(saved) > Top.sbase
    <3>1. active' = Last(saved) /\ saved' = Front(saved) /\ Top.sbase < Len(saved)
      BY <1>1, <2>1
    <3> QED BY <1>1, <3>1, PrefixFront
  <2>2. CASE ~ (Len(saved) > Top.sbase)
    <3>1. active' = NoExc /\ saved' = saved
      BY <2>2
    <3> QED BY <1>1, <3>1 DEF MaybeExc
  <2> QED BY <2>1, <2>2
<1> QED BY <1>2, <1>3, AboveBases

\* A bare raise, in code that the dispatch loop does not drive.
LEMMA ReraiseSound ==
    ASSUME IInv, Reraises \cap Gen \subseteq Guarded, NEW w \in Frames, Reraise(w)
    PROVE  Sound
<1>1. signal.kind = "none" /\ Top.phase = "run" /\ Top.who = w /\ w \in Reraises
  BY DEF Reraise, Running
<1>2. Installed(Top) /\ Top.via # "drive"
  BY <1>1, TopFacts DEF Installed
<1>3. CASE active = NoExc
  BY <1>1, <1>3, NoExcIsNone, RaiseSound DEF Reraise
<1>4. CASE active # NoExc
  <2>1. /\ signal' = RaisedHere(active)
        /\ handled' = IF Len(handled) > Top.hbase THEN Front(handled) ELSE handled
        /\ IF Len(saved) > Top.sbase
           THEN active' = Last(saved) /\ saved' = Front(saved)
           ELSE active' = NoExc /\ UNCHANGED saved
        /\ UNCHANGED <<frame, cell, stack, inside>>
    BY <1>4 DEF Reraise
  <2>2. /\ handled' \in Seq(Exc) /\ saved' \in Seq(MaybeExc) /\ active' \in MaybeExc
        /\ Keeps(Top, ExceptionState')
    BY <1>2, <2>1, HandlerPopped
  <2>3. /\ signal' \in Outcome /\ signal'.exc # NoExc /\ Waiting(signal'.call) = "run"
    BY <1>4, <2>1 DEF IInv, TypeOK, RaisedHere, Outcome, Frames, Waiting
  <2>4. HandlersOK'
    BY <2>1 DEF IInv, HandlersOK
  <2> QED BY <1>1, <2>1, <2>2, <2>3, <2>4, StaySound DEF IInv, TypeOK
<1> QED BY <1>3, <1>4

\* An except body is left the normal way.
LEMMA EndExceptSound == ASSUME IInv, NEW w \in Frames, EndExcept(w) PROVE Sound
<1>1. /\ signal.kind = "none" /\ Top.phase = "run" /\ Top.who = w /\ inside[w] # <<>>
      /\ handled' = IF Len(handled) > Top.hbase THEN Front(handled) ELSE handled
      /\ IF Len(saved) > Top.sbase
         THEN active' = Last(saved) /\ saved' = Front(saved)
         ELSE active' = NoExc /\ UNCHANGED saved
      /\ inside' = [inside EXCEPT ![w] = Front(inside[w])]
      /\ UNCHANGED <<frame, cell, stack, signal>>
  BY DEF EndExcept, Running
<1>2. Installed(Top) /\ Top.via # "drive"
  BY <1>1, TopFacts DEF Installed, IInv, HandlersOK
<1>3. /\ handled' \in Seq(Exc) /\ saved' \in Seq(MaybeExc) /\ active' \in MaybeExc
      /\ Keeps(Top, ExceptionState')
  BY <1>1, <1>2, HandlerPopped
<1>4. inside \in [Frames -> Seq(Exc)] /\ inside[w] \in Seq(Exc)
  BY DEF IInv, TypeOK
<1>5. Front(inside[w]) \in Seq(Exc)
  <2>1. 0 < Len(inside[w])
    BY <1>1, <1>4
  <2> QED BY <1>4, <2>1, PrefixFront
<1>6. inside' \in [Frames -> Seq(Exc)]
  BY <1>1, <1>4, <1>5
<1>7. HandlersOK'
  <2>1. \A g \in Gen \ Guarded : g \in Frames /\ inside[g] = <<>> /\ g # w
    BY <1>1 DEF IInv, HandlersOK, Frames
  <2> QED BY <1>1, <1>4, <2>1 DEF HandlersOK
<1>8. signal' \in Outcome /\ signal'.kind = "none"
  BY <1>1 DEF IInv, TypeOK
<1> QED BY <1>1, <1>3, <1>6, <1>7, <1>8, StaySound DEF IInv, TypeOK

\* An exception leaves a generator.
LEMMA EscapeSound == ASSUME IInv, NEW g \in Gen, Escape(g) PROVE Sound
<1>1. Top.who = g /\ Installed(Top) /\ signal.exc \in Exc
  BY RaisedAtFacts DEF Escape
<1>2. Pep479(signal.exc) \in Exc
  BY <1>1, NoExcIsNone DEF Pep479
<1>3. Pep479(signal.exc) \in MaybeExc /\ Pep479(signal.exc) # NoExc
  BY <1>2, NoExcIsNone DEF MaybeExc
<1>4. Finish("raised", Pep479(signal.exc))
  BY DEF Escape
<1> QED BY <1>1, <1>3, <1>4, FinishSound

\* An exception leaves the top-level call.
LEMMA EscapeMainSound == ASSUME IInv, EscapeMain PROVE Sound
<1>1. Top.who = Main /\ Top.phase = "run" /\ Installed(Top)
  BY RaisedAtFacts DEF EscapeMain
<1>2. Top.via = "script"
  BY <1>1, TopFacts
<1>3. /\ handled' = <<>> /\ saved' = <<>> /\ active' = NoExc /\ signal' = Quiet
      /\ inside' = [inside EXCEPT ![Main] = <<>>] /\ UNCHANGED <<frame, cell, stack>>
  BY DEF EscapeMain
<1>4. <<>> \in Seq(Exc) /\ <<>> \in Seq(MaybeExc) /\ NoExc \in MaybeExc
  BY DEF MaybeExc
<1>5. handled' \in Seq(Exc) /\ saved' \in Seq(MaybeExc) /\ active' \in MaybeExc
  BY <1>3, <1>4
<1>6. Keeps(Top, ExceptionState')
  BY <1>1, <1>2, <1>5, AboveBases
<1>7. inside \in [Frames -> Seq(Exc)]
  BY DEF IInv, TypeOK
<1>8. inside' \in [Frames -> Seq(Exc)]
  BY <1>3, <1>4, <1>7
<1>9. HandlersOK'
  BY <1>3, <1>7, GeneratorsAssumption DEF IInv, HandlersOK, Frames
<1>10. signal' \in Outcome /\ signal'.kind = "none"
  BY <1>3 DEF Quiet, Outcome, MaybeExc, Frames
<1> QED BY <1>3, <1>5, <1>6, <1>8, <1>9, <1>10, StaySound DEF IInv, TypeOK

-----------------------------------------------------------------------------
(* What the code of a frame does *)

\* What is known where code runs.
LEMMA RunningFacts ==
    ASSUME IInv, NEW w, Running(w)
    PROVE  signal.kind = "none" /\ Top.phase = "run" /\ Top.who = w /\ Installed(Top)
BY DEF Running, Installed

\* next(), send(), throw() and close().
LEMMA CallsSound ==
    ASSUME IInv, NEW w \in Frames, NEW g \in Gen,
           \/ CallNext(w, g) \/ SendToFresh(w, g) \/ CallClose(w, g)
           \/ \E e \in Thrown : CallThrow(w, g, e)
    PROVE  Sound
<1>1. signal.kind = "none" /\ Top.phase = "run"
  BY RunningFacts DEF CallNext, SendToFresh, CallClose, CallThrow
<1>2. NoExc \in MaybeExc /\ "exit" \in MaybeExc
  BY NoExcIsNone DEF MaybeExc
<1>3. CASE CallNext(w, g)
  <2>1. \/ RaiseHere("fault") \/ RaiseHere("stop")
        \/ cell[g] = "frame" /\ Resume(g, "next", NoExc, Top)
    BY <1>3 DEF CallNext
  <2> QED BY <1>1, <1>2, <2>1, NoExcIsNone, RaiseSound, CallSound
<1>4. CASE SendToFresh(w, g)
  BY <1>1, <1>4, NoExcIsNone, RaiseSound DEF SendToFresh
<1>5. CASE CallClose(w, g)
  <2>1. RaiseHere("fault") \/ (cell[g] = "frame" /\ Resume(g, "close", "exit", Top))
    BY <1>5 DEF CallClose
  <2> QED BY <1>1, <1>2, <2>1, NoExcIsNone, RaiseSound, CallSound
<1>6. CASE \E e \in Thrown : CallThrow(w, g, e)
  <2>1. PICK e \in Thrown : CallThrow(w, g, e)
    BY <1>6
  <2>2. e \in Exc /\ e \in MaybeExc
    BY GeneratorsAssumption DEF MaybeExc
  <2>3. \/ RaiseHere("fault") \/ RaiseHere(e)
        \/ cell[g] = "frame" /\ Resume(g, "throw", e, Top)
    BY <2>1 DEF CallThrow
  <2> QED BY <1>1, <2>2, <2>3, NoExcIsNone, RaiseSound, CallSound
<1> QED BY <1>3, <1>4, <1>5, <1>6

\* A for loop asks for the next value.
LEMMA ForIterSound == ASSUME IInv, NEW w \in Frames, NEW g \in Gen, ForIter(w, g) PROVE Sound
<1>1. signal.kind = "none" /\ Top.phase = "run"
  BY RunningFacts DEF ForIter
<1>2. \/ RaiseHere("fault")
      \/ cell[g] = "frame" /\ g \notin Guarded /\ Drive(g)
      \/ cell[g] = "frame" /\ Resume(g, "for", NoExc, Top)
  BY DEF ForIter, Drivable
<1>3. NoExc \in MaybeExc
  BY DEF MaybeExc
<1> QED BY <1>1, <1>2, <1>3, NoExcIsNone, RaiseSound, DriveSound, CallSound

\* The body arrives at a YieldFrom.
LEMMA DelegateSound == ASSUME IInv, NEW g \in Gen, NEW s \in Gen, Delegate(g, s) PROVE Sound
<1>1. signal.kind = "none" /\ Top.who = g /\ Installed(Top)
  BY RunningFacts DEF Delegate
<1>2. /\ frame' = [frame EXCEPT ![g].sub = s] /\ SetTop([Top EXCEPT !.phase = "advance"])
      /\ UNCHANGED <<cell, handled, saved, active, inside, signal>>
  BY DEF Delegate
<1>3. frame \in [Gen -> GeneratorFrame]
  BY DEF IInv, TypeOK
<1> DEFINE f1 == [frame[g] EXCEPT !.sub = s]
<1>4. f1 \in GeneratorFrame /\ f1.sub = s /\ f1.pc = frame[g].pc
  BY <1>3 DEF GeneratorFrame, Frames
<1>5. frame' = [frame EXCEPT ![g] = f1]
  BY <1>2, <1>3 DEF GeneratorFrame
<1> HIDE DEF f1
<1>6. /\ frame' \in [Gen -> GeneratorFrame] /\ frame'[g].sub \in Gen
      /\ \A h \in Gen : /\ frame[h].sub \in Gen => frame'[h].sub \in Gen
                        /\ frame'[h].pc = frame[h].pc
  BY <1>3, <1>4, <1>5
<1>7. signal' \in Outcome /\ signal'.kind = "none"
  BY <1>1, <1>2 DEF IInv, TypeOK
<1> QED BY <1>1, <1>2, <1>6, <1>7, PhaseSound

\* Every step of the specification keeps the invariant and, where an
\* activation ends, gives its resumer its exception state back.
LEMMA NextSound ==
    ASSUME IInv, Reraises \cap Gen \subseteq Guarded, [Next]_vars
    PROVE  IInv' /\ [Len(stack') < Len(stack) => ExceptionState' = Top.seen]_vars
<1>1. ASSUME Next PROVE Sound
  <2>1. CASE Install
    BY <2>1, InstallSound
  <2>2. CASE ForwardThrow
    BY <2>2, ForwardThrowSound
  <2>3. CASE AdvanceSub
    BY <2>3, AdvanceSubSound
  <2>4. CASE Deliver
    <3>1. signal.kind # "none"
      BY <2>4 DEF Deliver
    <3>2. CASE DeliverCall \/ DeliverClose \/ DeliverFor
      BY <3>1, <3>2, DeliverCallSound
    <3>3. CASE DeliverFrom
      BY <3>1, <3>3, DeliverFromSound
    <3>4. CASE DeliverForward
      BY <3>1, <3>4, DeliverForwardSound
    <3> QED BY <2>4, <3>2, <3>3, <3>4 DEF Deliver
  <2>5. CASE EscapeMain
    BY <2>5, EscapeMainSound
  <2>6. ASSUME NEW g \in Gen,
               Yield(g) \/ Return(g) \/ Escape(g) \/ \E s \in Gen : Delegate(g, s)
        PROVE  Sound
    <3>1. CASE Yield(g)
      <4>1. Top.who = g /\ Installed(Top) /\ Suspend("yield")
        BY <3>1, RunningFacts DEF Yield
      <4> QED BY <4>1, SuspendSound
    <3>2. CASE Return(g)
      <4>1. Top.who = g /\ Installed(Top) /\ Finish("stopped", NoExc)
        BY <3>2, RunningFacts DEF Return
      <4>2. NoExc \in MaybeExc
        BY DEF MaybeExc
      <4> QED BY <4>1, <4>2, FinishSound
    <3>3. CASE Escape(g)
      BY <3>3, EscapeSound
    <3>4. CASE \E s \in Gen : Delegate(g, s)
      BY <3>4, DelegateSound
    <3> QED BY <2>6, <3>1, <3>2, <3>3, <3>4
  <2>7. ASSUME NEW w \in Frames,
               \/ Reraise(w) \/ EndExcept(w)
               \/ \E d \in 1 .. MaxNest[w] : Catch(w, d)
               \/ \E e \in Errors \cup {"stop"} : Raise(w, e)
        PROVE  Sound
    <3>1. CASE Reraise(w)
      BY <3>1, ReraiseSound
    <3>2. CASE EndExcept(w)
      BY <3>2, EndExceptSound
    <3>3. CASE \E d \in 1 .. MaxNest[w] : Catch(w, d)
      BY <3>3, CatchSound
    <3>4. ASSUME NEW e \in Errors \cup {"stop"}, Raise(w, e) PROVE Sound
      <4>1. e \in Exc /\ Top.phase = "run" /\ RaiseHere(e)
        BY <3>4, RunningFacts DEF Raise, Exc
      <4> QED BY <4>1, RaiseSound
    <3> QED BY <2>7, <3>1, <3>2, <3>3, <3>4
  <2>8. ASSUME NEW w \in Frames, NEW g \in Gen,
               \/ CallNext(w, g) \/ SendToFresh(w, g) \/ CallClose(w, g) \/ ForIter(w, g)
               \/ \E e \in Thrown : CallThrow(w, g, e)
        PROVE  Sound
    BY <2>8, CallsSound, ForIterSound
  <2> QED BY <1>1, <2>1, <2>2, <2>3, <2>4, <2>5, <2>6, <2>7, <2>8 DEF Next
<1>2. CASE UNCHANGED vars
  <2>1. /\ frame' = frame /\ cell' = cell /\ stack' = stack /\ handled' = handled
        /\ saved' = saved /\ active' = active /\ inside' = inside /\ signal' = signal
    BY <1>2 DEF vars
  <2>2. ExceptionState' = ExceptionState /\ Top' = Top
    BY <2>1 DEF ExceptionState, Top
  <2>3. TypeOK' /\ Shape' /\ Activated' /\ Kept' /\ SignalOK' /\ DelegateOK' /\ HandlersOK'
    BY <2>1, <2>2
       DEF IInv, TypeOK, Shape, Activated, Kept, SignalOK, DelegateOK, HandlersOK
  <2> QED BY <1>2, <2>3 DEF IInv
<1> QED BY <1>1, <1>2 DEF Sound

\* It holds where the program starts.
LEMMA InitIInv == ASSUME Init PROVE IInv
<1>1. /\ frame = [g \in Gen |-> Fresh] /\ cell = [g \in Gen |-> "frame"]
      /\ stack = <<Bottom>> /\ handled = <<>> /\ saved = <<>> /\ active = NoExc
      /\ inside = [w \in Frames |-> <<>>] /\ signal = Quiet
  BY DEF Init
<1>2. <<>> \in Seq(Exc) /\ <<>> \in Seq(MaybeExc) /\ NoExc \in MaybeExc
  BY DEF MaybeExc
<1>3. Fresh \in GeneratorFrame /\ Fresh.pc = "start"
  BY <1>2 DEF Fresh, GeneratorFrame, Frames
<1>4. /\ Bottom \in Activation /\ Bottom.who = Main /\ Bottom.via = "script"
      /\ Bottom.phase = "run" /\ Bottom.hbase = 0 /\ Bottom.sbase = 0
  BY <1>2 DEF Bottom, Activation, Frames, Call
<1>5. Quiet \in Outcome /\ Quiet.kind = "none"
  BY <1>2 DEF Quiet, Outcome, Frames
<1>6. stack \in Seq(Activation) /\ Len(stack) = 1 /\ stack[1] = Bottom /\ stack # <<>>
  BY <1>1, <1>4
<1>7. TypeOK
  BY <1>1, <1>2, <1>3, <1>5, <1>6 DEF TypeOK
<1>8. Shape
  BY <1>4, <1>6 DEF Shape, ShapeOf
<1>9. Activated
  BY <1>1, <1>6 DEF Activated, ActivatedOf
<1>10. Kept
  <2>1. Keeps(Bottom, ExceptionState)
    BY <1>4 DEF Keeps
  <2> QED BY <1>6, <2>1 DEF Kept, KeptOf
<1>11. SignalOK
  BY <1>1, <1>5 DEF SignalOK
<1>12. DelegateOK
  BY <1>1, <1>3, <1>6 DEF DelegateOK
<1>13. HandlersOK
  BY <1>1 DEF HandlersOK, Frames
<1> QED BY <1>7, <1>8, <1>9, <1>10, <1>11, <1>12, <1>13 DEF IInv

-----------------------------------------------------------------------------
(* The theorems.  All assume that code without exception handlers has no   *)
(* bare raise either: the dispatch loop would drive it and pop the         *)
(* consumer's handler.                                                     *)

\* Every variable keeps its type, whatever the bodies do.
THEOREM TypeCorrect ==
    ASSUME Reraises \cap Gen \subseteq Guarded
    PROVE  Spec => []TypeOK
<1>1. Init => IInv
  BY InitIInv
<1>2. IInv /\ [Next]_vars => IInv'
  BY NextSound
<1>3. IInv => TypeOK
  BY DEF IInv
<1> QED BY <1>1, <1>2, <1>3, PTL DEF Spec

\* The invariant knows each generator's only activation.
LEMMA OneActivationHolds == IInv => OneActivation
<1> SUFFICES ASSUME IInv, NEW g \in Gen
             PROVE  IF cell[g] = "frame" THEN Activations(g) = {}
                    ELSE \E i \in DOMAIN stack :
                           /\ Activations(g) = {i}
                           /\ stack[i].via = IF cell[g] = "borrowed" THEN "native" ELSE "drive"
  BY DEF OneActivation
<1> DEFINE n == Len(stack)
<1>1. stack \in Seq(Activation) /\ n \in Nat /\ DOMAIN stack = 1 .. n
  BY TopFacts
<1>2. \A i \in 1 .. n : stack[i].who = g =>
         /\ i \in 2 .. n
         /\ cell[g] = IF stack[i].via = "native" THEN "borrowed" ELSE "driving"
         /\ stack[i].via \in {"native", "drive"}
  <2> SUFFICES ASSUME NEW i \in 1 .. n, stack[i].who = g
               PROVE  /\ i \in 2 .. n
                      /\ cell[g] = IF stack[i].via = "native" THEN "borrowed" ELSE "driving"
                      /\ stack[i].via \in {"native", "drive"}
    OBVIOUS
  <2>1. i # 1
    BY GeneratorsAssumption DEF IInv, Shape, ShapeOf
  <2>2. i \in 2 .. n
    BY <1>1, <2>1
  <2>3. stack[i].via # "script" /\ stack[i] \in Activation
    BY <1>1, <2>2 DEF IInv, Shape, ShapeOf
  <2>4. cell[g] = IF stack[i].via = "native" THEN "borrowed" ELSE "driving"
    BY <2>2 DEF IInv, Activated, ActivatedOf
  <2> QED BY <2>2, <2>3, <2>4 DEF Activation
<1>3. CASE cell[g] = "frame"
  BY <1>1, <1>2, <1>3 DEF Activations
<1>4. CASE cell[g] # "frame"
  <2>1. PICK i \in 2 .. n : stack[i].who = g
    BY <1>4 DEF IInv, Activated, ActivatedOf
  <2>2. i \in 1 .. n
    BY <1>1
  <2>3. Activations(g) = {i}
    BY <1>1, <2>1, <2>2 DEF Activations, IInv, Activated, ActivatedOf
  <2>4. stack[i].via = IF cell[g] = "borrowed" THEN "native" ELSE "drive"
    BY <1>2, <2>1, <2>2
  <2> QED BY <1>1, <1>4, <2>2, <2>3, <2>4
<1> QED BY <1>3, <1>4

\* A generator body is never active twice, through next, throw, close, for
\* loops, yield from and forwarded throws in any nesting, and its cell tells
\* whether and how it is active: the "already executing" guards suffice.
THEOREM ExclusiveExecution ==
    ASSUME Reraises \cap Gen \subseteq Guarded
    PROVE  Spec => []OneActivation
<1>1. Init => IInv
  BY InitIInv
<1>2. IInv /\ [Next]_vars => IInv'
  BY NextSound
<1> QED BY <1>1, <1>2, OneActivationHolds, PTL DEF Spec

\* Resuming a generator gives the resumer its exception state back, for any
\* number of generators, handlers and nested resumptions.
THEOREM ResumerUndisturbed ==
    ASSUME Reraises \cap Gen \subseteq Guarded
    PROVE  Spec => CallerUndisturbed
<1>1. Init => IInv
  BY InitIInv
<1>2. IInv /\ [Next]_vars => IInv'
  BY NextSound
<1>3. IInv /\ [Next]_vars => [Len(stack') < Len(stack) => ExceptionState' = Top.seen]_vars
  BY NextSound
<1> QED BY <1>1, <1>2, <1>3, PTL DEF Spec, CallerUndisturbed

-----------------------------------------------------------------------------
(* What a frame takes with it when it is suspended, and what its outcome     *)
(* means.  The invariant that knows this is kept beside IInv, which it uses. *)

\* The frame has no exception state of its own.
Clean(f) == f.handled = <<>> /\ f.saved = <<>> /\ f.active = NoExc

\* A part of handled_exc_stack that one frame may own: nothing, or the active
\* exception e, caught by one of the except bodies around the frame's pc.
Slice(h, e, bodies) ==
    \/ h = <<>>
    \/ h = <<e>> /\ \E i \in DOMAIN bodies : bodies[i] = e

\* The part of h above a base is such a slice.
Above(h, base, e, bodies) ==
    \/ Len(h) = base
    \/ /\ Len(h) = base + 1 /\ h[Len(h)] = e
       /\ \E i \in DOMAIN bodies : bodies[i] = e

\* An activation that has entered its frame f took the frame's exception
\* state over, and in state s a native one owns a slice above its base.
Owns(a, s, f, bodies) ==
    Installed(a) =>
      /\ Clean(f)
      /\ a.via = "native" => Above(s.handled, a.hbase, s.active, bodies)

\* So it is for every activation, in the exception state it left or has now.
OwnedOf(st, s, fr, ins) ==
    \A i \in 2 .. Len(st) :
        Owns(st[i], IF i = Len(st) THEN s ELSE st[i + 1].seen,
             fr[st[i].who], ins[st[i].who])

\* What a frame keeps while it is suspended is such a slice.
SlicesOf(fr, ins) == \A g \in Gen : Slice(fr[g].handled, fr[g].active, ins[g])

\* The same, of the current state.
Owned == OwnedOf(stack, ExceptionState, frame, inside)
Slices == SlicesOf(frame, inside)

\* The outcome of an activation that did not yield comes from a frame that is
\* finished, and is no StopIteration that escaped it.
OutcomeOK ==
    signal.kind # "none" /\ signal.call \in Call =>
      /\ signal.gen \in Gen
      /\ signal.kind # "yielded" => frame[signal.gen].done /\ signal.exc # "stop"

\* The second inductive invariant, on top of the first.
SInv == Owned /\ Slices /\ OutcomeOK

\* g has an activation on the stack.
Active(st, g) == \E i \in 1 .. Len(st) : st[i].who = g

\* No finished frame is entered, and none becomes unfinished.
DoneStep ==
    \A g \in Gen : frame[g].done =>
        frame'[g].done /\ (Active(stack', g) => Active(stack, g))

\* What every step is shown to do.
SliceStep == SInv' /\ DoneStep

\* Of the frames and the except bodies, a step changes no more than those of
\* w, for which a slice remains.
FrameStep(w) ==
    /\ \A g \in Gen : frame[g].done => frame'[g].done
    /\ \A g \in Gen : g # w =>
         /\ frame'[g].handled = frame[g].handled /\ frame'[g].saved = frame[g].saved
         /\ frame'[g].active = frame[g].active /\ inside'[g] = inside[g]
    /\ w \in Gen => Slice(frame'[w].handled, frame'[w].active, inside'[w])

\* What every frame keeps after such a step.
LEMMA SlicesKept ==
    ASSUME Slices, NEW w, FrameStep(w)
    PROVE  Slices'
BY DEF Slices, SlicesOf, FrameStep

\* An activation below the one on top owns what it did.
LEMMA OwnsBelow ==
    ASSUME NEW w, FrameStep(w), NEW a, a.who \in Gen, a.who # w, NEW s,
           Owns(a, s, frame[a.who], inside[a.who])
    PROVE  Owns(a, s, frame'[a.who], inside'[a.who])
BY DEF FrameStep, Owns, Clean

\* The activations below the top, as the invariants know them.
LEMMA BelowFacts ==
    ASSUME IInv, NEW i \in 2 .. Len(stack)
    PROVE  /\ stack[i].who \in Gen /\ Len(stack) \in Nat \ {0}
           /\ i # Len(stack) => stack[i].who # Top.who /\ i + 1 \in 2 .. Len(stack)
<1>1. stack \in Seq(Activation) /\ Len(stack) \in Nat \ {0}
  BY TopFacts
<1>2. i \in 1 .. Len(stack) /\ Len(stack) \in 1 .. Len(stack)
  BY <1>1
<1>3. i # Len(stack) => i + 1 \in 2 .. Len(stack)
  BY <1>1
<1> QED BY <1>1, <1>2, <1>3 DEF IInv, Shape, ShapeOf, Activated, ActivatedOf, Top

\* The activation on top goes on.
LEMMA TopStep ==
    ASSUME IInv, SInv, NEW a, SetTop(a),
           a.who = Top.who, a.seen = Top.seen, FrameStep(Top.who),
           Top.who \in Gen =>
             Owns(a, ExceptionState', frame'[Top.who], inside'[Top.who]),
           OutcomeOK'
    PROVE  SliceStep
<1> DEFINE n == Len(stack)
<1>1. /\ stack \in Seq(Activation) /\ n \in Nat \ {0} /\ Top = stack[n]
  BY TopFacts DEF Top
<1>2. /\ Len(stack') = n /\ stack'[n] = a
      /\ \A i \in 1 .. n : i # n => stack'[i] = stack[i]
  BY <1>1 DEF SetTop
<1>3. ASSUME NEW i \in 2 .. n
      PROVE  Owns(stack'[i], IF i = n THEN ExceptionState' ELSE stack'[i + 1].seen,
                  frame'[stack'[i].who], inside'[stack'[i].who])
  <2>1. CASE i = n
    <3>1. Top.who \in Gen
      BY <1>1, <2>1, BelowFacts
    <3> QED BY <1>2, <2>1, <3>1
  <2>2. CASE i # n
    <3>1. /\ stack[i].who \in Gen /\ stack[i].who # Top.who /\ i + 1 \in 2 .. n
          /\ i \in 1 .. n /\ i + 1 \in 1 .. n
      BY <1>1, <2>2, BelowFacts
    <3>2. Owns(stack[i], stack[i + 1].seen, frame[stack[i].who], inside[stack[i].who])
      BY <2>2 DEF SInv, Owned, OwnedOf
    <3>3. stack'[i] = stack[i] /\ stack'[i + 1].seen = stack[i + 1].seen
      BY <1>1, <1>2, <2>2, <3>1
    <3> QED BY <2>2, <3>1, <3>2, <3>3, OwnsBelow
  <2> QED BY <2>1, <2>2
<1>4. Owned'
  BY <1>2, <1>3 DEF Owned, OwnedOf
<1>5. Slices'
  BY SlicesKept DEF SInv
<1>6. DoneStep
  <2>1. \A i \in 1 .. n : stack'[i].who = stack[i].who
    BY <1>1, <1>2
  <2> QED BY <1>2, <2>1 DEF DoneStep, FrameStep, Active
<1> QED BY <1>4, <1>5, <1>6 DEF SliceStep, SInv

\* An activation a of an unfinished generator is pushed; the one below is the
\* one that was on top but for its phase.
LEMMA PushStep ==
    ASSUME IInv, SInv, NEW a, NEW below, NEW g \in Gen, ~ frame[g].done,
           stack' = Append([stack EXCEPT ![Len(stack)] = below], a),
           a.who = g, a.seen = ExceptionState,
           below.who = Top.who, below.seen = Top.seen, below.via = Top.via,
           below.hbase = Top.hbase, Installed(below) => Installed(Top),
           below \in Activation, a \in Activation,
           Installed(a) => a.via = "drive" /\ Clean(frame[g]),
           UNCHANGED <<frame, inside, handled, saved, active>>, OutcomeOK'
    PROVE  SliceStep
<1> DEFINE n == Len(stack)
<1>1. /\ stack \in Seq(Activation) /\ n \in Nat \ {0} /\ Top = stack[n]
  BY TopFacts DEF Top
<1>2. /\ Len(stack') = n + 1 /\ stack'[n] = below /\ stack'[n + 1] = a
      /\ \A i \in 1 .. n : i # n => stack'[i] = stack[i]
  BY <1>1
<1>3. ASSUME NEW i \in 2 .. n + 1
      PROVE  Owns(stack'[i], IF i = n + 1 THEN ExceptionState' ELSE stack'[i + 1].seen,
                  frame'[stack'[i].who], inside'[stack'[i].who])
  <2>1. CASE i = n + 1
    BY <1>2, <2>1 DEF Owns
  <2>2. CASE i = n
    <3>1. n \in 2 .. n /\ n # n + 1
      BY <1>1, <2>2
    <3>2. Owns(Top, ExceptionState, frame[Top.who], inside[Top.who])
      BY <1>1, <3>1 DEF SInv, Owned, OwnedOf
    <3>3. Owns(below, ExceptionState, frame[Top.who], inside[Top.who])
      BY <3>2 DEF Owns
    <3> QED BY <1>2, <2>2, <3>1, <3>3
  <2>3. CASE i # n /\ i # n + 1
    <3>1. i \in 2 .. n /\ i \in 1 .. n /\ i + 1 \in 1 .. n
      BY <1>1, <2>3
    <3>2. Owns(stack[i], stack[i + 1].seen, frame[stack[i].who], inside[stack[i].who])
      BY <2>3, <3>1 DEF SInv, Owned, OwnedOf
    <3>3. stack'[i] = stack[i] /\ stack'[i + 1].seen = stack[i + 1].seen
      BY <1>1, <1>2, <2>3, <3>1
    <3> QED BY <2>3, <3>2, <3>3
  <2> QED BY <2>1, <2>2, <2>3
<1>4. Owned'
  BY <1>2, <1>3 DEF Owned, OwnedOf
<1>5. Slices'
  BY DEF SInv, Slices
<1>6. DoneStep
  <2>1. \A i \in 1 .. n : stack'[i].who = stack[i].who
    BY <1>1, <1>2
  <2>2. ASSUME NEW h \in Gen, frame[h].done, Active(stack', h)
        PROVE  Active(stack, h)
    <3>1. PICK i \in 1 .. n + 1 : stack'[i].who = h
      BY <1>2, <2>2 DEF Active
    <3>2. i # n + 1
      BY <1>2, <2>2, <3>1
    <3>3. i \in 1 .. n
      BY <1>1, <3>2
    <3> QED BY <2>1, <3>1, <3>3 DEF Active
  <2> QED BY <2>2 DEF DoneStep
<1> QED BY <1>4, <1>5, <1>6 DEF SliceStep, SInv

\* The activation on top ends.
LEMMA PopStep ==
    ASSUME IInv, SInv, Top.who \in Gen, stack' = Front(stack),
           ExceptionState' = Top.seen, FrameStep(Top.who), OutcomeOK'
    PROVE  SliceStep
<1> DEFINE n == Len(stack)
<1>1. /\ stack \in Seq(Activation) /\ n \in Nat \ {0} /\ Top = stack[n]
      /\ n \in 2 .. n
  BY TopFacts DEF Top
<1>2. /\ Len(stack') = n - 1
      /\ \A i \in 1 .. n - 1 : stack'[i] = stack[i]
  <2>1. n - 1 \in 0 .. n
    BY <1>1
  <2> QED BY <1>1, <2>1, PrefixType DEF Front
<1>3. ASSUME NEW i \in 2 .. n - 1
      PROVE  Owns(stack'[i], IF i = n - 1 THEN ExceptionState' ELSE stack'[i + 1].seen,
                  frame'[stack'[i].who], inside'[stack'[i].who])
  <2>1. /\ i \in 2 .. n /\ i # n /\ i \in 1 .. n - 1
        /\ i # n - 1 => i + 1 \in 1 .. n - 1
        /\ i = n - 1 => i + 1 = n
    BY <1>1
  <2>2. stack[i].who \in Gen /\ stack[i].who # Top.who
    BY <2>1, BelowFacts
  <2>3. Owns(stack[i], stack[i + 1].seen, frame[stack[i].who], inside[stack[i].who])
    BY <2>1 DEF SInv, Owned, OwnedOf
  <2>4. Owns(stack[i], stack[i + 1].seen, frame'[stack[i].who], inside'[stack[i].who])
    BY <2>2, <2>3, OwnsBelow
  <2>5. /\ stack'[i] = stack[i]
        /\ i # n - 1 => stack'[i + 1] = stack[i + 1]
        /\ i = n - 1 => stack[i + 1] = Top
    BY <1>1, <1>2, <2>1
  <2>6. CASE i = n - 1
    BY <2>4, <2>5, <2>6
  <2>7. CASE i # n - 1
    BY <2>4, <2>5, <2>7
  <2> QED BY <2>6, <2>7
<1>4. Owned'
  BY <1>2, <1>3 DEF Owned, OwnedOf
<1>5. Slices'
  BY SlicesKept DEF SInv
<1>6. DoneStep
  <2>1. \A i \in 1 .. n - 1 : i \in 1 .. n
    BY <1>1
  <2> QED BY <1>2, <2>1 DEF DoneStep, FrameStep, Active
<1> QED BY <1>4, <1>5, <1>6 DEF SliceStep, SInv

-----------------------------------------------------------------------------
(* The actions once more                                                     *)

\* Nobody's exception state changes, and no frame becomes unfinished.
Untouched ==
    /\ \A g \in Gen : /\ frame[g].done => frame'[g].done
                      /\ frame'[g].handled = frame[g].handled
                      /\ frame'[g].saved = frame[g].saved
                      /\ frame'[g].active = frame[g].active
    /\ inside' = inside

\* What the activation on top owns.
LEMMA OwnsTop ==
    ASSUME IInv, SInv, Top.who \in Gen
    PROVE  /\ Owns(Top, ExceptionState, frame[Top.who], inside[Top.who])
           /\ Slice(frame[Top.who].handled, frame[Top.who].active, inside[Top.who])
<1>1. Len(stack) \in 2 .. Len(stack)
  BY TopFacts
<1> QED BY <1>1 DEF SInv, Owned, OwnedOf, Slices, SlicesOf, Top

\* A signal that stays inside a frame is no outcome.
LEMMA NoOutcome ==
    ASSUME signal'.kind = "none" \/ \E e : signal' = RaisedHere(e) \/ signal' = RaisedOnEntry(e)
    PROVE  OutcomeOK'
<1>1. \A e : RaisedHere(e).call = "here" /\ RaisedOnEntry(e).call = "entry"
  BY DEF RaisedHere, RaisedOnEntry
<1>2. "here" \notin Call /\ "entry" \notin Call
  BY DEF Call
<1> QED BY <1>1, <1>2 DEF OutcomeOK

\* An untouched frame is a frame step of anyone.
LEMMA UntouchedFrame ==
    ASSUME Slices, Untouched, NEW w
    PROVE  FrameStep(w)
<1>1. w \in Gen => Slice(frame'[w].handled, frame'[w].active, inside'[w])
  BY DEF Slices, SlicesOf, Untouched
<1> QED BY <1>1 DEF Untouched, FrameStep

\* The activation on top goes to another phase.
LEMMA PhaseStep ==
    ASSUME IInv, SInv, NEW a, SetTop(a), a.who = Top.who, a.seen = Top.seen,
           a.via = Top.via, a.hbase = Top.hbase, Installed(a) => Installed(Top),
           ExceptionState' = ExceptionState, Untouched, OutcomeOK'
    PROVE  SliceStep
<1>1. FrameStep(Top.who)
  BY UntouchedFrame DEF SInv
<1>2. ASSUME Top.who \in Gen
      PROVE  Owns(a, ExceptionState', frame'[Top.who], inside'[Top.who])
  <2>1. Owns(Top, ExceptionState, frame[Top.who], inside[Top.who])
    BY <1>2, OwnsTop
  <2> QED BY <1>2, <2>1 DEF Owns, Clean, Untouched
<1> QED BY <1>1, <1>2, TopStep

\* Or stays where it is.
LEMMA StayStep ==
    ASSUME IInv, SInv, UNCHANGED <<stack, handled, saved, active>>, Untouched, OutcomeOK'
    PROVE  SliceStep
<1>1. stack \in Seq(Activation) /\ Len(stack) \in Nat \ {0} /\ Top \in Activation
  BY TopFacts
<1>2. SetTop(Top) /\ ExceptionState' = ExceptionState
  BY <1>1 DEF SetTop, Top, ExceptionState
<1> QED BY <1>2, PhaseStep

\* The running code raises.
LEMMA RaiseStep ==
    ASSUME IInv, SInv, NEW e, RaiseHere(e)
    PROVE  SliceStep
<1>1. Untouched /\ OutcomeOK'
  BY NoOutcome DEF RaiseHere, Untouched
<1> QED BY <1>1, StayStep DEF RaiseHere

\* resume_generator_with_exc is entered.
LEMMA ResumeStep ==
    ASSUME IInv, SInv, NEW g \in Gen, ~ frame[g].done, NEW call \in Call, NEW inj \in MaybeExc,
           NEW below \in Activation, below.who = Top.who, below.seen = Top.seen,
           below.via = Top.via, below.hbase = Top.hbase,
           Installed(below) => Installed(Top),
           signal.kind = "none", Resume(g, call, inj, below)
    PROVE  SliceStep
<1> DEFINE a == [who |-> g, via |-> "native", call |-> call,
                 phase |-> "resume", inject |-> inj,
                 hbase |-> 0, sbase |-> 0, prev |-> NoExc, seen |-> ExceptionState]
<1>1. /\ stack' = Append([stack EXCEPT ![Len(stack)] = below], a)
      /\ UNCHANGED <<frame, handled, saved, active, inside, signal>>
  BY DEF Resume
<1>2. ExceptionState \in [handled : Seq(Exc), saved : Seq(MaybeExc), active : MaybeExc]
  BY DEF IInv, TypeOK, ExceptionState
<1>3. /\ a \in Activation /\ a.who = g /\ a.seen = ExceptionState /\ ~ Installed(a)
  BY <1>2 DEF Activation, MaybeExc, Frames, Installed
<1>4. OutcomeOK'
  BY <1>1, NoOutcome
<1> HIDE DEF a
<1> QED BY <1>1, <1>3, <1>4, PushStep

\* A frame is left, with a slice of its own.
LEMMA LeaveStep ==
    ASSUME IInv, SInv, Sound, Top.who \in Gen, NEW f \in GeneratorFrame, NEW kind, NEW e,
           frame[Top.who].done => f.done,
           Slice(f.handled, f.active, inside'[Top.who]),
           \A g \in Gen : g # Top.who => inside'[g] = inside[g],
           kind # "yielded" => f.done /\ e # "stop",
           Leave(f, kind, e)
    PROVE  SliceStep
<1> DEFINE w == Top.who
<1>1. /\ stack' = Front(stack) /\ frame' = [frame EXCEPT ![w] = f]
      /\ signal' = [kind |-> kind, exc |-> e, call |-> Top.call, gen |-> w]
  BY DEF Leave
<1>2. frame \in [Gen -> GeneratorFrame]
  BY DEF IInv, TypeOK
<1>3. frame'[w] = f /\ \A g \in Gen : g # w => frame'[g] = frame[g]
  BY <1>1, <1>2
<1>4. FrameStep(w)
  BY <1>3 DEF FrameStep
<1>5. OutcomeOK'
  <2>1. signal'.gen = w /\ signal'.kind = kind /\ signal'.exc = e
    BY <1>1
  <2> QED BY <1>3, <2>1 DEF OutcomeOK
<1>6. ExceptionState' = Top.seen
  <2>1. stack \in Seq(Activation) /\ Len(stack) \in Nat \ {0}
    BY TopFacts
  <2>2. 0 < Len(stack) /\ 0 \in Nat
    BY <2>1
  <2>3. Len(Front(stack)) = Len(stack) - 1
    BY <2>1, <2>2, PrefixFront
  <2> QED BY <1>1, <2>1, <2>3 DEF Sound
<1> QED BY <1>1, <1>4, <1>5, <1>6, PopStep

\* A sequence cut at a base.
LEMMA CutAbove ==
    ASSUME NEW h \in Seq(Exc), NEW base \in Nat, NEW e, NEW bodies,
           Above(h, base, e, bodies)
    PROVE  Slice(SubSeq(h, base + 1, Len(h)), e, bodies)
<1>1. CASE Len(h) = base
  BY <1>1 DEF Slice
<1>2. CASE Len(h) # base
  <2>1. /\ Len(h) = base + 1 /\ h[Len(h)] = e
        /\ \E i \in DOMAIN bodies : bodies[i] = e
    BY <1>2 DEF Above
  <2>2. SubSeq(h, base + 1, Len(h)) = <<e>>
    <3> DEFINE t == SubSeq(h, base + 1, base + 1)
    <3>1. t \in Seq(Exc) /\ Len(t) = 1 /\ t[1] = h[base + 1] /\ e \in Exc
      BY <2>1
    <3> HIDE DEF t
    <3>2. t = <<e>>
      BY <2>1, <3>1
    <3> QED BY <2>1, <3>2 DEF t
  <2> QED BY <2>1, <2>2 DEF Slice
<1> QED BY <1>1, <1>2

\* Insn::Yield and a YieldFrom that passes a value on.
LEMMA SuspendStep ==
    ASSUME IInv, SInv, Sound, Top.who \in Gen, Installed(Top), NEW pc \in {"yield", "from"},
           Suspend(pc)
    PROVE  SliceStep
<1> DEFINE w == Top.who
           f0 == [frame[w] EXCEPT !.pc = pc]
           f1 == [f0 EXCEPT
                    !.handled = SubSeq(handled, Top.hbase + 1, Len(handled)),
                    !.saved = SubSeq(saved, Top.sbase + 1, Len(saved)),
                    !.active = active]
<1>1. /\ Top.hbase \in Nat /\ Top.sbase \in Nat
      /\ handled \in Seq(Exc) /\ saved \in Seq(MaybeExc) /\ active \in MaybeExc
  BY BasesFacts
<1>2. frame[w] \in GeneratorFrame
  BY DEF IInv, TypeOK
<1>3. /\ SubSeq(handled, Top.hbase + 1, Len(handled)) \in Seq(Exc)
      /\ SubSeq(saved, Top.sbase + 1, Len(saved)) \in Seq(MaybeExc)
  BY <1>1, SliceType
<1>4. /\ f0 \in GeneratorFrame /\ f0.done = frame[w].done
      /\ f0.handled = frame[w].handled /\ f0.active = frame[w].active
      /\ f1 \in GeneratorFrame /\ f1.done = frame[w].done
      /\ f1.handled = SubSeq(handled, Top.hbase + 1, Len(handled)) /\ f1.active = active
  BY <1>1, <1>2, <1>3 DEF GeneratorFrame
<1>5. UNCHANGED inside /\ Leave(IF Top.via = "native" THEN f1 ELSE f0, "yielded", NoExc)
  BY DEF Suspend
<1>6. /\ Owns(Top, ExceptionState, frame[w], inside[w])
      /\ Slice(frame[w].handled, frame[w].active, inside[w])
  BY OwnsTop
<1>7. CASE Top.via = "native"
  <2>1. Above(handled, Top.hbase, active, inside[w])
    BY <1>6, <1>7 DEF Owns, ExceptionState
  <2>2. Slice(f1.handled, f1.active, inside[w])
    BY <1>1, <1>4, <2>1, CutAbove
  <2>3. Leave(f1, "yielded", NoExc)
    BY <1>5, <1>7
  <2> HIDE DEF f0, f1
  <2> QED BY <1>4, <1>5, <2>2, <2>3, LeaveStep
<1>8. CASE Top.via # "native"
  <2>1. Leave(f0, "yielded", NoExc) /\ Slice(f0.handled, f0.active, inside[w])
    BY <1>4, <1>5, <1>6, <1>8
  <2> HIDE DEF f0, f1
  <2> QED BY <1>4, <1>5, <2>1, LeaveStep
<1> QED BY <1>7, <1>8

\* A frame returns, or an exception other than StopIteration leaves it.
LEMMA FinishStep ==
    ASSUME IInv, SInv, Sound, Top.who \in Gen, Installed(Top),
           NEW kind, NEW e, e # "stop", Finish(kind, e)
    PROVE  SliceStep
<1> DEFINE w == Top.who
           f == [frame[w] EXCEPT !.done = TRUE]
<1>1. frame[w] \in GeneratorFrame /\ inside \in [Frames -> Seq(Exc)] /\ Gen \subseteq Frames
  BY DEF IInv, TypeOK, Frames
<1>2. /\ f \in GeneratorFrame /\ f.done
      /\ f.handled = frame[w].handled /\ f.active = frame[w].active
  BY <1>1 DEF GeneratorFrame
<1>3. inside' = [inside EXCEPT ![w] = <<>>] /\ Leave(f, kind, e)
  BY DEF Finish
<1>4. \A g \in Gen : g # w => inside'[g] = inside[g]
  BY <1>1, <1>3
<1>5. f.handled = <<>>
  BY <1>2, OwnsTop DEF Owns, Clean
<1>6. Slice(f.handled, f.active, inside'[w])
  BY <1>5 DEF Slice
<1> HIDE DEF f
<1> QED BY <1>2, <1>3, <1>4, <1>6, LeaveStep

\* run_bytecode_inner on entry takes the frame's slice over.
LEMMA InstallStep == ASSUME IInv, SInv, Install PROVE SliceStep
<1> DEFINE w == Top.who
           f == frame[w]
           a == [Top EXCEPT !.phase = IF Top.inject = NoExc /\ f.pc = "from"
                                      THEN "advance" ELSE "run",
                            !.inject = NoExc, !.hbase = Len(handled),
                            !.sbase = Len(saved), !.prev = active]
           f1 == [f EXCEPT !.handled = <<>>, !.saved = <<>>, !.active = NoExc]
<1>1. Top.phase = "resume"
  BY DEF Install
<1>2. Top \in Activation /\ w \in Gen
  BY <1>1, TopFacts
<1>3. /\ handled \in Seq(Exc) /\ active \in MaybeExc
      /\ frame \in [Gen -> GeneratorFrame] /\ f \in GeneratorFrame
      /\ f.handled \in Seq(Exc) /\ f.active \in MaybeExc
  BY <1>2 DEF IInv, TypeOK, GeneratorFrame
<1>4. /\ SetTop(a) /\ inside' = inside
      /\ handled' = handled \o f.handled
      /\ active' = IF f.active # NoExc THEN f.active ELSE active
  BY DEF Install
<1>5. a.who = w /\ a.seen = Top.seen /\ a.hbase = Len(handled)
  BY <1>2 DEF Activation
<1>6. frame' = [frame EXCEPT ![w] = f1]
  BY <1>2, <1>3 DEF Install, GeneratorFrame
<1>7. f1.done = f.done /\ f1.handled = <<>> /\ f1.saved = <<>> /\ f1.active = NoExc
  BY <1>3 DEF GeneratorFrame
<1> HIDE DEF a, f1
<1>8. frame'[w] = f1 /\ \A g \in Gen : g # w => frame'[g] = frame[g]
  BY <1>2, <1>3, <1>6
<1>9. FrameStep(w)
  BY <1>4, <1>7, <1>8 DEF FrameStep, Slice
<1>10. Above(handled', a.hbase, active', inside'[w])
  <2>1. Slice(f.handled, f.active, inside[w])
    BY <1>2, OwnsTop
  <2>2. CASE f.handled = <<>>
    <3>1. Len(handled') = Len(handled)
      BY <1>3, <1>4, <2>2
    <3> QED BY <1>5, <3>1 DEF Above
  <2>3. CASE f.handled # <<>>
    <3>1. f.handled = <<f.active>> /\ \E i \in DOMAIN inside[w] : inside[w][i] = f.active
      BY <2>1, <2>3 DEF Slice
    <3>2. f.active \in Exc
      <4>1. Len(f.handled) = 1 /\ f.handled[1] = f.active
        BY <3>1
      <4> QED BY <1>3, <4>1
    <3>3. active' = f.active
      BY <1>4, <3>2, NoExcIsNone
    <3>4. Len(handled') = Len(handled) + 1 /\ handled'[Len(handled')] = f.active
      <4> DEFINE e == f.active
      <4>1. handled' = handled \o <<e>> /\ e \in Exc
        BY <1>4, <3>1, <3>2
      <4> HIDE DEF e
      <4>2. Len(handled') = Len(handled) + 1 /\ handled'[Len(handled')] = e
        BY <1>3, <4>1
      <4> QED BY <4>2 DEF e
    <3> QED BY <1>4, <1>5, <3>1, <3>3, <3>4 DEF Above
  <2> QED BY <2>2, <2>3
<1>11. Owns(a, ExceptionState', frame'[w], inside'[w])
  BY <1>7, <1>8, <1>10 DEF Owns, Clean, ExceptionState
<1>12. OutcomeOK'
  <2>1. \/ signal' = Quiet
        \/ signal' = RaisedOnEntry(Top.inject) \/ signal' = RaisedHere(Top.inject)
    BY DEF Install
  <2>2. Quiet.kind = "none"
    BY DEF Quiet
  <2> QED BY <2>1, <2>2, NoOutcome
<1> QED BY <1>4, <1>5, <1>9, <1>11, <1>12, TopStep

\* A frame that forwarded an exception goes on past its YieldFrom.
LEMMA PastStep ==
    ASSUME IInv, SInv, Top.phase \in {"resume", "forward"}, NEW e,
           PastYieldFrom(e), UNCHANGED <<handled, saved, active, inside>>,
           signal'.kind = "none"
    PROVE  SliceStep
<1> DEFINE w == Top.who
           a == [Top EXCEPT !.phase = "resume", !.inject = IF e = "stop" THEN NoExc ELSE e]
           f1 == [frame[w] EXCEPT !.pc = "yield"]
<1>1. Top \in Activation /\ w \in Gen
  BY TopFacts
<1>2. /\ a.who = w /\ a.seen = Top.seen /\ a.via = Top.via /\ a.hbase = Top.hbase
      /\ ~ Installed(a)
  BY <1>1 DEF Activation, Installed
<1>3. frame \in [Gen -> GeneratorFrame] /\ frame[w] \in GeneratorFrame
  BY <1>1 DEF IInv, TypeOK
<1>4. /\ f1.done = frame[w].done /\ f1.handled = frame[w].handled
      /\ f1.saved = frame[w].saved /\ f1.active = frame[w].active
  BY <1>3 DEF GeneratorFrame
<1>5. SetTop(a) /\ frame' = [frame EXCEPT ![w] = f1]
  BY DEF PastYieldFrom
<1> HIDE DEF a, f1
<1>6. frame'[w] = f1 /\ \A g \in Gen : g # w => frame'[g] = frame[g]
  BY <1>1, <1>3, <1>5
<1>7. Untouched
  BY <1>4, <1>6 DEF Untouched
<1>8. ExceptionState' = ExceptionState
  BY DEF ExceptionState
<1>9. OutcomeOK'
  BY NoOutcome
<1> QED BY <1>2, <1>5, <1>7, <1>8, <1>9, PhaseStep

\* yield_from_throw_forward.
LEMMA ForwardThrowStep == ASSUME IInv, SInv, ForwardThrow PROVE SliceStep
<1> DEFINE s == frame[Top.who].sub
           below == [Top EXCEPT !.phase = "forward"]
<1>1. /\ Top.phase = "resume" /\ signal.kind = "none" /\ frame[Top.who].pc = "from"
  BY DEF ForwardThrow, Forwards
<1>2. Top \in Activation /\ Top.who \in Gen /\ Top.inject \in MaybeExc
  BY <1>1, TopFacts DEF Activation
<1>3. s \in Gen
  BY <1>1, <1>2 DEF IInv, DelegateOK
<1>4. CASE cell[s] = "frame" /\ ~ frame[s].done
  <2>1. Resume(s, "forward", Top.inject, below)
    BY <1>4 DEF ForwardThrow
  <2>2. /\ below \in Activation /\ below.who = Top.who /\ below.via = Top.via
        /\ below.seen = Top.seen /\ below.hbase = Top.hbase /\ ~ Installed(below)
    BY <1>2 DEF Activation, Installed
  <2> HIDE DEF below
  <2>3. "forward" \in Call
    BY DEF Call
  <2> QED BY <1>1, <1>2, <1>3, <1>4, <2>1, <2>2, <2>3, ResumeStep
<1>5. CASE ~ (cell[s] = "frame" /\ ~ frame[s].done)
  <2>1. /\ PastYieldFrom(IF cell[s] = "borrowed" THEN "fault" ELSE Top.inject)
        /\ UNCHANGED <<cell, handled, saved, active, inside, signal>>
    BY <1>5 DEF ForwardThrow
  <2> QED BY <1>1, <2>1, PastStep
<1> QED BY <1>4, <1>5

\* yield_from_advance.
LEMMA AdvanceSubStep == ASSUME IInv, SInv, AdvanceSub PROVE SliceStep
<1> DEFINE s == frame[Top.who].sub
           a == [Top EXCEPT !.phase = "run"]
<1>1. Top.phase = "advance" /\ signal.kind = "none"
  BY DEF AdvanceSub
<1>2. Top \in Activation /\ Top.who \in Gen /\ Installed(Top) /\ s \in Gen
  BY <1>1, TopFacts DEF Installed
<1>3. CASE cell[s] = "frame" /\ ~ frame[s].done
  <2>1. Resume(s, "from", NoExc, Top)
    BY <1>3 DEF AdvanceSub
  <2>2. "from" \in Call /\ NoExc \in MaybeExc
    BY DEF Call, MaybeExc
  <2> QED BY <1>1, <1>2, <1>3, <2>1, <2>2, ResumeStep
<1>4. CASE ~ (cell[s] = "frame" /\ ~ frame[s].done)
  <2>1. /\ SetTop(a) /\ signal' = IF cell[s] = "frame" THEN Quiet ELSE RaisedHere("fault")
        /\ UNCHANGED <<frame, cell, handled, saved, active, inside>>
    BY <1>4 DEF AdvanceSub
  <2>2. /\ a.who = Top.who /\ a.via = Top.via /\ a.seen = Top.seen /\ a.hbase = Top.hbase
    BY <1>2 DEF Activation
  <2> HIDE DEF a
  <2>3. ExceptionState' = ExceptionState /\ Untouched
    BY <2>1 DEF ExceptionState, Untouched
  <2>4. OutcomeOK'
    BY <2>1, NoOutcome DEF Quiet
  <2> QED BY <1>2, <2>1, <2>2, <2>3, <2>4, PhaseStep
<1> QED BY <1>3, <1>4

\* The outcome goes to the calling body; close() ends a frame that yielded.
LEMMA DeliverCallStep ==
    ASSUME IInv, SInv, signal.kind # "none", DeliverCall \/ DeliverClose \/ DeliverFor
    PROVE  SliceStep
<1>1. signal.kind \in {"yielded", "stopped", "raised"}
  BY OutcomeFacts
<1>2. UNCHANGED <<cell, stack, handled, saved, active, inside>>
  BY DEF DeliverCall, DeliverClose, DeliverFor
<1>3. signal'.kind = "none" \/ \E e : signal' = RaisedHere(e)
  <2>0. Quiet.kind = "none"
    BY DEF Quiet
  <2>1. CASE DeliverCall
    BY <1>1, <2>0, <2>1 DEF DeliverCall
  <2>2. CASE DeliverClose
    BY <1>1, <2>0, <2>2 DEF DeliverClose
  <2>3. CASE DeliverFor
    BY <1>1, <2>0, <2>3 DEF DeliverFor
  <2> QED BY <2>1, <2>2, <2>3
<1>4. OutcomeOK'
  BY <1>3, NoOutcome
<1>5. frame \in [Gen -> GeneratorFrame]
  BY DEF IInv, TypeOK
<1>6. Untouched
  <2>1. CASE frame' = frame
    BY <1>2, <2>1 DEF Untouched
  <2>2. CASE frame' = [frame EXCEPT ![signal.gen].done = TRUE]
    <3>1. CASE signal.gen \in Gen
      <4> DEFINE x == signal.gen
                 f1 == [frame[x] EXCEPT !.done = TRUE]
      <4>1. /\ f1.done /\ f1.handled = frame[x].handled
            /\ f1.saved = frame[x].saved /\ f1.active = frame[x].active
        BY <1>5, <3>1 DEF GeneratorFrame
      <4>2. frame' = [frame EXCEPT ![x] = f1]
        BY <2>2
      <4> HIDE DEF f1, x
      <4>3. \A g \in Gen : frame'[g] = IF g = x THEN f1 ELSE frame[g]
        BY <1>5, <4>2
      <4> QED BY <1>2, <4>1, <4>3 DEF Untouched
    <3>2. CASE signal.gen \notin Gen
      <4>1. \A g \in Gen : frame'[g] = frame[g]
        BY <1>5, <2>2, <3>2
      <4> QED BY <1>2, <4>1 DEF Untouched
    <3> QED BY <3>1, <3>2
  <2> QED BY <2>1, <2>2 DEF DeliverCall, DeliverClose, DeliverFor
<1> QED BY <1>2, <1>4, <1>6, StayStep

\* YieldFrom gets an outcome of its sub-iterator.
LEMMA DeliverFromStep ==
    ASSUME IInv, SInv, signal.kind # "none", DeliverFrom
    PROVE  SliceStep
<1>0. Sound
  BY DeliverFromSound
<1>1. Top.phase = "advance"
  BY OutcomeFacts DEF DeliverFrom, Waiting
<1>2. Top \in Activation /\ Top.who \in Gen /\ Installed(Top)
  BY <1>1, TopFacts DEF Installed
<1>3. CASE signal.kind = "yielded"
  BY <1>0, <1>2, <1>3, SuspendStep DEF DeliverFrom
<1>4. CASE signal.kind # "yielded"
  <2> DEFINE a == [Top EXCEPT !.phase = "run"]
  <2>1. /\ SetTop(a)
        /\ signal' = IF signal.kind = "raised" THEN RaisedHere(signal.exc) ELSE Quiet
        /\ UNCHANGED <<frame, cell, handled, saved, active, inside>>
    BY <1>4 DEF DeliverFrom
  <2>2. /\ a.who = Top.who /\ a.via = Top.via /\ a.seen = Top.seen /\ a.hbase = Top.hbase
    BY <1>2 DEF Activation
  <2> HIDE DEF a
  <2>3. ExceptionState' = ExceptionState /\ Untouched
    BY <2>1 DEF ExceptionState, Untouched
  <2>4. OutcomeOK'
    <3>1. Quiet.kind = "none"
      BY DEF Quiet
    <3> QED BY <2>1, <3>1, NoOutcome
  <2> QED BY <1>2, <2>1, <2>2, <2>3, <2>4, PhaseStep
<1> QED BY <1>3, <1>4

\* The outcome of a forwarded throw.
LEMMA DeliverForwardStep ==
    ASSUME IInv, SInv, signal.kind # "none", DeliverForward
    PROVE  SliceStep
<1>1. Top.phase = "forward"
  BY OutcomeFacts DEF DeliverForward, Waiting
<1>2. /\ Top \in Activation /\ Top.who \in Gen /\ Top.via = "native" /\ ~ Installed(Top)
      /\ Keeps(Top, ExceptionState)
  BY <1>1, TopFacts DEF Installed, Activation
<1>3. UNCHANGED <<handled, saved, active, inside>>
  BY DEF DeliverForward
<1>4. CASE signal.kind = "yielded"
  <2>1. /\ stack' = Front(stack) /\ frame' = frame
        /\ signal' = [signal EXCEPT !.call = Top.call, !.gen = Top.who]
    BY <1>4 DEF DeliverForward
  <2>2. ExceptionState' = Top.seen
    BY <1>2, <1>3 DEF Keeps, ExceptionState
  <2>3. signal'.kind = "yielded" /\ signal'.gen = Top.who
    BY <1>4, <2>1 DEF IInv, TypeOK, Outcome
  <2>4. OutcomeOK'
    BY <1>2, <2>3 DEF OutcomeOK
  <2>5. Untouched
    BY <1>3, <2>1 DEF Untouched
  <2>6. FrameStep(Top.who)
    BY <2>5, UntouchedFrame DEF SInv
  <2> QED BY <1>2, <2>1, <2>2, <2>4, <2>6, PopStep
<1>5. CASE signal.kind # "yielded"
  <2>1. /\ PastYieldFrom(IF signal.kind = "stopped" THEN "stop" ELSE signal.exc)
        /\ signal' = Quiet
    BY <1>5 DEF DeliverForward
  <2>2. Quiet.kind = "none"
    BY DEF Quiet
  <2> QED BY <1>1, <1>3, <2>1, <2>2, PastStep
<1> QED BY <1>4, <1>5

\* vm_enter_gen_drive takes a frame without exception state.
LEMMA DriveStep ==
    ASSUME IInv, SInv, NEW g \in Gen, Drivable(g), signal.kind = "none", Drive(g)
    PROVE  SliceStep
<1> DEFINE a == [who |-> g, via |-> "drive", call |-> "for",
                 phase |-> "run", inject |-> NoExc, hbase |-> Top.hbase,
                 sbase |-> Top.sbase, prev |-> Top.prev, seen |-> ExceptionState]
<1>1. stack \in Seq(Activation) /\ Len(stack) \in Nat \ {0} /\ Top \in Activation
  BY TopFacts
<1>2. ExceptionState \in [handled : Seq(Exc), saved : Seq(MaybeExc), active : MaybeExc]
  BY DEF IInv, TypeOK, ExceptionState
<1>3. /\ a \in Activation /\ a.who = g /\ a.via = "drive" /\ a.seen = ExceptionState
  BY <1>1, <1>2 DEF Activation, MaybeExc, Frames, Call
<1>4. /\ stack' = Append(stack, a)
      /\ UNCHANGED <<frame, handled, saved, active, inside, signal>>
  BY DEF Drive
<1> HIDE DEF a
<1>5. stack' = Append([stack EXCEPT ![Len(stack)] = Top], a)
  <2>1. [stack EXCEPT ![Len(stack)] = Top] = stack
    BY <1>1 DEF Top
  <2> QED BY <1>4, <2>1
<1>6. Clean(frame[g]) /\ ~ frame[g].done
  BY DEF Drivable, Clean
<1>7. OutcomeOK'
  BY <1>4, NoOutcome
<1> QED BY <1>1, <1>3, <1>4, <1>5, <1>6, <1>7, PushStep

\* The code of the activation on top, which is not driven, changes what lies
\* above its base.
LEMMA AboveStep ==
    ASSUME IInv, SInv, Installed(Top), Top.via # "drive", UNCHANGED <<frame, cell, stack>>,
           \A g \in Gen : g # Top.who => inside'[g] = inside[g],
           Top.via = "native" =>
             Above(handled', Top.hbase, active', inside'[Top.who]),
           OutcomeOK'
    PROVE  SliceStep
<1> DEFINE w == Top.who
<1>1. stack \in Seq(Activation) /\ Len(stack) \in Nat \ {0} /\ Top \in Activation
  BY TopFacts
<1>2. SetTop(Top)
  BY <1>1 DEF SetTop, Top
<1>3. ASSUME w \in Gen
      PROVE  Clean(frame[w])
  BY <1>3, OwnsTop DEF Owns
<1>4. FrameStep(w)
  <2>1. w \in Gen => Slice(frame'[w].handled, frame'[w].active, inside'[w])
    BY <1>3 DEF Clean, Slice
  <2> QED BY <2>1 DEF FrameStep
<1>5. ASSUME w \in Gen
      PROVE  Owns(Top, ExceptionState', frame'[w], inside'[w])
  <2>1. ExceptionState'.handled = handled' /\ ExceptionState'.active = active'
    BY DEF ExceptionState
  <2> QED BY <1>3, <1>5, <2>1 DEF Owns
<1> QED BY <1>2, <1>4, <1>5, TopStep

\* Only generators are resumed natively.
LEMMA NativeIsGen ==
    ASSUME IInv, Top.via = "native"
    PROVE  Top.who \in Gen
<1>1. stack \in Seq(Activation) /\ Len(stack) \in Nat \ {0} /\ stack[1].via = "script"
  BY TopFacts DEF IInv, Shape, ShapeOf
<1>2. ASSUME Len(stack) = 1
      PROVE  FALSE
  <2>1. Top = stack[1]
    BY <1>2 DEF Top
  <2> QED BY <1>1, <2>1
<1>3. Len(stack) \in 2 .. Len(stack)
  <2> DEFINE n == Len(stack)
  <2>1. n \in Nat /\ n # 0 /\ n # 1
    BY <1>1, <1>2
  <2> HIDE DEF n
  <2>2. n \in 2 .. n
    BY <2>1
  <2> QED BY <2>2 DEF n
<1> QED BY <1>3, BelowFacts DEF Top

\* handle_vm_error finds a handler: its exception is the only one above the
\* base, since an entry for the active one makes way.
LEMMA CatchStep ==
    ASSUME IInv, SInv, NEW w \in Frames, NEW d, Catch(w, d)
    PROVE  SliceStep
<1> DEFINE h1 == IF Len(handled) > Top.hbase /\ Last(handled) = active
                 THEN Front(handled) ELSE handled
           b1 == Append(SubSeq(inside[w], 1, d - 1), signal.exc)
<1>1. /\ Top.who = w /\ Top.phase = "run" /\ Installed(Top) /\ signal.exc \in Exc
  BY RaisedAtFacts DEF Catch
<1>2. /\ w \in Guarded \cup {Main} /\ d \in 1 .. Len(inside[w]) + 1
      /\ handled' = Append(h1, signal.exc) /\ active' = signal.exc
      /\ inside' = [inside EXCEPT ![w] = b1] /\ signal' = Quiet
      /\ UNCHANGED <<frame, cell, stack>>
  BY DEF Catch
<1>3. inside \in [Frames -> Seq(Exc)] /\ Gen \subseteq Frames
  BY DEF IInv, TypeOK, Frames
<1>4. \E i \in DOMAIN b1 : b1[i] = signal.exc
  <2> DEFINE t == SubSeq(inside[w], 1, d - 1)
  <2>1. inside[w] \in Seq(Exc) /\ d - 1 \in 0 .. Len(inside[w])
    BY <1>2, <1>3
  <2>2. t \in Seq(Exc)
    BY <2>1, PrefixType
  <2> HIDE DEF t
  <2>3. Append(t, signal.exc) \in Seq(Exc) /\ Len(Append(t, signal.exc)) = Len(t) + 1
        /\ Append(t, signal.exc)[Len(t) + 1] = signal.exc /\ Len(t) \in Nat
    BY <1>1, <2>2
  <2>4. Len(t) + 1 \in DOMAIN Append(t, signal.exc)
    BY <2>3
  <2> QED BY <2>3, <2>4 DEF t
<1>5. /\ inside'[w] = b1
      /\ \A g \in Gen : g # w => inside'[g] = inside[g]
  BY <1>2, <1>3
<1> HIDE DEF b1
<1>6. Top.via # "drive"
  BY <1>1, <1>2, TopFacts, GeneratorsAssumption
<1>7. ASSUME Top.via = "native"
      PROVE  Above(handled', Top.hbase, active', inside'[w])
  <2>1. /\ handled \in Seq(Exc) /\ Top.hbase \in Nat /\ Len(handled) \in Nat
    BY <1>1, BasesFacts
  <2>2. w \in Gen
    BY <1>1, <1>7, NativeIsGen
  <2>3. Above(handled, Top.hbase, active, inside[w])
    BY <1>1, <1>7, <2>2, OwnsTop DEF Owns, ExceptionState
  <2>4. h1 \in Seq(Exc) /\ Len(h1) = Top.hbase
    <3>1. CASE Len(handled) = Top.hbase
      BY <2>1, <3>1
    <3>2. CASE Len(handled) # Top.hbase
      <4>1. Len(handled) = Top.hbase + 1 /\ handled[Len(handled)] = active
        BY <2>3, <3>2 DEF Above
      <4>2. Len(handled) > Top.hbase /\ Last(handled) = active
        BY <2>1, <4>1 DEF Last
      <4>3. /\ Front(handled) \in Seq(Exc)
            /\ Len(Front(handled)) = Len(handled) - 1
        BY <2>1, <4>2, PrefixFront
      <4> QED BY <2>1, <4>1, <4>2, <4>3
    <3> QED BY <3>1, <3>2
  <2> HIDE DEF h1
  <2>5. Len(handled') = Top.hbase + 1 /\ handled'[Len(handled')] = signal.exc
    <3>1. /\ Len(Append(h1, signal.exc)) = Len(h1) + 1
          /\ Append(h1, signal.exc)[Len(h1) + 1] = signal.exc
      BY <1>1, <2>4
    <3> QED BY <1>2, <2>4, <3>1
  <2> QED BY <1>2, <1>4, <1>5, <2>5 DEF Above
<1>8. OutcomeOK'
  <2>1. Quiet.kind = "none"
    BY DEF Quiet
  <2> QED BY <1>2, <2>1, NoOutcome
<1> QED BY <1>1, <1>2, <1>5, <1>6, <1>7, <1>8, AboveStep

\* Leaving an except body leaves nothing above the base.
LEMMA PoppedAbove ==
    ASSUME IInv, SInv, Installed(Top), Top.via = "native",
           handled' = IF Len(handled) > Top.hbase THEN Front(handled) ELSE handled,
           NEW e, NEW bodies
    PROVE  Above(handled', Top.hbase, e, bodies)
<1>1. /\ handled \in Seq(Exc) /\ Top.hbase \in Nat /\ Len(handled) \in Nat
  BY BasesFacts
<1>2. Top.who \in Gen
  BY NativeIsGen
<1>3. Above(handled, Top.hbase, active, inside[Top.who])
  BY <1>2, OwnsTop DEF Owns, ExceptionState
<1>4. CASE Len(handled) = Top.hbase
  BY <1>1, <1>4 DEF Above
<1>5. CASE Len(handled) # Top.hbase
  <2>1. Len(handled) = Top.hbase + 1
    BY <1>3, <1>5 DEF Above
  <2>2. Len(handled) > Top.hbase
    BY <1>1, <2>1
  <2>3. Len(Front(handled)) = Len(handled) - 1
    BY <1>1, <2>2, PrefixFront
  <2> QED BY <1>1, <2>1, <2>2, <2>3 DEF Above
<1> QED BY <1>4, <1>5

\* A bare raise, in code that the dispatch loop does not drive.
LEMMA ReraiseStep ==
    ASSUME IInv, SInv, Reraises \cap Gen \subseteq Guarded, NEW w \in Frames, Reraise(w)
    PROVE  SliceStep
<1>1. signal.kind = "none" /\ Top.phase = "run" /\ Top.who = w /\ w \in Reraises
  BY DEF Reraise, Running
<1>2. Installed(Top) /\ Top.via # "drive"
  BY <1>1, TopFacts DEF Installed
<1>3. CASE active = NoExc
  BY <1>3, RaiseStep DEF Reraise
<1>4. CASE active # NoExc
  <2>1. /\ signal' = RaisedHere(active)
        /\ handled' = IF Len(handled) > Top.hbase THEN Front(handled) ELSE handled
        /\ UNCHANGED <<frame, cell, stack, inside>>
    BY <1>4 DEF Reraise
  <2>2. OutcomeOK'
    BY <2>1, NoOutcome
  <2>3. Top.via = "native" => Above(handled', Top.hbase, active', inside'[Top.who])
    BY <1>2, <2>1, PoppedAbove
  <2> QED BY <1>2, <2>1, <2>2, <2>3, AboveStep
<1> QED BY <1>3, <1>4

\* An except body is left the normal way.
LEMMA EndExceptStep ==
    ASSUME IInv, SInv, NEW w \in Frames, EndExcept(w)
    PROVE  SliceStep
<1>1. /\ signal.kind = "none" /\ Top.phase = "run" /\ Top.who = w /\ inside[w] # <<>>
      /\ handled' = IF Len(handled) > Top.hbase THEN Front(handled) ELSE handled
      /\ inside' = [inside EXCEPT ![w] = Front(inside[w])]
      /\ UNCHANGED <<frame, cell, stack, signal>>
  BY DEF EndExcept, Running
<1>2. Installed(Top) /\ Top.via # "drive"
  BY <1>1, TopFacts DEF Installed, IInv, HandlersOK
<1>3. \A g \in Gen : g # w => inside'[g] = inside[g]
  BY <1>1 DEF IInv, TypeOK, Frames
<1>4. OutcomeOK'
  BY <1>1, NoOutcome
<1>5. Top.via = "native" => Above(handled', Top.hbase, active', inside'[Top.who])
  BY <1>1, <1>2, PoppedAbove
<1> QED BY <1>1, <1>2, <1>3, <1>4, <1>5, AboveStep

\* An exception leaves a generator: PEP 479 makes another one of StopIteration.
LEMMA EscapeStep == ASSUME IInv, SInv, NEW g \in Gen, Escape(g) PROVE SliceStep
<1>1. Sound
  BY EscapeSound
<1>2. Top.who = g /\ Installed(Top)
  BY RaisedAtFacts DEF Escape
<1>3. Pep479(signal.exc) # "stop" /\ Finish("raised", Pep479(signal.exc))
  BY DEF Escape, Pep479
<1> QED BY <1>1, <1>2, <1>3, FinishStep

\* An exception leaves the top-level call.
LEMMA EscapeMainStep == ASSUME IInv, SInv, EscapeMain PROVE SliceStep
<1>1. Top.who = Main /\ Top.phase = "run" /\ Installed(Top)
  BY RaisedAtFacts DEF EscapeMain
<1>2. Top.via = "script"
  BY <1>1, TopFacts
<1>3. /\ signal' = Quiet /\ inside' = [inside EXCEPT ![Main] = <<>>]
      /\ UNCHANGED <<frame, cell, stack>>
  BY DEF EscapeMain
<1>4. \A g \in Gen : g # Main => inside'[g] = inside[g]
  BY <1>3 DEF IInv, TypeOK, Frames
<1>5. OutcomeOK'
  <2>1. Quiet.kind = "none"
    BY DEF Quiet
  <2> QED BY <1>3, <2>1, NoOutcome
<1> QED BY <1>1, <1>2, <1>3, <1>4, <1>5, AboveStep

\* The body arrives at a YieldFrom.
LEMMA DelegateStep ==
    ASSUME IInv, SInv, NEW g \in Gen, NEW s \in Gen, Delegate(g, s)
    PROVE  SliceStep
<1> DEFINE a == [Top EXCEPT !.phase = "advance"]
           f1 == [frame[g] EXCEPT !.sub = s]
<1>1. signal.kind = "none" /\ Top.who = g /\ Installed(Top)
  BY RunningFacts DEF Delegate
<1>2. /\ frame' = [frame EXCEPT ![g].sub = s] /\ SetTop(a)
      /\ UNCHANGED <<cell, handled, saved, active, inside, signal>>
  BY DEF Delegate
<1>3. frame \in [Gen -> GeneratorFrame] /\ Top \in Activation
  BY TopFacts DEF IInv, TypeOK
<1>4. /\ a.who = Top.who /\ a.via = Top.via /\ a.seen = Top.seen /\ a.hbase = Top.hbase
  BY <1>3 DEF Activation
<1>5. /\ f1.done = frame[g].done /\ f1.handled = frame[g].handled
      /\ f1.saved = frame[g].saved /\ f1.active = frame[g].active
  BY <1>3 DEF GeneratorFrame
<1>6. frame' = [frame EXCEPT ![g] = f1]
  BY <1>2, <1>3 DEF GeneratorFrame
<1> HIDE DEF a, f1
<1>7. Untouched
  <2>1. \A h \in Gen : frame'[h] = IF h = g THEN f1 ELSE frame[h]
    BY <1>3, <1>6
  <2> QED BY <1>2, <1>5, <2>1 DEF Untouched
<1>8. ExceptionState' = ExceptionState /\ OutcomeOK'
  BY <1>1, <1>2, NoOutcome DEF ExceptionState
<1> QED BY <1>1, <1>2, <1>4, <1>7, <1>8, PhaseStep

\* next(), send(), throw() and close(), and the for loop.
LEMMA CallsStep ==
    ASSUME IInv, SInv, NEW w \in Frames, NEW g \in Gen,
           \/ CallNext(w, g) \/ SendToFresh(w, g) \/ CallClose(w, g) \/ ForIter(w, g)
           \/ \E e \in Thrown : CallThrow(w, g, e)
    PROVE  SliceStep
<1>1. signal.kind = "none" /\ Top.phase = "run"
  BY RunningFacts DEF CallNext, SendToFresh, CallClose, CallThrow, ForIter
<1>2. /\ "next" \in Call /\ "close" \in Call /\ "throw" \in Call /\ "for" \in Call
      /\ NoExc \in MaybeExc /\ "exit" \in MaybeExc
  BY NoExcIsNone DEF Call, MaybeExc
<1>3. Top \in Activation
  BY TopFacts
<1>4. ASSUME NEW c \in Call, NEW i \in MaybeExc, ~ frame[g].done, Resume(g, c, i, Top)
      PROVE  SliceStep
  BY <1>1, <1>3, <1>4, ResumeStep
<1>5. CASE CallNext(w, g)
  <2>1. \/ RaiseHere("fault") \/ RaiseHere("stop")
        \/ ~ frame[g].done /\ Resume(g, "next", NoExc, Top)
    BY <1>5 DEF CallNext
  <2> QED BY <1>2, <1>4, <2>1, RaiseStep
<1>6. CASE SendToFresh(w, g)
  BY <1>6, RaiseStep DEF SendToFresh
<1>7. CASE CallClose(w, g)
  <2>1. RaiseHere("fault") \/ (~ frame[g].done /\ Resume(g, "close", "exit", Top))
    BY <1>7 DEF CallClose
  <2> QED BY <1>2, <1>4, <2>1, RaiseStep
<1>8. CASE ForIter(w, g)
  <2>1. \/ RaiseHere("fault")
        \/ Drivable(g) /\ Drive(g)
        \/ ~ frame[g].done /\ Resume(g, "for", NoExc, Top)
    BY <1>8 DEF ForIter
  <2> QED BY <1>1, <1>2, <1>4, <2>1, RaiseStep, DriveStep
<1>9. CASE \E e \in Thrown : CallThrow(w, g, e)
  <2>1. PICK e \in Thrown : CallThrow(w, g, e)
    BY <1>9
  <2>2. e \in MaybeExc
    BY GeneratorsAssumption DEF MaybeExc
  <2>3. \/ RaiseHere("fault") \/ RaiseHere(e)
        \/ ~ frame[g].done /\ Resume(g, "throw", e, Top)
    BY <2>1 DEF CallThrow
  <2> QED BY <1>2, <1>4, <2>2, <2>3, RaiseStep
<1> QED BY <1>5, <1>6, <1>7, <1>8, <1>9

\* Every step of the specification keeps the invariant of the slices and
\* enters no finished frame.
LEMMA NextStep ==
    ASSUME IInv, SInv, Reraises \cap Gen \subseteq Guarded, Next
    PROVE  SliceStep
<1>1. CASE Install
  BY <1>1, InstallStep
<1>2. CASE ForwardThrow
  BY <1>2, ForwardThrowStep
<1>3. CASE AdvanceSub
  BY <1>3, AdvanceSubStep
<1>4. CASE Deliver
  <2>1. signal.kind # "none"
    BY <1>4 DEF Deliver
  <2>2. CASE DeliverCall \/ DeliverClose \/ DeliverFor
    BY <2>1, <2>2, DeliverCallStep
  <2>3. CASE DeliverFrom
    BY <2>1, <2>3, DeliverFromStep
  <2>4. CASE DeliverForward
    BY <2>1, <2>4, DeliverForwardStep
  <2> QED BY <1>4, <2>2, <2>3, <2>4 DEF Deliver
<1>5. CASE EscapeMain
  BY <1>5, EscapeMainStep
<1>6. ASSUME NEW g \in Gen,
             Yield(g) \/ Return(g) \/ Escape(g) \/ \E s \in Gen : Delegate(g, s)
      PROVE  SliceStep
  <2>1. CASE Yield(g)
    <3>1. Top.who = g /\ Installed(Top) /\ Suspend("yield")
      BY <2>1, RunningFacts DEF Yield
    <3>2. Sound
      BY <3>1, SuspendSound
    <3> QED BY <3>1, <3>2, SuspendStep
  <2>2. CASE Return(g)
    <3>1. Top.who = g /\ Installed(Top) /\ Finish("stopped", NoExc)
      BY <2>2, RunningFacts DEF Return
    <3>2. NoExc \in MaybeExc /\ NoExc # "stop"
      BY DEF MaybeExc, NoExc
    <3>3. Sound
      BY <3>1, <3>2, FinishSound
    <3> QED BY <3>1, <3>2, <3>3, FinishStep
  <2>3. CASE Escape(g)
    BY <2>3, EscapeStep
  <2>4. CASE \E s \in Gen : Delegate(g, s)
    BY <2>4, DelegateStep
  <2> QED BY <1>6, <2>1, <2>2, <2>3, <2>4
<1>7. ASSUME NEW w \in Frames,
             \/ Reraise(w) \/ EndExcept(w)
             \/ \E d \in 1 .. MaxNest[w] : Catch(w, d)
             \/ \E e \in Errors \cup {"stop"} : Raise(w, e)
      PROVE  SliceStep
  BY <1>7, ReraiseStep, EndExceptStep, CatchStep, RaiseStep DEF Raise
<1>8. ASSUME NEW w \in Frames, NEW g \in Gen,
             \/ CallNext(w, g) \/ SendToFresh(w, g) \/ CallClose(w, g) \/ ForIter(w, g)
             \/ \E e \in Thrown : CallThrow(w, g, e)
      PROVE  SliceStep
  BY <1>8, CallsStep
<1> QED BY <1>1, <1>2, <1>3, <1>4, <1>5, <1>6, <1>7, <1>8 DEF Next

\* The invariant of the slices is inductive.
LEMMA SInvInductive ==
    ASSUME IInv, SInv, Reraises \cap Gen \subseteq Guarded, [Next]_vars
    PROVE  SInv'
<1>1. CASE Next
  BY <1>1, NextStep DEF SliceStep
<1>2. CASE UNCHANGED vars
  <2>1. /\ frame' = frame /\ stack' = stack /\ handled' = handled
        /\ saved' = saved /\ active' = active /\ inside' = inside /\ signal' = signal
    BY <1>2 DEF vars
  <2>2. ExceptionState' = ExceptionState
    BY <2>1 DEF ExceptionState
  <2> QED BY <2>1, <2>2 DEF SInv, Owned, Slices, OutcomeOK
<1> QED BY <1>1, <1>2

\* It holds where the program starts.
LEMMA InitSInv == ASSUME Init PROVE SInv
<1>1. /\ frame = [g \in Gen |-> Fresh] /\ stack = <<Bottom>> /\ signal = Quiet
  BY DEF Init
<1>2. Fresh.handled = <<>> /\ Quiet.kind = "none" /\ Len(stack) = 1
  BY <1>1 DEF Fresh, Quiet
<1>3. Owned
  BY <1>2 DEF Owned, OwnedOf
<1>4. Slices
  BY <1>1, <1>2 DEF Slices, SlicesOf, Slice
<1>5. OutcomeOK
  BY <1>1, <1>2 DEF OutcomeOK
<1> QED BY <1>3, <1>4, <1>5 DEF SInv

\* What a suspended frame carries is a slice.
LEMMA SliceHolds == SInv => SuspendedSlice
BY DEF SInv, Slices, SlicesOf, Slice, SuspendedSlice

\* A driven frame gave its exception state up when it was entered, and has no
\* handlers.
LEMMA DrivenHolds == IInv /\ SInv => DrivenHasNoState
<1> SUFFICES ASSUME IInv, SInv, NEW i \in DOMAIN stack, stack[i].via = "drive"
             PROVE  Clean(frame[stack[i].who]) /\ inside[stack[i].who] = <<>>
  BY DEF DrivenHasNoState, Clean
<1>1. stack \in Seq(Activation) /\ Len(stack) \in Nat \ {0} /\ stack[1].via = "script"
  BY TopFacts DEF IInv, Shape, ShapeOf
<1>2. i \in 1 .. Len(stack) /\ i # 1
  BY <1>1
<1>3. i \in 2 .. Len(stack)
  BY <1>1, <1>2
<1>4. stack[i].who \in Gen \ Guarded /\ Installed(stack[i])
  BY <1>3 DEF IInv, Shape, ShapeOf
<1>5. inside[stack[i].who] = <<>>
  BY <1>4 DEF IInv, HandlersOK
<1>6. Clean(frame[stack[i].who])
  BY <1>3, <1>4 DEF SInv, Owned, OwnedOf, Owns
<1> QED BY <1>5, <1>6

\* An outcome tells how the frame ended.
LEMMA OutcomeHolds == SInv => StopMeansReturned
BY DEF SInv, OutcomeOK, StopMeansReturned

\* What a step may do to finished frames.
FinalStep ==
    /\ \A g \in Gen : frame[g].done =>
          frame'[g].done /\ (Activations(g) = {} => Activations(g)' = {})
    /\ signal.kind # "none" /\ signal.call = "close" => frame'[signal.gen].done

\* Every step respects it: none enters a finished frame, and the one step that
\* can follow the outcome of close() leaves its frame finished.
LEMMA FinalHolds ==
    ASSUME IInv, SInv, Reraises \cap Gen \subseteq Guarded, Next
    PROVE  FinalStep
<1>1. DoneStep /\ IInv'
  BY NextStep, NextSound DEF SliceStep
<1>2. stack \in Seq(Activation) /\ stack' \in Seq(Activation)
  BY <1>1 DEF IInv, TypeOK
<1>3. DOMAIN stack = 1 .. Len(stack) /\ DOMAIN stack' = 1 .. Len(stack')
  BY <1>2
<1>4. \A g \in Gen : frame[g].done =>
          frame'[g].done /\ (Activations(g) = {} => Activations(g)' = {})
  BY <1>1, <1>3 DEF DoneStep, Active, Activations
<1>5. ASSUME signal.kind # "none", signal.call = "close"
      PROVE  frame'[signal.gen].done
  <2>1. signal.kind \in {"yielded", "stopped", "raised"} /\ frame \in [Gen -> GeneratorFrame]
    BY <1>5, OutcomeFacts DEF IInv, TypeOK
  <2>2. /\ signal.gen \in Gen
        /\ signal.kind # "yielded" => frame[signal.gen].done
    BY <1>5 DEF SInv, OutcomeOK, Call
  <2>3. CASE signal.kind # "yielded"
    BY <1>4, <2>2, <2>3
  <2>4. CASE signal.kind = "yielded"
    <3>1. DeliverClose
      BY <1>5, <2>4
         DEF Next, Install, ForwardThrow, AdvanceSub, Deliver, DeliverCall, DeliverFor,
             DeliverFrom, DeliverForward, EscapeMain, Yield, Return, Escape, Delegate,
             Reraise, EndExcept, Catch, Raise, CallNext, SendToFresh, CallClose, ForIter,
             CallThrow, Running, RaisedAt
    <3>2. frame' = [frame EXCEPT ![signal.gen].done = TRUE]
      BY <2>4, <3>1 DEF DeliverClose
    <3> QED BY <2>1, <2>2, <3>2 DEF GeneratorFrame
  <2> QED BY <2>3, <2>4
<1> QED BY <1>4, <1>5 DEF FinalStep

\* A suspended generator carries none of its resumer's handled exceptions, for
\* any number of generators, handlers and nested resumptions.
THEOREM SuspendedSlicesAreOwn ==
    ASSUME Reraises \cap Gen \subseteq Guarded
    PROVE  Spec => []SuspendedSlice
<1>1. Init => IInv /\ SInv
  BY InitIInv, InitSInv
<1>2. IInv /\ SInv /\ [Next]_vars => IInv' /\ SInv'
  BY NextSound, SInvInductive
<1> QED BY <1>1, <1>2, SliceHolds, PTL DEF Spec

\* The dispatch loop drives only generators without exception state.
THEOREM DrivenFramesAreClean ==
    ASSUME Reraises \cap Gen \subseteq Guarded
    PROVE  Spec => []DrivenHasNoState
<1>1. Init => IInv /\ SInv
  BY InitIInv, InitSInv
<1>2. IInv /\ SInv /\ [Next]_vars => IInv' /\ SInv'
  BY NextSound, SInvInductive
<1> QED BY <1>1, <1>2, DrivenHolds, PTL DEF Spec

\* StopIteration reaches a resumer only from a body that returned.
THEOREM StopIterationMeansReturn ==
    ASSUME Reraises \cap Gen \subseteq Guarded
    PROVE  Spec => []StopMeansReturned
<1>1. Init => IInv /\ SInv
  BY InitIInv, InitSInv
<1>2. IInv /\ SInv /\ [Next]_vars => IInv' /\ SInv'
  BY NextSound, SInvInductive
<1> QED BY <1>1, <1>2, OutcomeHolds, PTL DEF Spec

\* A finished generator is never entered again, and close() finishes one.
THEOREM FinishedForGood ==
    ASSUME Reraises \cap Gen \subseteq Guarded
    PROVE  Spec => DoneIsFinal
<1>1. Init => IInv /\ SInv
  BY InitIInv, InitSInv
<1>2. IInv /\ SInv /\ [Next]_vars => IInv' /\ SInv'
  BY NextSound, SInvInductive
<1>3. IInv /\ SInv /\ [Next]_vars => [FinalStep]_vars
  BY FinalHolds
<1> QED BY <1>1, <1>2, <1>3, PTL DEF Spec, DoneIsFinal, FinalStep
=============================================================================
