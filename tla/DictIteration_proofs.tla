------------------------ MODULE DictIteration_proofs ------------------------
(***************************************************************************)
(* Proofs about DictIteration, for every value of its constants: any       *)
(* number of keys and iterators and any sequence of mutations.             *)
(***************************************************************************)
EXTENDS DictIteration, FiniteSetTheorems, SequenceTheorems, WellFoundedInduction, TLAPS

-----------------------------------------------------------------------------
(* The inductive invariant *)

\* The fields of an iterator; what the terminal watch compares is left open.
CursorType(E) ==
    [phase : Ended \cup {"free", "walking"},
     mode : {"history", "snapshot", "seen"},
     order : Seq(Keys), pos : Nat, seen : SUBSET Keys, next : Nat,
     lastKey : Keys \cup {NoKey}, lastIndex : Nat, observed : Nat,
     recordedLen : Nat, remaining : Nat, watching : BOOLEAN,
     entryCursor : E, structural : BOOLEAN]

\* An iterator, whatever its watch compares.
IsCursor(c) == c \in CursorType({c.entryCursor})

\* The history of an iterator.
IsWalk(w) ==
    /\ w \in [start : Seq(Keys), got : Seq(Keys), steady : BOOLEAN,
              lastGone : BOOLEAN, relinked : BOOLEAN]
    /\ IsInjective(w.start)

\* The registration; the virtual layout is left open.
IsReg(r) ==
    /\ r \in [version : Nat, observers : Nat, watchers : [Keys -> Nat],
              pending : SUBSET Keys, reinserted : {r.reinserted}, layout : {r.layout}]
    /\ DOMAIN r.reinserted = Keys
    /\ \A k \in Keys : r.reinserted[k].at \in Int

\* t begins with s.
Begins(s, t) == Len(s) <= Len(t) /\ \A i \in 1..Len(s) : s[i] = t[i]

\* Each of the three forms of a cursor tells which keys were handed out.  A
\* snapshot has them before its position.
Snapshot(c, w) ==
    /\ Len(c.order) = c.recordedLen /\ c.pos = Len(w.got)
    /\ IsInjective(c.order) /\ Begins(w.got, c.order)
    /\ w.got = <<>> => c.lastKey = NoKey
    /\ c.remaining <= c.recordedLen

\* A history is the sequence of those keys.
History(c, w) ==
    c.order = w.got /\ c.next = Len(w.got)

\* The recovered form keeps their set.
Seen(c, w) == c.seen = Range(w.got)

\* What a cursor that walks the live order knows beyond that: the rest of its
\* quota, the key it handed out last, and where it goes on.
LiveWalk(c, w) ==
    /\ c.remaining = c.recordedLen - Len(w.got)
    /\ w.got = <<>> => c.lastKey = NoKey /\ c.next = 0
    /\ w.got # <<>> => c.lastKey = Last(w.got) /\ c.next = c.lastIndex + 1

\* The form of a cursor that walks.
Form(c, w) ==
    /\ c.recordedLen = Len(w.start)
    /\ c.mode = "snapshot" => Snapshot(c, w)
    /\ c.mode = "history" => History(c, w)
    /\ c.mode = "seen" => Seen(c, w)
    /\ c.mode # "snapshot" => LiveWalk(c, w)

\* What a cursor may assume that sees the version it observed.
Current(c, w, d) ==
    /\ Len(d) = c.recordedLen
    /\ c.mode = "snapshot" => c.order = d
    /\ c.mode = "history" => Begins(w.got, d)
    /\ c.mode = "seen" /\ w.got # <<>> => c.next <= Len(d) /\ d[c.next] = Last(w.got)
    /\ ~w.lastGone

\* The keys were handed out once, in order while the order stayed the same.
Yields(c, w) ==
    /\ IsInjective(w.got) /\ Len(w.got) <= Len(w.start)
    /\ w.steady =>
         /\ Begins(w.got, w.start) /\ ~c.structural
         /\ c.mode # "snapshot" => c.next = Len(w.got)

\* All keys up to the one handed out last were handed out.
Reached(w, d) ==
    ~w.lastGone /\ ~w.relinked /\ w.got # <<>> =>
        \E i \in 1..Len(d) : /\ d[i] = Last(w.got)
                             /\ \A j \in 1..i : d[j] \in Range(w.got)

\* The terminal watch is on the last key, and what the registration notes of
\* that key happened since.
Watch(c, w, r) ==
    c.watching =>
      /\ Len(w.got) = c.recordedLen /\ w.got # <<>> /\ c.lastKey = Last(w.got)
      /\ c.lastKey \in r.pending => w.lastGone
      /\ r.reinserted[c.lastKey].at > c.observed => w.lastGone

\* What is known of a walking cursor.
Walking(c, w, d, r) ==
    /\ c.observed <= r.version
    /\ Form(c, w) /\ Yields(c, w) /\ Reached(w, d) /\ Watch(c, w, r)
    /\ c.observed = r.version => Current(c, w, d)

\* And of any other.
Idle(c, w) == ~c.watching /\ c.remaining = 0 /\ c.mode = "history" /\ w = NoWalk

\* What is known of any cursor of dictionary d with registration r.
CursorOK(c, w, d, r) ==
    /\ IsCursor(c) /\ IsWalk(w)
    /\ c.phase = "walking" => Walking(c, w, d, r)
    /\ c.phase # "walking" => Idle(c, w)

\* Only watched keys are noted as missing, no key that is there, and nothing
\* while nobody observes; no key was noted as put back by a later mutation
\* than the last one.
NotesOK(d, r) ==
    /\ \A k \in r.pending : r.watchers[k] > 0 /\ k \notin Range(d) /\ r.observers # 0
    /\ \A k \in Keys : r.reinserted[k].at <= r.version

\* The iterators that are alive.
Walkers(cs) == {c \in Cursors : cs[c].phase = "walking"}

\* Those that watch key k.
Watchers(cs, k) == {c \in Cursors : cs[c].watching /\ cs[c].lastKey = k}

\* Observers and watches are counted.
Counted(cs, r) ==
    /\ r.observers = Cardinality(Walkers(cs))
    /\ \A k \in Keys : Cardinality(Watchers(cs, k)) <= r.watchers[k]

\* The inductive invariant.
IInv ==
    /\ dict \in Seq(Keys) /\ IsInjective(dict)
    /\ IsReg(reg) /\ NotesOK(dict, reg)
    /\ DOMAIN cursors = Cursors /\ DOMAIN walk = Cursors
    /\ \A c \in Cursors : CursorOK(cursors[c], walk[c], dict, reg)
    /\ Counted(cursors, reg)

-----------------------------------------------------------------------------
(* Cursors *)

\* The fields that preparing a step leaves alone.
SameWalk(q, c) ==
    /\ q.phase = c.phase /\ q.recordedLen = c.recordedLen
    /\ q.watching = c.watching

\* Sequences of keys.
LEMMA SeqFacts ==
    ASSUME NEW s \in Seq(Keys)
    PROVE  /\ Len(s) \in Nat /\ DOMAIN s = 1..Len(s)
           /\ \A i \in 1..Len(s) : s[i] \in Keys
           /\ s # <<>> <=> Len(s) > 0
           /\ Range(s) = {s[i] : i \in 1..Len(s)}
BY DEF Range

\* Begins is IsPrefix, place by place.
LEMMA BeginsIsPrefix ==
    ASSUME NEW s \in Seq(Keys), NEW t \in Seq(Keys), Begins(s, t)
    PROVE  IsPrefix(s, t)
<1> DEFINE m == Len(s)
<1>1. m \in Nat /\ m <= Len(t) /\ Len(t) \in Nat /\ \A i \in 1..m : s[i] = t[i]
  BY DEF Begins
<1>2. SubSeq(s, 1, m) = [i \in 1..m |-> s[i]]
  BY <1>1
<1>3. SubSeq(t, 1, m) = [i \in 1..m |-> t[i]]
  BY <1>1
<1>4. [i \in 1..m |-> s[i]] = [i \in 1..m |-> t[i]]
  BY <1>1
<1>5. SubSeq(s, 1, m) = SubSeq(t, 1, m)
  BY <1>2, <1>3, <1>4
<1> QED BY <1>1, <1>5 DEF IsPrefix

\* The fields of an iterator have their types.
LEMMA CursorFacts ==
    ASSUME NEW c, IsCursor(c)
    PROVE  /\ c.phase \in Ended \cup {"free", "walking"}
           /\ c.mode \in {"history", "snapshot", "seen"}
           /\ c.order \in Seq(Keys) /\ c.pos \in Nat /\ c.seen \in SUBSET Keys
           /\ c.next \in Nat /\ c.lastKey \in Keys \cup {NoKey} /\ c.lastIndex \in Nat
           /\ c.observed \in Nat /\ c.recordedLen \in Nat /\ c.remaining \in Nat
           /\ c.watching \in BOOLEAN /\ c.structural \in BOOLEAN
BY DEF IsCursor, CursorType

\* So have those of its history.
LEMMA WalkFacts ==
    ASSUME NEW w, IsWalk(w)
    PROVE  /\ w.start \in Seq(Keys) /\ w.got \in Seq(Keys)
           /\ Len(w.start) \in Nat /\ Len(w.got) \in Nat
           /\ w.steady \in BOOLEAN /\ w.lastGone \in BOOLEAN /\ w.relinked \in BOOLEAN
BY DEF IsWalk

\* The recovered history is the set of the keys handed out.
LEMMA SeenFromSnapshot ==
    ASSUME NEW c, NEW w, IsCursor(c), IsWalk(w), Snapshot(c, w)
    PROVE  {c.order[i] : i \in 1..c.pos} = Range(w.got)
<1>1. c.pos = Len(w.got) /\ \A i \in 1..Len(w.got) : w.got[i] = c.order[i]
  BY DEF Snapshot, Begins
<1>2. Range(w.got) = {w.got[i] : i \in 1..Len(w.got)}
  BY WalkFacts, SeqFacts
<1> QED BY <1>1, <1>2

\* What the recovery leaves of a snapshot.
LEMMA WithSeenSnapshot ==
    ASSUME NEW c, NEW w, IsCursor(c), IsWalk(w), c.mode = "snapshot", Snapshot(c, w)
    PROVE  LET q == WithSeen(c)
           IN  /\ IsCursor(q) /\ SameWalk(q, c) /\ q.mode = "seen"
               /\ q.observed = c.observed /\ q.structural = c.structural
               /\ Seen(q, w) /\ LiveWalk(q, w) /\ q.next = Len(w.got)
<1> DEFINE S == {c.order[i] : i \in 1..c.pos}
           x == c.recordedLen - c.pos
           l == IF c.pos # 0 THEN c.pos - 1 ELSE c.lastIndex
           k == IF c.pos # 0 THEN c.order[c.pos] ELSE c.lastKey
           q == [c EXCEPT !.mode = "seen", !.seen = S, !.order = <<>>, !.pos = 0,
                          !.next = c.pos, !.remaining = x, !.lastIndex = l, !.lastKey = k]
<1>1. WithSeen(c) = q
  BY DEF WithSeen
<1>2. /\ c.order \in Seq(Keys) /\ c.pos \in Nat /\ c.recordedLen \in Nat
      /\ c.lastIndex \in Nat /\ c.lastKey \in Keys \cup {NoKey}
      /\ w.got \in Seq(Keys) /\ Len(w.got) \in Nat /\ Len(c.order) \in Nat
  BY CursorFacts, WalkFacts
<1>3. /\ Len(c.order) = c.recordedLen /\ c.pos = Len(w.got) /\ c.pos <= Len(c.order)
      /\ \A i \in 1..Len(w.got) : w.got[i] = c.order[i]
      /\ w.got = <<>> => c.lastKey = NoKey
  BY <1>2 DEF Snapshot, Begins
<1>4. S = Range(w.got) /\ S \in SUBSET Keys
  <2>1. S = Range(w.got)
    BY SeenFromSnapshot
  <2>2. Range(w.got) \in SUBSET Keys
    BY <1>2 DEF Range
  <2> QED BY <2>1, <2>2
<1>5. /\ x \in Nat /\ l \in Nat /\ k \in Keys \cup {NoKey}
      /\ w.got = <<>> => k = NoKey /\ c.pos = 0
      /\ w.got # <<>> => k = Last(w.got) /\ c.pos = l + 1
  BY <1>2, <1>3 DEF Last
<1> HIDE DEF S, x, l, k
<1>6. /\ q.mode = "seen" /\ q.seen = S /\ q.next = c.pos /\ q.remaining = x
      /\ q.lastIndex = l /\ q.lastKey = k /\ q.recordedLen = c.recordedLen
      /\ q.phase = c.phase /\ q.watching = c.watching
      /\ q.observed = c.observed /\ q.structural = c.structural
      /\ q.entryCursor = c.entryCursor
  BY DEF IsCursor, CursorType
<1>8. IsCursor(q)
  <2> DEFINE E == {c.entryCursor}
  <2>1. c \in CursorType(E)
    BY DEF IsCursor
  <2> HIDE DEF E
  <2>2. <<>> \in Seq(Keys)
    OBVIOUS
  <2>3. q \in CursorType(E)
    BY <1>2, <1>4, <1>5, <2>1, <2>2 DEF CursorType
  <2> HIDE DEF q
  <2> QED BY <2>3, <1>6 DEF IsCursor, E
<1> HIDE DEF q
<1>7. x = c.recordedLen - Len(w.got)
  BY <1>3 DEF x
<1> QED BY <1>1, <1>3, <1>4, <1>5, <1>6, <1>7, <1>8 DEF Seen, LiveWalk, SameWalk

\* What it leaves of a history.
LEMMA WithSeenHistory ==
    ASSUME NEW c, NEW w, IsCursor(c), IsWalk(w), c.mode = "history",
           History(c, w), LiveWalk(c, w)
    PROVE  LET q == WithSeen(c)
           IN  /\ IsCursor(q) /\ SameWalk(q, c) /\ q.mode = "seen"
               /\ q.observed = c.observed /\ q.structural = c.structural
               /\ Seen(q, w) /\ LiveWalk(q, w) /\ q.next = Len(w.got)
<1> DEFINE S == Range(c.order)
           q == [c EXCEPT !.mode = "seen", !.seen = S, !.order = <<>>]
<1>1. WithSeen(c) = q
  BY DEF WithSeen
<1>2. S \in SUBSET Keys /\ S = Range(w.got)
  BY CursorFacts, WalkFacts DEF Range, History
<1> HIDE DEF S
<1>3. /\ q.mode = "seen" /\ q.seen = S /\ q.next = c.next /\ q.remaining = c.remaining
      /\ q.lastIndex = c.lastIndex /\ q.lastKey = c.lastKey /\ q.recordedLen = c.recordedLen
      /\ q.phase = c.phase /\ q.watching = c.watching
      /\ q.observed = c.observed /\ q.structural = c.structural
      /\ q.entryCursor = c.entryCursor
  BY DEF IsCursor, CursorType
<1>4. IsCursor(q)
  <2> DEFINE E == {c.entryCursor}
  <2>1. c \in CursorType(E)
    BY DEF IsCursor
  <2> HIDE DEF E
  <2>2. <<>> \in Seq(Keys)
    OBVIOUS
  <2>3. q \in CursorType(E)
    BY <1>2, <2>1, <2>2 DEF CursorType
  <2> HIDE DEF q
  <2> QED BY <2>3, <1>3 DEF IsCursor, E
<1> HIDE DEF q
<1> QED BY <1>1, <1>2, <1>3, <1>4 DEF Seen, LiveWalk, SameWalk, History

\* A cursor that has recovered, or had before: where it goes on is known.
LEMMA WithSeenOK ==
    ASSUME NEW c, NEW w, IsCursor(c), IsWalk(w), Form(c, w),
           c.mode = "seen" /\ w.steady => c.next = Len(w.got)
    PROVE  LET q == WithSeen(c)
           IN  /\ IsCursor(q) /\ SameWalk(q, c) /\ q.mode = "seen"
               /\ q.observed = c.observed /\ q.structural = c.structural
               /\ Seen(q, w) /\ LiveWalk(q, w) /\ (w.steady => q.next = Len(w.got))
<1>1. c.mode \in {"history", "snapshot", "seen"}
  BY CursorFacts
<1>2. CASE c.mode = "snapshot"
  BY <1>2, WithSeenSnapshot DEF Form
<1>3. CASE c.mode = "history"
  BY <1>3, WithSeenHistory DEF Form
<1>4. CASE c.mode = "seen"
  BY <1>4 DEF Form, WithSeen, SameWalk
<1> QED BY <1>1, <1>2, <1>3, <1>4

\* The place of a key.
LEMMA IndexInOK ==
    ASSUME NEW d \in Seq(Keys), IsInjective(d), NEW k
    PROVE  /\ IndexIn(d, k) \in Int
           /\ k \notin Range(d) => IndexIn(d, k) = -1
           /\ k \in Range(d) => IndexIn(d, k) + 1 \in 1..Len(d) /\ d[IndexIn(d, k) + 1] = k
           /\ \A i \in 1..Len(d) : d[i] = k => IndexIn(d, k) = i - 1
<1>1. Len(d) \in Nat /\ DOMAIN d = 1..Len(d) /\ Range(d) = {d[i] : i \in 1..Len(d)}
  BY SeqFacts
<1>2. CASE k \notin Range(d)
  BY <1>1, <1>2 DEF IndexIn
<1>3. CASE k \in Range(d)
  <2> DEFINE m == CHOOSE i \in DOMAIN d : d[i] = k
  <2>1. \E i \in DOMAIN d : d[i] = k
    BY <1>1, <1>3
  <2>2. m \in DOMAIN d /\ d[m] = k
    BY <2>1
  <2>3. IndexIn(d, k) = m - 1
    BY <1>3 DEF IndexIn
  <2> HIDE DEF m
  <2>4. \A i \in 1..Len(d) : d[i] = k => i = m
    BY <1>1, <2>2 DEF IsInjective
  <2>5. m \in Int /\ (m - 1) + 1 = m
    BY <1>1, <2>2
  <2>6. IndexIn(d, k) + 1 \in 1..Len(d) /\ d[IndexIn(d, k) + 1] = k /\ IndexIn(d, k) \in Int
    BY <1>1, <2>2, <2>3, <2>5
  <2> QED BY <1>3, <2>3, <2>4, <2>6
<1> QED BY <1>2, <1>3

\* A cursor that found a new version: the fields that change.
LEMMA NoticedOK ==
    ASSUME NEW c, IsCursor(c), IsReg(reg)
    PROVE  LET q == Noticed(c)
           IN  /\ IsCursor(q) /\ SameWalk(q, c) /\ q.observed = reg.version
               /\ q.mode = c.mode /\ q.order = c.order /\ q.pos = c.pos /\ q.seen = c.seen
               /\ q.next = c.next /\ q.lastKey = c.lastKey /\ q.lastIndex = c.lastIndex
               /\ q.remaining = c.remaining
               /\ q.structural = (c.structural \/ (c.watching /\ KeyReinserted(reg, c.lastKey, c.observed, c.entryCursor)))
<1> DEFINE b == c.structural \/ (c.watching /\ KeyReinserted(reg, c.lastKey, c.observed, c.entryCursor))
           v == reg.version
           E == {c.entryCursor}
           q == [c EXCEPT !.structural = b, !.observed = v]
<1>1. Noticed(c) = q
  BY DEF Noticed, IsCursor, CursorType
<1>2. b \in BOOLEAN /\ v \in Nat
  BY DEF IsReg
<1>3. c \in CursorType(E)
  BY DEF IsCursor
<1> HIDE DEF b, v, E
<1>4. q \in CursorType(E)
  BY <1>2, <1>3 DEF CursorType
<1>5. /\ q.observed = v /\ q.structural = b
      /\ q.mode = c.mode /\ q.order = c.order /\ q.pos = c.pos /\ q.seen = c.seen
      /\ q.next = c.next /\ q.lastKey = c.lastKey /\ q.lastIndex = c.lastIndex
      /\ q.phase = c.phase /\ q.recordedLen = c.recordedLen /\ q.remaining = c.remaining
      /\ q.watching = c.watching /\ q.entryCursor = c.entryCursor
  BY <1>3 DEF CursorType
<1> HIDE DEF q
<1>6. IsCursor(q)
  BY <1>4, <1>5 DEF IsCursor, E
<1> QED BY <1>1, <1>5, <1>6 DEF SameWalk, b, v

\* The key handed out last is not where it was.
Moved(c) == c.lastKey # NoKey /\ IndexIn(dict, c.lastKey) # c.lastIndex

\* A restarted walk goes on at 0 and is known to be structural.
LEMMA RestartedOK ==
    ASSUME NEW c, IsCursor(c)
    PROVE  LET q == Restarted(c)
           IN  /\ IsCursor(q) /\ SameWalk(q, c) /\ q.observed = c.observed
               /\ q.mode = c.mode /\ q.order = c.order /\ q.pos = c.pos /\ q.seen = c.seen
               /\ q.lastKey = c.lastKey /\ q.lastIndex = c.lastIndex
               /\ q.remaining = c.remaining
               /\ Moved(c) => q.next = 0 /\ q.structural
               /\ ~Moved(c) => q.next = c.next /\ q.structural = c.structural
<1>1. CASE ~Moved(c)
  BY <1>1 DEF Restarted, SameWalk, Moved
<1>2. CASE Moved(c)
  <2> DEFINE E == {c.entryCursor}
             q == [c EXCEPT !.next = 0, !.structural = TRUE]
  <2>1. Restarted(c) = q
    BY <1>2 DEF Restarted, Moved
  <2>3. c \in CursorType(E)
    BY DEF IsCursor
  <2> HIDE DEF E
  <2>4. q \in CursorType(E)
    BY <2>3 DEF CursorType
  <2>5. /\ q.next = 0 /\ q.structural /\ q.observed = c.observed
        /\ q.mode = c.mode /\ q.order = c.order /\ q.pos = c.pos /\ q.seen = c.seen
        /\ q.lastKey = c.lastKey /\ q.lastIndex = c.lastIndex
        /\ q.phase = c.phase /\ q.recordedLen = c.recordedLen /\ q.remaining = c.remaining
        /\ q.watching = c.watching /\ q.entryCursor = c.entryCursor
    BY <2>3 DEF CursorType
  <2> HIDE DEF q
  <2>6. IsCursor(q)
    BY <2>4, <2>5 DEF IsCursor, E
  <2> QED BY <1>2, <2>1, <2>5, <2>6 DEF SameWalk
<1> QED BY <1>1, <1>2

-----------------------------------------------------------------------------
(* A prepared cursor *)

\* The order is still the one the walk began with.
Steady(w) == w.steady /\ dict = w.start

\* The key handed out last was removed, put back and is where it was.
Linked(w, p) == w.relinked \/ Relinks(w, p)

\* What a step may rely on once the cursor has settled on a form.
Ready(p, w) ==
    /\ IsCursor(p) /\ p.phase = "walking" /\ p.observed = reg.version
    /\ p.recordedLen = Len(w.start) /\ Len(dict) = p.recordedLen
    /\ Len(w.got) <= p.recordedLen

\* The captured order is the live one.
ReadySnapshot(p, w) ==
    p.mode = "snapshot" =>
      Snapshot(p, w) /\ p.order = dict /\ ~w.lastGone

\* The index walk has handed out what lies behind it, unless it was misled.
ReadyLive(p, w) ==
    p.mode # "snapshot" =>
      /\ p.mode = "history" => History(p, w) /\ Begins(w.got, dict)
      /\ p.mode = "seen" => Seen(p, w)
      /\ p.remaining = p.recordedLen - Len(w.got)
      /\ Steady(w) => p.next = Len(w.got)
      /\ ~Linked(w, p) =>
            \A j \in 1..Len(dict) : j <= p.next => dict[j] \in Range(w.got)

\* A complaint needs a reason.
ReadyFlags(p, w) ==
    /\ p.watching => Len(w.got) = p.recordedLen /\ w.got # <<>> /\ p.lastKey = Last(w.got)
    /\ Steady(w) /\ p.structural => w.lastGone /\ p.watching

\* The first mutation noticed: the cursor recovers.
LEMMA RecoveredOK ==
    ASSUME NEW c, NEW w, CursorOK(c, w, dict, reg), c.phase = "walking", IsReg(reg),
           dict \in Seq(Keys), IsInjective(dict), Len(dict) = c.recordedLen
    PROVE  LET p == Recovered(c)
           IN  /\ Ready(p, w) /\ p.mode = "seen" /\ ReadyLive(p, w) /\ ReadyFlags(p, w)
               /\ p.watching = c.watching
<1> DEFINE c1 == Noticed(c)
           c2 == WithSeen(c1)
           p == Restarted(c2)
<1>1. /\ IsCursor(c) /\ IsWalk(w) /\ Form(c, w) /\ Yields(c, w) /\ Reached(w, dict)
      /\ Watch(c, w, reg)
  BY DEF CursorOK, Walking
<1>2. /\ IsCursor(c1) /\ SameWalk(c1, c) /\ c1.observed = reg.version
      /\ c1.mode = c.mode /\ c1.order = c.order /\ c1.pos = c.pos /\ c1.seen = c.seen
      /\ c1.next = c.next /\ c1.lastKey = c.lastKey /\ c1.lastIndex = c.lastIndex
      /\ c1.remaining = c.remaining
      /\ c1.structural = (c.structural \/ (c.watching /\ KeyReinserted(reg, c.lastKey, c.observed, c.entryCursor)))
  BY <1>1, NoticedOK
<1> HIDE DEF c1
<1>3. Form(c1, w)
  BY <1>1, <1>2 DEF Form, Snapshot, History, Seen, LiveWalk, SameWalk
<1>4. c1.structural => c.structural \/ (c.watching /\ w.lastGone)
  BY <1>1, <1>2 DEF KeyReinserted, Watch
<1>5. /\ IsCursor(c2) /\ SameWalk(c2, c1) /\ c2.mode = "seen"
      /\ c2.observed = c1.observed /\ c2.structural = c1.structural
      /\ Seen(c2, w) /\ LiveWalk(c2, w) /\ (w.steady => c2.next = Len(w.got))
  <2>1. c1.mode = "seen" /\ w.steady => c1.next = Len(w.got)
    BY <1>1, <1>2 DEF Yields
  <2> QED BY <1>1, <1>2, <1>3, <2>1, WithSeenOK
<1> HIDE DEF c2
<1>6. /\ IsCursor(p) /\ SameWalk(p, c2) /\ p.observed = c2.observed
      /\ p.mode = c2.mode /\ p.order = c2.order /\ p.pos = c2.pos /\ p.seen = c2.seen
      /\ p.lastKey = c2.lastKey /\ p.lastIndex = c2.lastIndex
      /\ p.remaining = c2.remaining
      /\ (Moved(c2) => p.next = 0 /\ p.structural)
      /\ (~Moved(c2) => p.next = c2.next /\ p.structural = c2.structural)
  BY <1>5, RestartedOK
<1>7. p = Recovered(c)
  BY DEF Recovered, c1, c2
<1> HIDE DEF p
<1>8. /\ Len(w.got) \in Nat /\ Len(w.start) \in Nat /\ Len(dict) \in Nat
      /\ c2.next \in Nat /\ c2.lastIndex \in Nat /\ w.got \in Seq(Keys)
      /\ w.got # <<>> => Len(w.got) >= 1 /\ Last(w.got) \in Keys
  BY <1>1, <1>5, WalkFacts, CursorFacts DEF Last
<1>9. Ready(p, w)
  BY <1>1, <1>2, <1>5, <1>6, <1>8 DEF Ready, SameWalk, Form, Yields
<1>10. Steady(w) => ~Moved(c2)
  <2> SUFFICES ASSUME Steady(w), Moved(c2) PROVE FALSE
    OBVIOUS
  <2>1. w.got # <<>> /\ c2.lastKey = Last(w.got) /\ c2.next = c2.lastIndex + 1 /\ c2.next = Len(w.got)
    BY <1>5 DEF Steady, Moved, LiveWalk
  <2>2. Begins(w.got, dict)
    BY <1>1 DEF Steady, Yields
  <2>3. Len(w.got) \in 1..Len(dict) /\ dict[Len(w.got)] = c2.lastKey
    BY <2>1, <2>2, <1>8 DEF Begins, Last
  <2>4. IndexIn(dict, c2.lastKey) = Len(w.got) - 1
    BY <2>3, IndexInOK
  <2> QED BY <2>1, <2>4, <1>8 DEF Moved
<1>11. ~Linked(w, p) => \A j \in 1..Len(dict) : j <= p.next => dict[j] \in Range(w.got)
  <2> SUFFICES ASSUME ~Linked(w, p), NEW j \in 1..Len(dict), j <= p.next
               PROVE  dict[j] \in Range(w.got)
    OBVIOUS
  <2>1. ~Moved(c2) /\ p.next = c2.next
    BY <1>6, <1>8
  <2>2. w.got # <<>> /\ c2.lastKey = Last(w.got) /\ c2.next = c2.lastIndex + 1
    BY <2>1, <1>5, <1>8 DEF LiveWalk
  <2>3. IndexIn(dict, Last(w.got)) = c2.lastIndex
    BY <2>1, <2>2, <1>8, NoKeyAssumption DEF Moved
  <2>4. ~w.lastGone /\ ~w.relinked
    BY <2>3, <1>6 DEF Linked, Relinks
  <2>5. PICK i \in 1..Len(dict) : /\ dict[i] = Last(w.got)
                                  /\ \A m \in 1..i : dict[m] \in Range(w.got)
    BY <2>2, <2>4, <1>1 DEF Reached
  <2>6. IndexIn(dict, Last(w.got)) = i - 1
    BY <2>5, IndexInOK
  <2>7. j \in 1..i
    BY <2>1, <2>2, <2>3, <2>6, <1>8
  <2> QED BY <2>5, <2>7
<1>12. ReadyLive(p, w)
  <2>1. p.mode = "seen" /\ Seen(p, w)
    BY <1>5, <1>6 DEF Seen
  <2>2. p.remaining = p.recordedLen - Len(w.got)
    BY <1>5, <1>6 DEF LiveWalk, SameWalk
  <2>3. Steady(w) => p.next = Len(w.got)
    BY <1>5, <1>6, <1>10 DEF Steady
  <2> QED BY <2>1, <2>2, <2>3, <1>11 DEF ReadyLive
<1>13. ReadyFlags(p, w)
  <2>1. p.watching => Len(w.got) = p.recordedLen /\ w.got # <<>> /\ p.lastKey = Last(w.got)
    BY <1>1, <1>2, <1>5, <1>6 DEF Watch, SameWalk, LiveWalk
  <2>2. ASSUME Steady(w), p.structural PROVE w.lastGone /\ p.watching
    <3>1. c2.structural
      BY <2>2, <1>6, <1>10
    <3>2. ~c.structural
      BY <2>2, <1>1 DEF Steady, Yields
    <3> QED BY <3>1, <3>2, <1>2, <1>4, <1>5, <1>6 DEF SameWalk
  <2> QED BY <2>1, <2>2 DEF ReadyFlags
<1> QED BY <1>2, <1>5, <1>6, <1>7, <1>9, <1>12, <1>13 DEF SameWalk

\* A cursor that sees the version it observed is ready as it is.
LEMMA CurrentOK ==
    ASSUME NEW c, NEW w, CursorOK(c, w, dict, reg), c.phase = "walking",
           dict \in Seq(Keys), IsInjective(dict), c.observed = reg.version
    PROVE  /\ Ready(c, w) /\ ReadySnapshot(c, w) /\ ReadyLive(c, w) /\ ReadyFlags(c, w)
<1>1. /\ IsCursor(c) /\ IsWalk(w) /\ Form(c, w) /\ Yields(c, w) /\ Reached(w, dict)
      /\ Watch(c, w, reg) /\ Current(c, w, dict)
  BY DEF CursorOK, Walking
<1>2. /\ Len(w.got) \in Nat /\ Len(w.start) \in Nat /\ Len(dict) \in Nat
      /\ c.next \in Nat /\ w.got \in Seq(Keys) /\ c.mode \in {"history", "snapshot", "seen"}
      /\ w.got # <<>> => Len(w.got) >= 1 /\ Last(w.got) \in Keys
  BY <1>1, WalkFacts, CursorFacts DEF Last
<1>3. Ready(c, w)
  BY <1>1, <1>2 DEF Ready, Form, Yields, Current
<1>4. ReadySnapshot(c, w)
  BY <1>1 DEF ReadySnapshot, Form, Current
<1>5. ReadyFlags(c, w)
  BY <1>1 DEF ReadyFlags, Watch, Yields, Steady
<1>6. ASSUME c.mode # "snapshot", ~Linked(w, c), NEW j \in 1..Len(dict), j <= c.next
      PROVE  dict[j] \in Range(w.got)
  <2>1. w.got # <<>> /\ c.next = c.lastIndex + 1
    BY <1>6, <1>1, <1>2 DEF Form, LiveWalk
  <2>2. CASE c.mode = "history"
    <3>1. j \in 1..Len(w.got) /\ dict[j] = w.got[j]
      BY <2>2, <1>6, <1>1, <1>2 DEF Form, History, Current, Begins
    <3> QED BY <3>1, <1>2, SeqFacts
  <2>3. CASE c.mode = "seen"
    <3>1. c.next \in 1..Len(dict) /\ dict[c.next] = Last(w.got)
      BY <2>1, <2>3, <1>6, <1>1, <1>2 DEF Current
    <3>2. PICK i \in 1..Len(dict) : /\ dict[i] = Last(w.got)
                                    /\ \A m \in 1..i : dict[m] \in Range(w.got)
      BY <2>1, <1>6, <1>1 DEF Reached, Linked, Current
    <3>3. IndexIn(dict, Last(w.got)) = i - 1 /\ IndexIn(dict, Last(w.got)) = c.next - 1
      BY <3>1, <3>2, IndexInOK
    <3>4. j \in 1..i
      BY <3>1, <3>2, <3>3, <1>2, <1>6
    <3> QED BY <3>2, <3>4
  <2> QED BY <2>2, <2>3, <1>2, <1>6
<1>7. ReadyLive(c, w)
  <2> SUFFICES ASSUME c.mode # "snapshot" PROVE ReadyLive(c, w)
    BY DEF ReadyLive
  <2>1. /\ c.mode = "history" => History(c, w) /\ Begins(w.got, dict)
        /\ c.mode = "seen" => Seen(c, w)
        /\ c.remaining = c.recordedLen - Len(w.got)
    BY <1>1 DEF Form, LiveWalk, Current
  <2>2. Steady(w) => c.next = Len(w.got)
    BY <1>1 DEF Steady, Yields
  <2> QED BY <2>1, <2>2, <1>6 DEF ReadyLive
<1> QED BY <1>3, <1>4, <1>5, <1>7

\* A snapshot is adopted after at least one key.
LEMMA TriggerOK ==
    ASSUME NEW n \in Nat
    PROVE  SnapshotTrigger(n) \in Nat /\ SnapshotTrigger(n) >= 1
<1> DEFINE e == n \div 8
<1>1. e \in Int
  OBVIOUS
<1>2. SnapshotTrigger(n) = IF e < 1 THEN 1 ELSE IF e > Threshold THEN Threshold ELSE e
  BY DEF SnapshotTrigger
<1> HIDE DEF e
<1>3. Threshold \in Nat /\ Threshold # 0
  BY ThresholdAssumption
<1> QED BY <1>1, <1>2, <1>3

\* Settling on a form keeps it ready.
LEMMA AdaptedOK ==
    ASSUME NEW c, NEW w, IsWalk(w), dict \in Seq(Keys), IsInjective(dict), Ready(c, w),
           ReadySnapshot(c, w), ReadyLive(c, w), ReadyFlags(c, w),
           c.mode = "history" => ~w.lastGone
    PROVE  LET p == Adapted(c)
           IN  /\ Ready(p, w) /\ ReadySnapshot(p, w) /\ ReadyLive(p, w) /\ ReadyFlags(p, w)
               /\ p.structural = c.structural /\ p.watching = c.watching
<1> DEFINE p == [c EXCEPT !.mode = "snapshot", !.pos = Len(c.order), !.order = dict]
           E == {c.entryCursor}
           n == Len(c.order)
<1>1. CASE c.mode # "history" \/ Len(c.order) < SnapshotTrigger(c.recordedLen)
  BY <1>1 DEF Adapted
<1>2. CASE c.mode = "history" /\ ~(Len(c.order) < SnapshotTrigger(c.recordedLen))
  <2>1. c.order = w.got /\ Begins(w.got, dict) /\ c.order \in Seq(Keys) /\ n \in Nat
    BY <1>2, WalkFacts DEF ReadyLive, History
  <2>2. IsPrefix(c.order, dict)
    BY <2>1, BeginsIsPrefix
  <2>3. Adapted(c) = p
    BY <1>2, <2>2 DEF Adapted
  <2>4. n # 0
    <3>1. c.recordedLen \in Nat
      BY CursorFacts DEF Ready
    <3>2. SnapshotTrigger(c.recordedLen) \in Nat /\ SnapshotTrigger(c.recordedLen) >= 1
      BY <3>1, TriggerOK
    <3> QED BY <2>1, <3>2, <1>2
  <2>5. c \in CursorType(E)
    BY DEF Ready, IsCursor
  <2> HIDE DEF E, n
  <2>6. p \in CursorType(E)
    BY <2>1, <2>5 DEF CursorType, n
  <2>7. /\ p.mode = "snapshot" /\ p.pos = n /\ p.order = dict
        /\ p.next = c.next /\ p.lastKey = c.lastKey /\ p.lastIndex = c.lastIndex
        /\ p.phase = c.phase /\ p.recordedLen = c.recordedLen /\ p.remaining = c.remaining
        /\ p.watching = c.watching /\ p.entryCursor = c.entryCursor
        /\ p.observed = c.observed /\ p.structural = c.structural
    BY <2>5 DEF CursorType, n
  <2> HIDE DEF p
  <2>8. Ready(p, w)
    BY <2>6, <2>7 DEF Ready, IsCursor, E
  <2>9. ReadySnapshot(p, w)
    <3>1. w.got # <<>> /\ n = Len(w.got)
      BY <2>1, <2>4, WalkFacts DEF n
    <3>2. p.remaining <= p.recordedLen
      <4>1. c.remaining = c.recordedLen - Len(w.got) /\ c.recordedLen \in Nat /\ Len(w.got) \in Nat
        BY <1>2, WalkFacts, CursorFacts DEF ReadyLive, Ready
      <4> QED BY <4>1, <2>7
    <3> QED BY <1>2, <2>1, <2>7, <3>1, <3>2 DEF ReadySnapshot, Snapshot, Ready
  <2>10. ReadyLive(p, w) /\ ReadyFlags(p, w)
    BY <2>7 DEF ReadyLive, ReadyFlags
  <2> QED BY <2>3, <2>7, <2>8, <2>9, <2>10
<1>3. c.mode \in {"history", "snapshot", "seen"} /\ Len(c.order) \in Nat
  BY CursorFacts DEF Ready
<1> QED BY <1>1, <1>2

\* A walking cursor whose size is right is ready once it is prepared.
LEMMA PreparedOK ==
    ASSUME NEW c, NEW w, CursorOK(c, w, dict, reg), c.phase = "walking", IsReg(reg),
           dict \in Seq(Keys), IsInjective(dict),
           c.observed # reg.version => Len(dict) = c.recordedLen
    PROVE  LET p == Prepared(c)
           IN  /\ Ready(p, w) /\ ReadySnapshot(p, w) /\ ReadyLive(p, w) /\ ReadyFlags(p, w)
               /\ p.structural = Checked(c).structural /\ p.watching = c.watching
<1>1. IsWalk(w)
  BY DEF CursorOK
<1>2. CASE c.observed = reg.version
  <2>1. Checked(c) = c
    BY <1>2 DEF Checked
  <2>2. ~w.lastGone
    BY <1>2 DEF CursorOK, Walking, Current
  <2> QED BY <1>1, <1>2, <2>1, <2>2, CurrentOK, AdaptedOK DEF Prepared
<1>3. CASE c.observed # reg.version
  <2> DEFINE q == Recovered(c)
  <2>1. Checked(c) = q
    BY <1>3 DEF Checked
  <2>2. /\ Ready(q, w) /\ q.mode = "seen" /\ ReadyLive(q, w) /\ ReadyFlags(q, w)
        /\ q.watching = c.watching
    BY <1>3, RecoveredOK
  <2> HIDE DEF q
  <2>4. Adapted(q) = q
    BY <2>2 DEF Adapted
  <2> QED BY <2>1, <2>2, <2>4 DEF Prepared, ReadySnapshot
<1> QED BY <1>2, <1>3

-----------------------------------------------------------------------------
(* A key is handed out *)

\* h is g and then k.
Appended(g, h, k) ==
    /\ h \in Seq(Keys) /\ Len(h) = Len(g) + 1 /\ h # <<>> /\ Last(h) = k
    /\ \A i \in 1..Len(g) : h[i] = g[i]
    /\ h[Len(g) + 1] = k
    /\ Range(h) = Range(g) \cup {k}

\* Append does that.
LEMMA AppendOK ==
    ASSUME NEW g \in Seq(Keys), NEW k \in Keys
    PROVE  Appended(g, Append(g, k), k)
<1> DEFINE h == Append(g, k)
           n == Len(g)
<1>1. /\ h \in Seq(Keys) /\ n \in Nat /\ Len(h) = n + 1 /\ h[n + 1] = k
      /\ \A i \in 1..n : h[i] = g[i]
  BY AppendProperties
<1> HIDE DEF h
<1>2. h # <<>> /\ Last(h) = k
  BY <1>1 DEF Last
<1>3. Range(h) = Range(g) \cup {k}
  <2>1. Range(h) = {h[i] : i \in 1..n + 1} /\ Range(g) = {g[i] : i \in 1..n}
    BY <1>1, SeqFacts
  <2>2. \A x \in Range(h) : x \in Range(g) \cup {k}
    <3> SUFFICES ASSUME NEW i \in 1..n + 1 PROVE h[i] \in Range(g) \cup {k}
      BY <2>1
    <3>1. i \in 1..n \/ i = n + 1
      BY <1>1
    <3> QED BY <3>1, <2>1, <1>1
  <2>3. \A x \in Range(g) \cup {k} : x \in Range(h)
    <3>1. k \in Range(h)
      <4>1. n + 1 \in 1..n + 1
        BY <1>1
      <4> QED BY <4>1, <2>1, <1>1
    <3>2. ASSUME NEW i \in 1..n PROVE g[i] \in Range(h)
      <4>1. i \in 1..n + 1
        BY <1>1
      <4> QED BY <4>1, <2>1, <1>1
    <3> QED BY <3>1, <3>2, <2>1
  <2> QED BY <2>2, <2>3
<1> QED BY <1>1, <1>2, <1>3 DEF Appended, h, n

\* A new key keeps the sequence free of repetitions.
LEMMA AppendedOnce ==
    ASSUME NEW g \in Seq(Keys), NEW h, NEW k, Appended(g, h, k), IsInjective(g),
           k \notin Range(g)
    PROVE  IsInjective(h)
<1>1. /\ h \in Seq(Keys) /\ Len(h) = Len(g) + 1 /\ Len(g) \in Nat
      /\ \A i \in 1..Len(g) : h[i] = g[i] /\ g[i] # k
      /\ h[Len(g) + 1] = k
  BY SeqFacts DEF Appended
<1>2. \A i, j \in 1..Len(g) : g[i] = g[j] => i = j
  BY SeqFacts DEF IsInjective
<1>3. DOMAIN h = 1..(Len(g) + 1)
  BY <1>1
<1>4. SUFFICES ASSUME NEW a \in DOMAIN h, NEW b \in DOMAIN h, h[a] = h[b] PROVE a = b
  BY DEF IsInjective
<1>5. (a \in 1..Len(g) \/ a = Len(g) + 1) /\ (b \in 1..Len(g) \/ b = Len(g) + 1)
  BY <1>1, <1>3
<1> QED BY <1>1, <1>2, <1>4, <1>5

\* What a step does to the history.
LEMMA YieldedFields ==
    ASSUME NEW w, IsWalk(w), NEW p, NEW k \in Keys
    PROVE  LET x == Yielded(w, p, k)
           IN  /\ IsWalk(x) /\ x.start = w.start /\ x.got = Append(w.got, k)
               /\ x.steady = Steady(w) /\ x.relinked = Linked(w, p) /\ ~x.lastGone
<1> DEFINE s == Steady(w)
           l == Linked(w, p)
           g == Append(w.got, k)
           y == [w EXCEPT !.steady = s, !.relinked = l, !.lastGone = FALSE]
           x == [y EXCEPT !.got = g]
<1>1. w.start \in Seq(Keys) /\ w.got \in Seq(Keys)
  BY WalkFacts
<1>2. s \in BOOLEAN /\ l \in BOOLEAN /\ g \in Seq(Keys)
  BY <1>1, AppendProperties DEF Steady, Linked
<1>3. Yielded(w, p, k) = x
  BY DEF Yielded, Stepped, Steady, Linked, IsWalk
<1> HIDE DEF s, l, g
<1>4. IsWalk(x) /\ x.start = w.start /\ x.got = g /\ x.steady = s /\ x.relinked = l /\ ~x.lastGone
  BY <1>1, <1>2 DEF IsWalk
<1> HIDE DEF x
<1> QED BY <1>3, <1>4 DEF s, l, g

\* What a history must be for a step that hands out the key at place i.
Fits(w, p, i) ==
    /\ IsWalk(w) /\ IsInjective(w.got)
    /\ w.steady => Begins(w.got, w.start)
    /\ i \in 1..Len(dict) /\ dict[i] \notin Range(w.got) /\ Len(w.got) < Len(w.start)
    /\ Steady(w) => i = Len(w.got) + 1
    /\ ~Linked(w, p) => \A j \in 1..(i - 1) : dict[j] \in Range(w.got)

\* Then it stays sound.
LEMMA YieldedOK ==
    ASSUME NEW w, NEW p, NEW i, Fits(w, p, i), dict \in Seq(Keys)
    PROVE  LET x == Yielded(w, p, dict[i])
           IN  /\ IsWalk(x) /\ x.start = w.start /\ Appended(w.got, x.got, dict[i])
               /\ x.steady = Steady(w) /\ ~x.lastGone
               /\ IsInjective(x.got) /\ Len(x.got) <= Len(x.start)
               /\ x.steady => Begins(x.got, x.start)
               /\ Reached(x, dict)
<1> DEFINE k == dict[i]
           x == Yielded(w, p, k)
<1>1. /\ IsWalk(w) /\ IsInjective(w.got) /\ (w.steady => Begins(w.got, w.start))
      /\ i \in 1..Len(dict) /\ k \notin Range(w.got) /\ Len(w.got) < Len(w.start)
      /\ (Steady(w) => i = Len(w.got) + 1)
      /\ (~Linked(w, p) => \A j \in 1..(i - 1) : dict[j] \in Range(w.got))
  BY DEF Fits
<1>2. /\ k \in Keys /\ Len(w.got) \in Nat /\ Len(w.start) \in Nat /\ i \in Nat
      /\ w.got \in Seq(Keys) /\ Len(dict) \in Nat
  BY <1>1, WalkFacts
<1>k. k = dict[i]
  OBVIOUS
<1> HIDE DEF k
<1>3. /\ IsWalk(x) /\ x.start = w.start /\ x.got = Append(w.got, k)
      /\ x.steady = Steady(w) /\ x.relinked = Linked(w, p) /\ ~x.lastGone
  BY <1>1, <1>2, YieldedFields
<1> HIDE DEF x
<1>4. Appended(w.got, x.got, k)
  BY <1>2, <1>3, AppendOK
<1>5. IsInjective(x.got)
  BY <1>1, <1>2, <1>4, AppendedOnce
<1>6. Len(x.got) <= Len(x.start)
  BY <1>1, <1>2, <1>3, <1>4 DEF Appended
<1>7. ASSUME x.steady PROVE Begins(x.got, x.start)
  <2>1. Steady(w) /\ i = Len(w.got) + 1 /\ Begins(w.got, dict) /\ dict = x.start
    BY <1>1, <1>3, <1>7 DEF Steady
  <2>2. \A j \in 1..Len(w.got) : x.got[j] = dict[j]
    BY <2>1, <1>4 DEF Begins, Appended
  <2>3. x.got[i] = dict[i] /\ Len(x.got) = i
    BY <2>1, <1>4, <1>k DEF Appended
  <2>4. ASSUME NEW j \in 1..Len(x.got) PROVE x.got[j] = dict[j]
    <3>1. j \in 1..Len(w.got) \/ j = i
      BY <2>1, <2>3, <1>2
    <3> QED BY <3>1, <2>2, <2>3
  <2> QED BY <2>1, <2>4, <1>6 DEF Begins
<1>8. Reached(x, dict)
  <2> SUFFICES ASSUME ~x.relinked
               PROVE  dict[i] = Last(x.got) /\ \A j \in 1..i : dict[j] \in Range(x.got)
    BY <1>1 DEF Reached
  <2>1. dict[i] = Last(x.got) /\ k \in Range(x.got) /\ Range(w.got) \subseteq Range(x.got)
    BY <1>4, <1>k DEF Appended
  <2>2. ASSUME NEW j \in 1..i PROVE dict[j] \in Range(x.got)
    <3>1. j \in 1..(i - 1) \/ j = i
      BY <1>2
    <3> QED BY <3>1, <2>1, <1>1, <1>3, <1>k
  <2> QED BY <2>1, <2>2
<1> QED BY <1>3, <1>4, <1>5, <1>6, <1>7, <1>8 DEF k, x

\* q is p after it handed out the next key of its snapshot.
SnapshotTo(p, q) ==
    /\ IsCursor(q) /\ q.phase = p.phase /\ q.mode = "snapshot" /\ q.order = p.order
    /\ q.pos = p.pos + 1 /\ q.recordedLen = p.recordedLen /\ q.observed = p.observed
    /\ q.structural = p.structural /\ q.remaining = p.remaining
    /\ q.watching /\ ~p.watching => p.pos + 1 = p.recordedLen /\ q.lastKey = p.order[p.pos + 1]

\* q is p after it handed out the key at place i + 1 of the live order.
LiveTo(p, q, i) ==
    /\ IsCursor(q) /\ q.phase = p.phase /\ q.mode = p.mode
    /\ p.mode = "history" => q.order = Append(p.order, dict[i + 1])
    /\ p.mode = "seen" => q.seen = p.seen \cup {dict[i + 1]}
    /\ q.next = i + 1 /\ q.lastKey = dict[i + 1] /\ q.lastIndex = i
    /\ q.remaining = p.remaining - 1
    /\ q.recordedLen = p.recordedLen /\ q.observed = p.observed
    /\ q.structural = p.structural
    /\ q.watching /\ ~p.watching => p.remaining = 1

\* A step of advance_snapshot_key_cursor.
LEMMA SnapshotStepOK ==
    ASSUME NEW w, NEW p, NEW q, IsReg(reg), NotesOK(dict, reg),
           dict \in Seq(Keys), IsInjective(dict), IsWalk(w), IsInjective(w.got),
           w.steady => Begins(w.got, w.start),
           Ready(p, w), ReadySnapshot(p, w), ReadyFlags(p, w),
           p.mode = "snapshot", p.pos < Len(p.order), SnapshotTo(p, q)
    PROVE  CursorOK(q, Yielded(w, p, p.order[p.pos + 1]), dict, reg)
<1> DEFINE i == p.pos + 1
           x == Yielded(w, p, dict[i])
<1>1. /\ IsCursor(p) /\ p.phase = "walking" /\ p.observed = reg.version
      /\ p.recordedLen = Len(w.start) /\ Len(dict) = p.recordedLen
      /\ p.order = dict /\ p.pos = Len(w.got) /\ Begins(w.got, dict)
      /\ ~w.lastGone /\ p.remaining <= p.recordedLen
  BY DEF Ready, ReadySnapshot, Snapshot
<1>2. /\ Len(w.got) \in Nat /\ Len(dict) \in Nat /\ w.got \in Seq(Keys) /\ reg.version \in Nat
      /\ DOMAIN dict = 1..Len(dict)
  BY WalkFacts DEF IsReg
<1>3. i \in 1..Len(dict) /\ i = Len(w.got) + 1 /\ Len(w.got) < Len(w.start) /\ dict[i] \in Keys
  BY <1>1, <1>2
<1> HIDE DEF i
<1>4. \A j \in 1..(i - 1) : dict[j] \in Range(w.got) /\ dict[j] = w.got[j]
  BY <1>1, <1>2, <1>3, SeqFacts DEF Begins
<1>5. dict[i] \notin Range(w.got)
  <2>1. ASSUME NEW j \in 1..Len(w.got), w.got[j] = dict[i] PROVE FALSE
    <3>1. j \in DOMAIN dict /\ i \in DOMAIN dict /\ dict[j] = dict[i] /\ j # i
      BY <2>1, <1>1, <1>2, <1>3 DEF Begins
    <3> QED BY <3>1 DEF IsInjective
  <2> QED BY <2>1, <1>2, SeqFacts
<1>6. Fits(w, p, i)
  BY <1>3, <1>4, <1>5 DEF Fits
<1>7. /\ IsWalk(x) /\ x.start = w.start /\ Appended(w.got, x.got, dict[i])
      /\ x.steady = Steady(w) /\ ~x.lastGone
      /\ IsInjective(x.got) /\ Len(x.got) <= Len(x.start)
      /\ (x.steady => Begins(x.got, x.start))
      /\ Reached(x, dict)
  BY <1>6, YieldedOK
<1> HIDE DEF x
<1>8. /\ IsCursor(q) /\ q.phase = "walking" /\ q.mode = "snapshot" /\ q.order = dict
      /\ q.pos = i /\ q.recordedLen = Len(w.start) /\ q.observed = reg.version
      /\ q.structural = p.structural /\ q.remaining = p.remaining
      /\ (q.watching /\ ~p.watching => i = p.recordedLen /\ q.lastKey = dict[i])
  BY <1>1 DEF SnapshotTo, i
<1>9. Len(x.got) = i /\ x.got # <<>> /\ Last(x.got) = dict[i]
  BY <1>3, <1>7 DEF Appended
<1>10. ~p.watching
  BY <1>1, <1>2, <1>3 DEF ReadyFlags
<1>11. Snapshot(q, x)
  <2>1. Begins(x.got, dict)
    <3>1. ASSUME NEW j \in 1..Len(x.got) PROVE x.got[j] = dict[j]
      <4>1. j \in 1..Len(w.got) \/ j = i
        BY <1>2, <1>3, <1>9
      <4>2. ASSUME j \in 1..Len(w.got) PROVE x.got[j] = dict[j]
        BY <4>2, <1>7, <1>1 DEF Appended, Begins
      <4>3. x.got[i] = dict[i]
        BY <1>3, <1>7 DEF Appended
      <4> QED BY <4>1, <4>2, <4>3
    <3> QED BY <3>1, <1>3, <1>9 DEF Begins
  <2> QED BY <2>1, <1>1, <1>8, <1>9 DEF Snapshot
<1>12. Form(q, x)
  BY <1>7, <1>8, <1>11 DEF Form
<1>13. Yields(q, x)
  <2>1. x.steady => ~q.structural
    BY <1>7, <1>8, <1>10 DEF ReadyFlags
  <2> QED BY <2>1, <1>7, <1>8 DEF Yields
<1>14. Watch(q, x, reg)
  <2> SUFFICES ASSUME q.watching
               PROVE  /\ Len(x.got) = q.recordedLen /\ x.got # <<>> /\ q.lastKey = Last(x.got)
                      /\ q.lastKey \notin reg.pending
                      /\ ~(reg.reinserted[q.lastKey].at > q.observed)
    BY DEF Watch
  <2>1. i = p.recordedLen /\ q.lastKey = dict[i]
    BY <1>8, <1>10
  <2>2. dict[i] \in Range(dict)
    BY <1>3, SeqFacts
  <2>3. dict[i] \notin reg.pending /\ reg.reinserted[dict[i]].at <= reg.version
    BY <2>2, <1>3 DEF NotesOK
  <2>4. reg.reinserted[dict[i]].at \in Int
    BY <1>3 DEF IsReg
  <2> QED BY <2>1, <2>3, <2>4, <1>1, <1>2, <1>8, <1>9
<1>15. Current(q, x, dict)
  BY <1>1, <1>7, <1>8 DEF Current
<1>16. Walking(q, x, dict, reg)
  BY <1>2, <1>7, <1>8, <1>12, <1>13, <1>14, <1>15 DEF Walking
<1>17. CursorOK(q, x, dict, reg)
  BY <1>7, <1>8, <1>16 DEF CursorOK
<1> QED BY <1>17, <1>1 DEF x, i

\* A step of the index walk hands out the first key that was not.
LEMMA LiveStepFits ==
    ASSUME NEW w, NEW p, NEW i,
           dict \in Seq(Keys), IsInjective(dict), IsWalk(w), IsInjective(w.got),
           w.steady => Begins(w.got, w.start), Ready(p, w), ReadyLive(p, w),
           p.mode # "snapshot", p.remaining # 0,
           i \in Candidates(p), \A m \in Candidates(p) : i <= m
    PROVE  Fits(w, p, i + 1) /\ (p.mode = "history" => i = Len(w.got))
<1>1. /\ IsCursor(p) /\ p.recordedLen = Len(w.start) /\ Len(dict) = p.recordedLen
      /\ Len(w.got) <= p.recordedLen /\ p.remaining = p.recordedLen - Len(w.got)
      /\ (Steady(w) => p.next = Len(w.got))
      /\ (p.mode = "history" => History(p, w) /\ Begins(w.got, dict))
      /\ (p.mode = "seen" => Seen(p, w))
      /\ (~Linked(w, p) => \A j \in 1..Len(dict) : j <= p.next => dict[j] \in Range(w.got))
  BY DEF Ready, ReadyLive
<1>2. /\ Len(w.got) \in Nat /\ Len(dict) \in Nat /\ w.got \in Seq(Keys) /\ p.next \in Nat
      /\ Len(w.start) \in Nat /\ p.mode \in {"history", "seen"} /\ DOMAIN dict = 1..Len(dict)
  BY <1>1, WalkFacts, CursorFacts
<1>3. i \in p.next..(Len(dict) - 1) /\ i + 1 \in 1..Len(dict) /\ i \in Nat /\ (i + 1) - 1 = i
  BY <1>2 DEF Candidates
<1>4. Len(w.got) < Len(w.start)
  BY <1>1, <1>2
\* history: the walk is at the end of what it handed out
<1>5. ASSUME p.mode = "history" PROVE i = Len(w.got) /\ dict[i + 1] \notin Range(w.got)
  <2>1. p.next = Len(w.got) /\ Len(w.got) <= Len(dict) - 1
    BY <1>5, <1>1, <1>2, <1>4 DEF History
  <2>2. Len(w.got) \in Candidates(p)
    BY <2>1, <1>2, <1>5 DEF Candidates
  <2>3. i = Len(w.got)
    BY <2>1, <2>2, <1>3, <1>2
  <2>4. ASSUME NEW j \in 1..Len(w.got), w.got[j] = dict[i + 1] PROVE FALSE
    <3>1. j \in DOMAIN dict /\ i + 1 \in DOMAIN dict /\ dict[j] = dict[i + 1] /\ j # i + 1
      BY <2>3, <2>4, <1>1, <1>2, <1>3, <1>5 DEF Begins
    <3> QED BY <3>1 DEF IsInjective
  <2> QED BY <2>3, <2>4, <1>2, SeqFacts
<1>6. ASSUME p.mode = "seen" PROVE dict[i + 1] \notin Range(w.got)
  BY <1>6, <1>1 DEF Candidates, Seen
<1>7. dict[i + 1] \notin Range(w.got)
  BY <1>2, <1>5, <1>6
\* what lies behind was handed out
<1>8. ASSUME ~Linked(w, p), NEW j \in 1..i PROVE dict[j] \in Range(w.got)
  <2>1. j \in 1..Len(dict) /\ j - 1 \in Nat /\ (j - 1) + 1 = j
    BY <1>2, <1>3
  <2>2. CASE j <= p.next
    BY <2>1, <2>2, <1>1, <1>8
  <2>3. CASE ~(j <= p.next)
    <3>1. j - 1 \in p.next..(Len(dict) - 1) /\ ~(i <= j - 1)
      BY <2>1, <2>3, <1>2, <1>3
    <3>2. j - 1 \notin Candidates(p)
      BY <3>1
    <3>3. p.mode = "seen" /\ dict[j] \in p.seen
      BY <3>1, <3>2, <2>1 DEF Candidates
    <3> QED BY <3>3, <1>1 DEF Seen
  <2> QED BY <2>2, <2>3
\* in order
<1>9. ASSUME Steady(w) PROVE i + 1 = Len(w.got) + 1
  <2>1. CASE p.mode = "history"
    BY <2>1, <1>5
  <2>2. CASE p.mode = "seen"
    <3>1. p.next = Len(w.got) /\ Begins(w.got, dict) /\ dict = w.start
      BY <1>1, <1>9 DEF Steady
    <3>2. Len(w.got) + 1 \in 1..Len(dict)
      BY <1>1, <1>2, <1>4
    <3>3. dict[Len(w.got) + 1] \notin Range(w.got)
      <4>1. ASSUME NEW j \in 1..Len(w.got), w.got[j] = dict[Len(w.got) + 1] PROVE FALSE
        <5>1. j \in DOMAIN dict /\ Len(w.got) + 1 \in DOMAIN dict /\ j # Len(w.got) + 1
          BY <3>2, <1>2
        <5>2. dict[j] = dict[Len(w.got) + 1]
          BY <3>1, <4>1 DEF Begins
        <5> QED BY <5>1, <5>2 DEF IsInjective
      <4> QED BY <4>1, <1>2, SeqFacts
    <3>4. Len(w.got) \in Candidates(p)
      BY <3>1, <3>2, <3>3, <2>2, <1>1, <1>2 DEF Candidates, Seen
    <3> QED BY <3>1, <3>4, <1>2, <1>3
  <2> QED BY <2>1, <2>2, <1>2
<1> QED BY <1>3, <1>4, <1>5, <1>7, <1>8, <1>9 DEF Fits

\* A step of emit_live_key_item.
LEMMA LiveStepOK ==
    ASSUME NEW w, NEW p, NEW q, NEW i, IsReg(reg), NotesOK(dict, reg),
           dict \in Seq(Keys), IsInjective(dict), IsWalk(w), IsInjective(w.got),
           w.steady => Begins(w.got, w.start),
           Ready(p, w), ReadyLive(p, w), ReadyFlags(p, w),
           p.mode # "snapshot", p.remaining # 0, i \in Nat,
           i \in Candidates(p), \A m \in Candidates(p) : i <= m, LiveTo(p, q, i)
    PROVE  CursorOK(q, Yielded(w, p, dict[i + 1]), dict, reg)
<1> DEFINE k == dict[i + 1]
           x == Yielded(w, p, k)
<1>1. /\ IsCursor(p) /\ p.phase = "walking" /\ p.observed = reg.version
      /\ p.recordedLen = Len(w.start) /\ Len(dict) = p.recordedLen
      /\ Len(w.got) <= p.recordedLen /\ p.remaining = p.recordedLen - Len(w.got)
      /\ (p.mode = "history" => History(p, w) /\ Begins(w.got, dict))
      /\ (p.mode = "seen" => Seen(p, w))
  BY DEF Ready, ReadyLive
<1>2. /\ Len(w.got) \in Nat /\ Len(dict) \in Nat /\ w.got \in Seq(Keys) /\ reg.version \in Nat
      /\ Len(w.start) \in Nat /\ p.mode \in {"history", "seen"}
  BY <1>1, WalkFacts, CursorFacts DEF IsReg
<1>3. Fits(w, p, i + 1) /\ (p.mode = "history" => i = Len(w.got))
  BY LiveStepFits
<1>4. i + 1 \in 1..Len(dict) /\ Len(w.got) < Len(w.start) /\ k \in Keys /\ k \in Range(dict)
  BY <1>3, SeqFacts DEF Fits
<1>5. /\ IsWalk(x) /\ x.start = w.start /\ Appended(w.got, x.got, k)
      /\ x.steady = Steady(w) /\ ~x.lastGone
      /\ IsInjective(x.got) /\ Len(x.got) <= Len(x.start)
      /\ (x.steady => Begins(x.got, x.start))
      /\ Reached(x, dict)
  BY <1>3, YieldedOK
<1>6. /\ IsCursor(q) /\ q.phase = "walking" /\ q.mode = p.mode
      /\ (p.mode = "history" => q.order = Append(p.order, k))
      /\ (p.mode = "seen" => q.seen = p.seen \cup {k})
      /\ q.next = i + 1 /\ q.lastKey = k /\ q.lastIndex = i
      /\ q.remaining = p.remaining - 1
      /\ q.recordedLen = Len(w.start) /\ q.observed = reg.version
      /\ q.structural = p.structural
      /\ (q.watching /\ ~p.watching => p.remaining = 1)
  BY <1>1 DEF LiveTo
<1>7. x.got = Append(w.got, k)
  BY <1>3, <1>4, YieldedFields DEF Fits
<1>8. Steady(w) => i = Len(w.got)
  BY <1>2, <1>3 DEF Fits
<1>9. i + 1 <= Len(dict) /\ dict[i + 1] = k
  BY <1>2, <1>4
<1> HIDE DEF x, k
<1>10. Len(x.got) = Len(w.got) + 1 /\ x.got # <<>> /\ Last(x.got) = k
       /\ Range(x.got) = Range(w.got) \cup {k}
  BY <1>5 DEF Appended
<1>11. ~p.watching
  BY <1>1, <1>2, <1>4 DEF ReadyFlags
<1>12. Form(q, x)
  <2>1. q.mode = "history" => History(q, x)
    BY <1>1, <1>3, <1>6, <1>7, <1>10 DEF History
  <2>2. q.mode = "seen" => Seen(q, x)
    BY <1>1, <1>6, <1>10 DEF Seen
  <2>3. LiveWalk(q, x)
    <3>1. p.remaining - 1 = q.recordedLen - Len(x.got)
      BY <1>1, <1>2, <1>6, <1>10
    <3> QED BY <3>1, <1>6, <1>10 DEF LiveWalk
  <2> QED BY <2>1, <2>2, <2>3, <1>2, <1>5, <1>6 DEF Form
<1>13. Yields(q, x)
  <2>1. x.steady => ~q.structural
    BY <1>5, <1>6, <1>11 DEF ReadyFlags
  <2>2. x.steady => q.next = Len(x.got)
    BY <1>5, <1>6, <1>8, <1>10
  <2> QED BY <2>1, <2>2, <1>5 DEF Yields
<1>14. Watch(q, x, reg)
  <2> SUFFICES ASSUME q.watching
               PROVE  /\ Len(x.got) = q.recordedLen /\ x.got # <<>> /\ q.lastKey = Last(x.got)
                      /\ q.lastKey \notin reg.pending
                      /\ ~(reg.reinserted[q.lastKey].at > q.observed)
    BY DEF Watch
  <2>1. Len(x.got) = q.recordedLen
    BY <1>1, <1>2, <1>6, <1>10, <1>11
  <2>3. k \notin reg.pending /\ reg.reinserted[k].at <= reg.version
    BY <1>4 DEF NotesOK
  <2>4. reg.reinserted[k].at \in Int
    BY <1>4 DEF IsReg
  <2> QED BY <2>1, <2>3, <2>4, <1>2, <1>6, <1>10
<1>15. Current(q, x, dict)
  <2>1. ASSUME q.mode = "history" PROVE Begins(x.got, dict)
    <3>1. i = Len(w.got) /\ Begins(w.got, dict)
      BY <2>1, <1>1, <1>3, <1>6
    <3>2. ASSUME NEW j \in 1..Len(x.got) PROVE x.got[j] = dict[j]
      <4>1. j \in 1..Len(w.got) \/ j = i + 1
        BY <1>2, <1>10, <3>1
      <4>2. ASSUME j \in 1..Len(w.got) PROVE x.got[j] = dict[j]
        BY <4>2, <1>5, <3>1 DEF Appended, Begins
      <4>3. x.got[i + 1] = dict[i + 1]
        BY <1>5, <1>9, <3>1 DEF Appended
      <4> QED BY <4>1, <4>2, <4>3
    <3> QED BY <3>1, <3>2, <1>9, <1>10 DEF Begins
  <2>2. q.next <= Len(dict) /\ dict[q.next] = Last(x.got)
    BY <1>6, <1>9, <1>10
  <2>3. Len(dict) = q.recordedLen
    BY <1>1, <1>6
  <2> QED BY <2>1, <2>2, <2>3, <1>2, <1>5, <1>6 DEF Current
<1>16. Walking(q, x, dict, reg)
  BY <1>2, <1>5, <1>6, <1>12, <1>13, <1>14, <1>15 DEF Walking
<1>17. CursorOK(q, x, dict, reg)
  BY <1>5, <1>6, <1>16 DEF CursorOK
<1> QED BY <1>17 DEF x, k

-----------------------------------------------------------------------------
(* The registration *)

\* The fields of the registration have their types.
LEMMA RegFacts ==
    ASSUME NEW r, IsReg(r)
    PROVE  /\ r.version \in Nat /\ r.observers \in Nat /\ r.watchers \in [Keys -> Nat]
           /\ r.pending \in SUBSET Keys /\ DOMAIN r.reinserted = Keys
           /\ \A k \in Keys : r.watchers[k] \in Nat /\ r.reinserted[k].at \in Int
BY DEF IsReg

\* r2 notes no more about watched keys than r.
Weaker(r, r2) ==
    /\ r2.version = r.version /\ r2.pending \subseteq r.pending
    /\ \A k \in Keys : \/ r2.reinserted[k].at <= r.reinserted[k].at
                       \/ r2.reinserted[k].at < 0

\* A cursor remains sound when less is noted.
LEMMA CursorKept ==
    ASSUME NEW c, NEW w, NEW d, NEW r, NEW r2, IsReg(r), IsReg(r2), Weaker(r, r2),
           CursorOK(c, w, d, r)
    PROVE  CursorOK(c, w, d, r2)
<1>1. CASE c.phase # "walking"
  BY <1>1 DEF CursorOK
<1>2. CASE c.phase = "walking"
  <2>1. IsCursor(c) /\ IsWalk(w) /\ Walking(c, w, d, r)
    BY <1>2 DEF CursorOK
  <2>2. Watch(c, w, r) /\ r2.version = r.version /\ c.observed \in Nat
    BY <2>1, CursorFacts DEF Walking, Weaker
  <2>3. Watch(c, w, r2)
    <3> SUFFICES ASSUME c.watching
                 PROVE  /\ c.lastKey \in r2.pending => w.lastGone
                        /\ r2.reinserted[c.lastKey].at > c.observed => w.lastGone
      BY <2>2 DEF Watch
    <3>1. c.lastKey \in Keys
      <4>1. w.got # <<>> /\ c.lastKey = Last(w.got) /\ w.got \in Seq(Keys)
        BY <2>1, <2>2, WalkFacts DEF Watch
      <4> QED BY <4>1 DEF Last
    <3>2. /\ r2.reinserted[c.lastKey].at \in Int /\ r.reinserted[c.lastKey].at \in Int
          /\ \/ r2.reinserted[c.lastKey].at <= r.reinserted[c.lastKey].at
             \/ r2.reinserted[c.lastKey].at < 0
      BY <3>1, RegFacts DEF Weaker
    <3>3. r2.reinserted[c.lastKey].at > c.observed => r.reinserted[c.lastKey].at > c.observed
      BY <3>2, <2>2
    <3> QED BY <3>3, <2>2 DEF Watch, Weaker
  <2>4. Walking(c, w, d, r2)
    BY <2>1, <2>2, <2>3 DEF Walking
  <2> QED BY <1>2, <2>1, <2>4 DEF CursorOK
<1> QED BY <1>1, <1>2

\* The type of the registration, with its open parts as parameters.
RegType(R, L) ==
    [version : Nat, observers : Nat, watchers : [Keys -> Nat],
     pending : SUBSET Keys, reinserted : R, layout : L]

\* A new registration.
LEMMA FreshOK ==
    ASSUME NEW n, NEW d
    PROVE  LET r == FreshRegistration(n)
           IN  /\ IsReg(r) /\ NotesOK(d, r) /\ r.version = 0 /\ r.observers = 0
               /\ r.pending = {}
               /\ \A k \in Keys : r.watchers[k] = 0 /\ r.reinserted[k].at = -1
<1> DEFINE l == LayoutForLen(n)
           r == FreshRegistration(n)
<1>1. r = [version    |-> 0, observers  |-> 0, watchers   |-> [k \in Keys |-> 0],
           pending    |-> {}, reinserted |-> [k \in Keys |-> NotReinserted], layout |-> l]
  BY DEF FreshRegistration
<1> HIDE DEF l, r
<1>2. /\ r.version = 0 /\ r.observers = 0 /\ r.pending = {}
      /\ r.watchers = [k \in Keys |-> 0] /\ r.reinserted = [k \in Keys |-> NotReinserted]
      /\ r \in RegType({r.reinserted}, {r.layout})
  BY <1>1 DEF RegType
<1>3. \A k \in Keys : r.watchers[k] = 0 /\ r.reinserted[k].at = -1
  BY <1>2 DEF NotReinserted
<1>4. IsReg(r)
  BY <1>2, <1>3 DEF IsReg, RegType
<1> QED BY <1>2, <1>3, <1>4 DEF NotesOK, r

\* One more watch.
LEMMA WatchKeyOK ==
    ASSUME NEW r, IsReg(r), NEW k \in Keys
    PROVE  LET q == WatchKey(r, k)
           IN  /\ IsReg(q) /\ q.version = r.version /\ q.observers = r.observers
               /\ q.pending = r.pending /\ q.reinserted = r.reinserted
               /\ q.watchers[k] = r.watchers[k] + 1
               /\ \A j \in Keys : j # k => q.watchers[j] = r.watchers[j]
               /\ q.layout = r.layout
<1> DEFINE R == {r.reinserted}
           L == {r.layout}
           u == [r.watchers EXCEPT ![k] = @ + 1]
           q == [r EXCEPT !.watchers = u]
<1>1. r \in RegType(R, L) /\ r.watchers \in [Keys -> Nat]
  BY DEF IsReg, RegType
<1>2. WatchKey(r, k) = q
  BY DEF WatchKey
<1>3. /\ u \in [Keys -> Nat] /\ u[k] = r.watchers[k] + 1
      /\ \A j \in Keys : j # k => u[j] = r.watchers[j]
  BY <1>1
<1> HIDE DEF R, L, u
<1>4. /\ q \in RegType(R, L) /\ q.watchers = u
      /\ q.version = r.version /\ q.observers = r.observers
      /\ q.pending = r.pending /\ q.reinserted = r.reinserted /\ q.layout = r.layout
  BY <1>1, <1>3 DEF RegType
<1> HIDE DEF q
<1>5. IsReg(q)
  BY <1>4 DEF IsReg, RegType, R, L
<1> QED BY <1>2, <1>3, <1>4, <1>5

\* One more observer.
LEMMA AttachOK ==
    ASSUME NEW r, IsReg(r)
    PROVE  LET q == Attach(r)
           IN  /\ IsReg(q) /\ q.version = r.version /\ q.observers = r.observers + 1
               /\ q.pending = r.pending /\ q.reinserted = r.reinserted
               /\ q.watchers = r.watchers /\ q.layout = r.layout
<1> DEFINE R == {r.reinserted}
           L == {r.layout}
           q == [r EXCEPT !.observers = @ + 1]
<1>1. r \in RegType(R, L)
  BY DEF IsReg, RegType
<1> HIDE DEF R, L
<1>4. /\ q \in RegType(R, L) /\ q.watchers = r.watchers
      /\ q.version = r.version /\ q.observers = r.observers + 1
      /\ q.pending = r.pending /\ q.reinserted = r.reinserted /\ q.layout = r.layout
  BY <1>1 DEF RegType
<1>2. Attach(r) = q
  BY DEF Attach
<1> HIDE DEF q
<1>5. IsReg(q)
  BY <1>4 DEF IsReg, RegType, R, L
<1> QED BY <1>2, <1>4, <1>5

\* One observer less, while others remain.
LEMMA DetachOK ==
    ASSUME NEW r, IsReg(r), r.observers # 1, r.observers # 0
    PROVE  LET q == Detach(r)
           IN  /\ IsReg(q) /\ q.version = r.version /\ q.observers = r.observers - 1
               /\ q.pending = r.pending /\ q.reinserted = r.reinserted
               /\ q.watchers = r.watchers /\ q.layout = r.layout
<1> DEFINE R == {r.reinserted}
           L == {r.layout}
           q == [r EXCEPT !.observers = @ - 1]
<1>1. r \in RegType(R, L) /\ r.observers - 1 \in Nat
  BY DEF IsReg, RegType
<1> HIDE DEF R, L
<1>4. /\ q \in RegType(R, L) /\ q.watchers = r.watchers
      /\ q.version = r.version /\ q.observers = r.observers - 1
      /\ q.pending = r.pending /\ q.reinserted = r.reinserted /\ q.layout = r.layout
  BY <1>1 DEF RegType
<1>2. Detach(r) = q
  BY DEF Detach
<1> HIDE DEF q
<1>5. IsReg(q)
  BY <1>4 DEF IsReg, RegType, R, L
<1> QED BY <1>2, <1>4, <1>5

\* One watch less: the last one takes the notes with it.
LEMMA UnwatchKeyOK ==
    ASSUME NEW r, IsReg(r), NEW k \in Keys, NEW d, NotesOK(d, r), r.watchers[k] # 0
    PROVE  LET q == UnwatchKey(r, k)
           IN  /\ IsReg(q) /\ Weaker(r, q) /\ NotesOK(d, q)
               /\ q.version = r.version /\ q.observers = r.observers
               /\ q.watchers[k] = r.watchers[k] - 1
               /\ \A j \in Keys : j # k => q.watchers[j] = r.watchers[j]
               /\ q.layout = r.layout
<1> DEFINE L == {r.layout}
           u == [r.watchers EXCEPT ![k] = r.watchers[k] - 1]
<1>1. /\ r.watchers \in [Keys -> Nat] /\ r.watchers[k] \in Nat /\ r.pending \in SUBSET Keys
      /\ DOMAIN r.reinserted = Keys /\ r.version \in Nat
      /\ \A j \in Keys : r.watchers[j] \in Nat /\ r.reinserted[j].at \in Int
  BY RegFacts
<1>2. /\ u \in [Keys -> Nat] /\ u[k] = r.watchers[k] - 1
      /\ \A j \in Keys : j # k => u[j] = r.watchers[j]
  BY <1>1
<1>3. CASE r.watchers[k] > 1
  <2> DEFINE R == {r.reinserted}
             q == [r EXCEPT !.watchers = u]
  <2>1. UnwatchKey(r, k) = q
    BY <1>3, <1>1 DEF UnwatchKey
  <2>2. r \in RegType(R, L)
    BY DEF IsReg, RegType
  <2> HIDE DEF R, L, u
  <2>3. /\ q \in RegType(R, L) /\ q.watchers = u
        /\ q.version = r.version /\ q.observers = r.observers
        /\ q.pending = r.pending /\ q.reinserted = r.reinserted /\ q.layout = r.layout
    BY <1>2, <2>2 DEF RegType
  <2> HIDE DEF q
  <2>4. IsReg(q)
    BY <1>1, <2>3 DEF IsReg, RegType, R, L
  <2>5. Weaker(r, q)
    BY <1>1, <2>3 DEF Weaker
  <2>6. NotesOK(d, q)
    <3>1. ASSUME NEW j \in r.pending PROVE u[j] > 0 /\ j \notin Range(d) /\ r.observers # 0
      BY <3>1, <1>1, <1>2, <1>3 DEF NotesOK
    <3> QED BY <3>1, <2>3 DEF NotesOK
  <2> QED BY <2>1, <2>3, <2>4, <2>5, <2>6, <1>2
<1>4. CASE ~(r.watchers[k] > 1)
  <2> DEFINE a == [r.reinserted EXCEPT ![k] = NotReinserted]
             u0 == [r.watchers EXCEPT ![k] = 0]
             s == r.pending \ {k}
             q == [r EXCEPT !.watchers = u0, !.pending = s, !.reinserted = a]
             R == {a}
  <2>1. UnwatchKey(r, k) = q
    BY <1>4, <1>1 DEF UnwatchKey
  <2>2. r \in RegType({r.reinserted}, L)
    BY DEF IsReg, RegType
  <2>3. /\ DOMAIN a = Keys /\ a[k].at = -1 /\ \A j \in Keys : j # k => a[j] = r.reinserted[j]
    BY <1>1 DEF NotReinserted
  <2>4. u0 = u /\ s \in SUBSET Keys
    <3>1. r.watchers[k] - 1 = 0
      BY <1>1, <1>4
    <3> QED BY <3>1, <1>1
  <2> HIDE DEF R, L, u, a, s, u0
  <2>5. /\ q \in RegType({a}, L) /\ q.watchers = u
        /\ q.version = r.version /\ q.observers = r.observers
        /\ q.pending = s /\ q.reinserted = a /\ q.layout = r.layout
    BY <1>2, <2>2, <2>4 DEF RegType
  <2> HIDE DEF q
  <2>6. \A j \in Keys : a[j].at \in Int
    BY <2>3, <1>1
  <2>7. IsReg(q)
    BY <2>3, <2>5, <2>6 DEF IsReg, RegType, L
  <2>8. Weaker(r, q)
    <3>1. ASSUME NEW j \in Keys PROVE a[j].at <= r.reinserted[j].at \/ a[j].at < 0
      BY <2>3, <1>1
    <3> QED BY <3>1, <2>5 DEF Weaker, s
  <2>9. NotesOK(d, q)
    <3>1. ASSUME NEW j \in s PROVE u[j] > 0 /\ j \notin Range(d) /\ r.observers # 0
      BY <3>1, <1>1, <1>2 DEF NotesOK, s
    <3>2. ASSUME NEW j \in Keys PROVE a[j].at <= r.version
      BY <2>3, <1>1 DEF NotesOK
    <3> QED BY <3>1, <3>2, <2>5 DEF NotesOK
  <2> QED BY <2>1, <2>5, <2>7, <2>8, <2>9, <1>2
<1> QED BY <1>3, <1>4

-----------------------------------------------------------------------------
(* Counting *)

\* 1 if b holds.
One(b) == IF b THEN 1 ELSE 0

\* Two finite sets that agree but for one element.
LEMMA CardOne ==
    ASSUME NEW S, NEW T, NEW c, IsFiniteSet(S), IsFiniteSet(T), S \ {c} = T \ {c}
    PROVE  /\ Cardinality(S) \in Nat /\ Cardinality(T) \in Nat
           /\ Cardinality(T) = Cardinality(S) + One(c \in T) - One(c \in S)
<1>1. /\ Cardinality(S) \in Nat /\ Cardinality(T) \in Nat
  BY FS_CardinalityType
<1>2. Cardinality(S \ {c}) = IF c \in S THEN Cardinality(S) - 1 ELSE Cardinality(S)
  BY FS_RemoveElement
<1>3. Cardinality(T \ {c}) = IF c \in T THEN Cardinality(T) - 1 ELSE Cardinality(T)
  BY FS_RemoveElement
<1> QED BY <1>1, <1>2, <1>3 DEF One

\* The cursor watches k.
Watches(c, k) == c.watching /\ c.lastKey = k

\* Counters that follow a step of one cursor are still right.
LEMMA CountStep ==
    ASSUME NEW cs, DOMAIN cs = Cursors, NEW c \in Cursors, NEW q, NEW r, NEW r2,
           Counted(cs, r), IsReg(r), IsReg(r2),
           r2.observers = r.observers + One(q.phase = "walking") - One(cs[c].phase = "walking"),
           \A k \in Keys :
               r2.watchers[k] >= r.watchers[k] + One(Watches(q, k)) - One(Watches(cs[c], k))
    PROVE  Counted([cs EXCEPT ![c] = q], r2)
<1> DEFINE cs2 == [cs EXCEPT ![c] = q]
<1>1. cs2[c] = q /\ \A x \in Cursors : x # c => cs2[x] = cs[x]
  OBVIOUS
<1> HIDE DEF cs2
<1>2. r2.observers = Cardinality(Walkers(cs2))
  <2> DEFINE S == Walkers(cs)
             T == Walkers(cs2)
  <2>1. IsFiniteSet(S) /\ IsFiniteSet(T)
    BY BoundAssumption, FS_Subset DEF Walkers
  <2>2. S \ {c} = T \ {c}
    BY <1>1 DEF Walkers
  <2>3. (c \in S <=> cs[c].phase = "walking") /\ (c \in T <=> q.phase = "walking")
    BY <1>1 DEF Walkers
  <2>4. r.observers = Cardinality(S)
    BY DEF Counted
  <2> HIDE DEF S, T
  <2>5. /\ Cardinality(S) \in Nat /\ Cardinality(T) \in Nat
        /\ Cardinality(T) = Cardinality(S) + One(c \in T) - One(c \in S)
    BY <2>1, <2>2, CardOne
  <2> QED BY <2>3, <2>4, <2>5 DEF One, T
<1>3. ASSUME NEW k \in Keys PROVE Cardinality(Watchers(cs2, k)) <= r2.watchers[k]
  <2> DEFINE S == Watchers(cs, k)
             T == Watchers(cs2, k)
  <2>1. IsFiniteSet(S) /\ IsFiniteSet(T)
    BY BoundAssumption, FS_Subset DEF Watchers
  <2>2. S \ {c} = T \ {c}
    BY <1>1 DEF Watchers
  <2>3. (c \in S <=> Watches(cs[c], k)) /\ (c \in T <=> Watches(q, k))
    BY <1>1 DEF Watchers, Watches
  <2>4. Cardinality(S) <= r.watchers[k]
    BY DEF Counted
  <2>5. r.watchers[k] \in Nat /\ r2.watchers[k] \in Nat
    BY RegFacts
  <2> HIDE DEF S, T
  <2>6. /\ Cardinality(S) \in Nat /\ Cardinality(T) \in Nat
        /\ Cardinality(T) = Cardinality(S) + One(c \in T) - One(c \in S)
    BY <2>1, <2>2, CardOne
  <2>7. r2.watchers[k] >= r.watchers[k] + One(c \in T) - One(c \in S)
    BY <2>3 DEF One
  <2> QED BY <2>4, <2>5, <2>6, <2>7 DEF One, T
<1> QED BY <1>2, <1>3 DEF Counted, cs2

\* A cursor that watches a key is counted.
LEMMA WatchCounted ==
    ASSUME NEW cs, NEW r, Counted(cs, r), IsReg(r), NEW c \in Cursors, NEW k \in Keys,
           Watches(cs[c], k)
    PROVE  r.watchers[k] # 0
<1> DEFINE S == Watchers(cs, k)
<1>1. c \in S /\ IsFiniteSet(S) /\ Cardinality(S) <= r.watchers[k]
  BY BoundAssumption, FS_Subset DEF Watchers, Watches, Counted
<1> HIDE DEF S
<1>2. Cardinality(S) \in Nat /\ Cardinality(S) # 0
  BY <1>1, FS_CardinalityType, FS_EmptySet
<1> QED BY <1>1, <1>2, RegFacts

\* So is one that walks.
LEMMA WalkCounted ==
    ASSUME NEW cs, NEW r, Counted(cs, r), IsReg(r), NEW c \in Cursors, cs[c].phase = "walking"
    PROVE  /\ r.observers # 0
           /\ r.observers = 1 => \A x \in Cursors : x # c => cs[x].phase # "walking"
<1> DEFINE S == Walkers(cs)
<1>1. c \in S /\ IsFiniteSet(S) /\ Cardinality(S) = r.observers
  BY BoundAssumption, FS_Subset DEF Walkers, Counted
<1>2. \A x \in Cursors : cs[x].phase = "walking" => x \in S
  BY DEF Walkers
<1> HIDE DEF S
<1>3. Cardinality(S) \in Nat /\ Cardinality(S) # 0
  BY <1>1, FS_CardinalityType, FS_EmptySet
<1>4. Cardinality(S) = 1 => S \ {c} = {}
  <2>1. Cardinality(S \ {c}) = Cardinality(S) - 1 /\ IsFiniteSet(S \ {c})
    BY <1>1, FS_RemoveElement
  <2> QED BY <2>1, <1>3, FS_EmptySet
<1> QED BY <1>1, <1>2, <1>3, <1>4

\* With no observer nobody walks.
LEMMA NobodyWalks ==
    ASSUME NEW cs, NEW r, Counted(cs, r), IsReg(r), r.observers = 0
    PROVE  \A x \in Cursors : cs[x].phase # "walking"
BY WalkCounted

\* Counters start at zero when nobody walks or watches.
LEMMA CountNone ==
    ASSUME NEW cs, NEW r, IsReg(r), r.observers = 0,
           \A x \in Cursors : cs[x].phase # "walking" /\ ~cs[x].watching
    PROVE  Counted(cs, r)
<1>1. Walkers(cs) = {} /\ \A k \in Keys : Watchers(cs, k) = {}
  BY DEF Walkers, Watchers
<1>2. Cardinality({}) = 0
  BY FS_EmptySet
<1>3. ASSUME NEW k \in Keys PROVE Cardinality(Watchers(cs, k)) <= r.watchers[k]
  <2>1. Cardinality(Watchers(cs, k)) = 0 /\ r.watchers[k] \in Nat
    BY <1>1, <1>2, RegFacts
  <2> QED BY <2>1
<1>4. r.observers = Cardinality(Walkers(cs))
  BY <1>1, <1>2
<1> QED BY <1>3, <1>4 DEF Counted

-----------------------------------------------------------------------------
(* Steps of one cursor *)

\* The parts of the invariant.
LEMMA InvFacts ==
    ASSUME IInv
    PROVE  /\ dict \in Seq(Keys) /\ IsInjective(dict) /\ IsReg(reg) /\ NotesOK(dict, reg)
           /\ DOMAIN cursors = Cursors /\ DOMAIN walk = Cursors /\ Counted(cursors, reg)
           /\ \A c \in Cursors : /\ CursorOK(cursors[c], walk[c], dict, reg)
                                 /\ IsCursor(cursors[c]) /\ IsWalk(walk[c])
BY DEF IInv, CursorOK

\* A step that changes one cursor, its history and the registration.
LEMMA OneCursor ==
    ASSUME IInv, NEW c \in Cursors, NEW q, NEW x, NEW r2, IsReg(r2), NotesOK(dict, r2),
           CursorOK(q, x, dict, r2), Counted([cursors EXCEPT ![c] = q], r2),
           \A y \in Cursors : y # c => CursorOK(cursors[y], walk[y], dict, r2),
           cursors' = [cursors EXCEPT ![c] = q], walk' = [walk EXCEPT ![c] = x],
           reg' = r2, dict' = dict
    PROVE  IInv'
<1>1. DOMAIN cursors' = Cursors /\ DOMAIN walk' = Cursors
  BY InvFacts
<1>2. /\ cursors'[c] = q /\ walk'[c] = x
      /\ \A y \in Cursors : y # c => cursors'[y] = cursors[y] /\ walk'[y] = walk[y]
  BY InvFacts
<1>3. \A y \in Cursors : CursorOK(cursors'[y], walk'[y], dict, r2)
  BY <1>2
<1>4. Counted(cursors', r2)
  OBVIOUS
<1>5. dict \in Seq(Keys) /\ IsInjective(dict)
  BY InvFacts
<1> QED BY <1>1, <1>3, <1>4, <1>5 DEF IInv

\* The empty order.
LEMMA EmptyOnce == IsInjective(<<>>)
BY DEF IsInjective

\* A free cursor, and what release() leaves of one that ends.
LEMMA ReleasedOK ==
    ASSUME NEW phase \in Ended \cup {"free"}, NEW d, NEW r, NEW q, q = Released(phase)
    PROVE  /\ q.phase = phase /\ q.phase # "walking" /\ ~q.watching
           /\ CursorOK(q, NoWalk, d, r)
<1> DEFINE E == {0}
<1>1. <<>> \in Seq(Keys) /\ {} \in SUBSET Keys
  OBVIOUS
<1>2. q = [phase |-> phase, mode |-> "history", order |-> <<>>, pos |-> 0,
     seen |-> {}, next |-> 0, lastKey |-> NoKey, lastIndex |-> 0,
     observed |-> 0, recordedLen |-> 0, remaining |-> 0,
     watching |-> FALSE, entryCursor |-> 0, structural |-> FALSE]
  BY DEF Released, FreeCursor
<1>3. q \in CursorType(E)
  BY <1>1, <1>2 DEF CursorType
<1>4. /\ q.phase = phase /\ ~q.watching /\ q.entryCursor = 0 /\ q.remaining = 0
      /\ q.mode = "history"
  BY <1>2
<1>5. phase # "walking"
  BY DEF Ended
<1>6. IsWalk(NoWalk)
  BY <1>1, EmptyOnce DEF IsWalk, NoWalk
<1>7. IsCursor(q)
  BY <1>3, <1>4 DEF IsCursor
<1> QED BY <1>4, <1>5, <1>6, <1>7 DEF CursorOK, Idle

\* The free cursor is one of them.
LEMMA FreeIsReleased == FreeCursor = Released("free")
<1>1. FreeCursor.phase = "free"
  BY DEF FreeCursor
<1>2. \A f : [f EXCEPT !["phase"] = f["phase"]] = [x \in DOMAIN f |-> f[x]]
  OBVIOUS
<1>3. FreeCursor = [x \in DOMAIN FreeCursor |-> FreeCursor[x]]
  BY DEF FreeCursor
<1> QED BY <1>1, <1>2, <1>3 DEF Released

\* A cursor lets go of the registration: the last one leaves nothing behind,
\* the others find what they rely on.
LEMMA LetGo ==
    ASSUME IInv, NEW c \in Cursors, cursors[c].phase = "walking", NEW q,
           q.phase # "walking", ~q.watching, NEW r0, IsReg(r0), NotesOK(dict, r0),
           Weaker(reg, r0), r0.observers = reg.observers,
           \A k \in Keys : r0.watchers[k] >= reg.watchers[k] - One(Watches(cursors[c], k))
    PROVE  /\ IsReg(Detach(r0)) /\ NotesOK(dict, Detach(r0))
           /\ Counted([cursors EXCEPT ![c] = q], Detach(r0))
           /\ \A y \in Cursors : y # c => CursorOK(cursors[y], walk[y], dict, Detach(r0))
<1>1. /\ reg.observers # 0 /\ reg.observers \in Nat
      /\ reg.observers = 1 => \A y \in Cursors : y # c => cursors[y].phase # "walking"
  BY InvFacts, WalkCounted, RegFacts
<1>2. CASE reg.observers = 1
  <2> DEFINE r2 == FreshRegistration(0)
  <2>1. Detach(r0) = r2
    BY <1>2 DEF Detach
  <2>2. IsReg(r2) /\ NotesOK(dict, r2) /\ r2.observers = 0
    BY FreshOK
  <2> HIDE DEF r2
  <2>3. ASSUME NEW y \in Cursors, y # c
        PROVE  cursors[y].phase # "walking" /\ ~cursors[y].watching
               /\ CursorOK(cursors[y], walk[y], dict, r2)
    <3>1. cursors[y].phase # "walking" /\ CursorOK(cursors[y], walk[y], dict, reg)
      BY <1>1, <1>2, <2>3, InvFacts
    <3> QED BY <3>1 DEF CursorOK, Idle
  <2> DEFINE cs == [cursors EXCEPT ![c] = q]
  <2>4. \A y \in Cursors : cs[y].phase # "walking" /\ ~cs[y].watching
    BY <2>3, InvFacts
  <2> HIDE DEF cs
  <2>5. Counted(cs, r2)
    BY <2>2, <2>4, CountNone
  <2> QED BY <2>1, <2>2, <2>3, <2>5 DEF cs
<1>3. CASE reg.observers # 1
  <2> DEFINE r2 == Detach(r0)
  <2>1. /\ IsReg(r2) /\ r2.version = r0.version /\ r2.observers = r0.observers - 1
        /\ r2.pending = r0.pending /\ r2.reinserted = r0.reinserted /\ r2.watchers = r0.watchers
    BY <1>1, <1>3, DetachOK
  <2> HIDE DEF r2
  <2>0. r2.observers # 0
    BY <1>1, <1>3, <2>1
  <2>2. NotesOK(dict, r2)
    BY <2>0, <2>1 DEF NotesOK
  <2>3. Weaker(reg, r2)
    BY <2>1 DEF Weaker
  <2>4. \A y \in Cursors : CursorOK(cursors[y], walk[y], dict, r2)
    BY <2>1, <2>3, InvFacts, CursorKept
  <2>5. r2.observers = reg.observers + One(q.phase = "walking") - One(cursors[c].phase = "walking")
    BY <1>1, <2>1 DEF One
  <2>6. ASSUME NEW k \in Keys
        PROVE  r2.watchers[k] >= reg.watchers[k] + One(Watches(q, k)) - One(Watches(cursors[c], k))
    <3>1. One(Watches(q, k)) = 0 /\ reg.watchers[k] \in Nat /\ r2.watchers[k] >= reg.watchers[k] - One(Watches(cursors[c], k))
      BY <2>1, InvFacts, RegFacts DEF One, Watches
    <3> QED BY <3>1 DEF One
  <2>7. Counted([cursors EXCEPT ![c] = q], r2)
    BY <2>1, <2>5, <2>6, InvFacts, CountStep
  <2> QED BY <2>1, <2>2, <2>4, <2>7 DEF r2
<1> QED BY <1>2, <1>3

\* release(): the watch, then the handle.
LEMMA ReleaseOK ==
    ASSUME IInv, NEW c \in Cursors, cursors[c].phase = "walking", NEW q,
           q.phase # "walking", ~q.watching, NEW p, p.watching = cursors[c].watching,
           p.watching => p.lastKey = cursors[c].lastKey
    PROVE  LET r2 == ReleaseFrom(reg, p)
           IN  /\ IsReg(r2) /\ NotesOK(dict, r2)
               /\ Counted([cursors EXCEPT ![c] = q], r2)
               /\ \A y \in Cursors : y # c => CursorOK(cursors[y], walk[y], dict, r2)
<1>1. IsReg(reg) /\ NotesOK(dict, reg) /\ Counted(cursors, reg) /\ IsCursor(cursors[c])
  BY InvFacts
<1>2. \A k \in Keys : reg.watchers[k] \in Nat /\ reg.reinserted[k].at \in Int
  BY <1>1, RegFacts
<1>3. CASE ~p.watching
  <2>1. ReleaseFrom(reg, p) = Detach(reg)
    BY <1>3 DEF ReleaseFrom
  <2>2. \A k \in Keys : reg.watchers[k] >= reg.watchers[k] - One(Watches(cursors[c], k))
    BY <1>2, <1>3 DEF One, Watches
  <2>3. Weaker(reg, reg)
    BY <1>2 DEF Weaker
  <2> QED BY <1>1, <2>1, <2>2, <2>3, LetGo
<1>4. CASE p.watching
  <2> DEFINE k == cursors[c].lastKey
             r0 == UnwatchKey(reg, k)
  <2>1. ReleaseFrom(reg, p) = Detach(r0)
    BY <1>4 DEF ReleaseFrom
  <2>2. k \in Keys /\ Watches(cursors[c], k)
    <3>1. CursorOK(cursors[c], walk[c], dict, reg) /\ cursors[c].watching
      BY <1>4, InvFacts
    <3>2. walk[c].got # <<>> /\ k = Last(walk[c].got) /\ walk[c].got \in Seq(Keys)
      BY <3>1, WalkFacts DEF CursorOK, Walking, Watch
    <3> QED BY <3>1, <3>2 DEF Last, Watches
  <2>k. k = cursors[c].lastKey
    OBVIOUS
  <2> HIDE DEF k
  <2>3. reg.watchers[k] # 0
    BY <1>1, <2>2, WatchCounted
  <2>4. /\ IsReg(r0) /\ Weaker(reg, r0) /\ NotesOK(dict, r0)
        /\ r0.observers = reg.observers
        /\ r0.watchers[k] = reg.watchers[k] - 1
        /\ \A j \in Keys : j # k => r0.watchers[j] = reg.watchers[j]
    BY <1>1, <2>2, <2>3, UnwatchKeyOK
  <2> HIDE DEF r0
  <2>5. ASSUME NEW j \in Keys PROVE r0.watchers[j] >= reg.watchers[j] - One(Watches(cursors[c], j))
    <3>1. One(Watches(cursors[c], k)) = 1
      BY <2>2 DEF One
    <3>2. j # k => One(Watches(cursors[c], j)) = 0
      BY <2>k DEF One, Watches
    <3>3. CASE j = k
      BY <3>1, <3>3, <2>4, <1>2
    <3>4. CASE j # k
      BY <3>2, <3>4, <2>4, <1>2
    <3> QED BY <3>3, <3>4
  <2> QED BY <1>1, <2>1, <2>4, <2>5, LetGo
<1> QED BY <1>3, <1>4

\* What plain exhaustion promises.
StopOK(c) ==
    \/ Stepped(walk[c], Prepared(cursors[c])).relinked
    \/ Live \subseteq Range(walk[c].got)

\* What the "keys changed" error promises.
ErrorOK(c) ==
    \/ ~Stepped(walk[c], Prepared(cursors[c])).steady
    \/ walk[c].lastGone

\* Every cursor that ends in this step ends for a reason.
EndsOK ==
    \A c \in Cursors :
        (Ends(c, "done") => StopOK(c)) /\ (Ends(c, "changed") => ErrorOK(c))

\* What every step is shown to do.
StepOK == IInv' /\ EndsOK

\* A step of c that does not end its walk that way ends nobody's.
LEMMA NoEnd ==
    ASSUME IInv, NEW c \in Cursors, NEW q, cursors' = [cursors EXCEPT ![c] = q],
           q.phase = "done" => StopOK(c), q.phase = "changed" => ErrorOK(c)
    PROVE  EndsOK
<1>1. cursors'[c] = q /\ \A y \in Cursors : y # c => cursors'[y] = cursors[y]
  BY InvFacts
<1> QED BY <1>1 DEF EndsOK, Ends

\* What a step makes of the flags of the history.
LEMMA SteppedFlags ==
    ASSUME NEW w, IsWalk(w), NEW p
    PROVE  Stepped(w, p).relinked = Linked(w, p) /\ Stepped(w, p).steady = Steady(w)
<1> DEFINE s == w.steady /\ dict = w.start
           l == w.relinked \/ Relinks(w, p)
           y == [w EXCEPT !.steady = s, !.relinked = l, !.lastGone = FALSE]
<1>1. Stepped(w, p) = y
  BY DEF Stepped, IsWalk
<1>2. s = Steady(w) /\ l = Linked(w, p)
  BY DEF Steady, Linked
<1> HIDE DEF s, l
<1>3. y.steady = s /\ y.relinked = l
  BY DEF IsWalk
<1> QED BY <1>1, <1>2, <1>3

\* What is known of the cursor of a step once its size was right.
LEMMA StepReady ==
    ASSUME IInv, NEW c \in Cursors, CanStep(c), ~SizeChanged(c)
    PROVE  LET p == Prepared(cursors[c])
               w == walk[c]
           IN  /\ cursors[c].phase = "walking" /\ IsWalk(w)
               /\ IsInjective(w.got) /\ (w.steady => Begins(w.got, w.start))
               /\ Ready(p, w) /\ ReadySnapshot(p, w) /\ ReadyLive(p, w) /\ ReadyFlags(p, w)
               /\ p.structural = Checked(cursors[c]).structural
               /\ p.watching = cursors[c].watching
               /\ (p.watching => p.lastKey = cursors[c].lastKey)
<1>1. /\ CursorOK(cursors[c], walk[c], dict, reg) /\ cursors[c].phase = "walking"
      /\ (cursors[c].observed # reg.version => Len(dict) = cursors[c].recordedLen)
      /\ dict \in Seq(Keys) /\ IsInjective(dict) /\ IsReg(reg) /\ IsWalk(walk[c])
  BY InvFacts DEF CanStep, SizeChanged
<1>2. /\ IsInjective(walk[c].got) /\ (walk[c].steady => Begins(walk[c].got, walk[c].start))
      /\ (cursors[c].watching => cursors[c].lastKey = Last(walk[c].got))
  BY <1>1 DEF CursorOK, Walking, Yields, Watch
<1> DEFINE p == Prepared(cursors[c])
<1>3. /\ Ready(p, walk[c]) /\ ReadySnapshot(p, walk[c]) /\ ReadyLive(p, walk[c])
      /\ ReadyFlags(p, walk[c])
      /\ p.structural = Checked(cursors[c]).structural /\ p.watching = cursors[c].watching
  BY <1>1, PreparedOK
<1> HIDE DEF p
<1>4. p.watching => p.lastKey = cursors[c].lastKey
  BY <1>2, <1>3 DEF ReadyFlags
<1> QED BY <1>1, <1>2, <1>3, <1>4 DEF p

\* The walk of c ends.
LEMMA EndSound ==
    ASSUME IInv, NEW c \in Cursors, cursors[c].phase = "walking", NEW phase \in Ended,
           End(c, phase), NEW p, p.watching = cursors[c].watching,
           p.watching => p.lastKey = cursors[c].lastKey,
           reg' = ReleaseFrom(reg, p), dict' = dict,
           phase = "done" => StopOK(c), phase = "changed" => ErrorOK(c)
    PROVE  StepOK
<1> DEFINE q == Released(phase)
           r2 == ReleaseFrom(reg, p)
<1>1. q.phase = phase /\ q.phase # "walking" /\ ~q.watching /\ CursorOK(q, NoWalk, dict, r2)
  BY ReleasedOK
<1>2. cursors' = [cursors EXCEPT ![c] = q] /\ walk' = [walk EXCEPT ![c] = NoWalk] /\ reg' = r2
  BY DEF End
<1> HIDE DEF q
<1>3. /\ IsReg(r2) /\ NotesOK(dict, r2)
      /\ Counted([cursors EXCEPT ![c] = q], r2)
      /\ \A y \in Cursors : y # c => CursorOK(cursors[y], walk[y], dict, r2)
  BY <1>1, ReleaseOK
<1> HIDE DEF r2
<1>4. IInv'
  BY <1>1, <1>2, <1>3, OneCursor
<1>5. EndsOK
  BY <1>1, <1>2, NoEnd
<1> QED BY <1>4, <1>5 DEF StepOK

\* The size guard.
LEMMA StepSizeErrorSound ==
    ASSUME IInv, NEW c \in Cursors, StepSizeError(c)
    PROVE  StepOK
BY EndSound DEF StepSizeError, CanStep, Ended

\* The index walk has nothing left, or the snapshot is at its end: every live
\* key was handed out, unless the walk was misled.
LEMMA NothingLeft ==
    ASSUME NEW w, NEW p, IsWalk(w), dict \in Seq(Keys),
           Ready(p, w), ReadySnapshot(p, w), ReadyLive(p, w), ~Linked(w, p),
           IF p.mode = "snapshot" THEN p.pos >= Len(p.order) ELSE Candidates(p) = {}
    PROVE  Live \subseteq Range(w.got)
<1>1. /\ Len(w.got) \in Nat /\ Len(dict) \in Nat /\ w.got \in Seq(Keys) /\ p.next \in Nat
      /\ p.mode \in {"history", "snapshot", "seen"} /\ Len(dict) = p.recordedLen
  BY WalkFacts, CursorFacts DEF Ready
<1>2. SUFFICES ASSUME NEW j \in 1..Len(dict) PROVE dict[j] \in Range(w.got)
  BY SeqFacts DEF Live
<1>3. CASE p.mode = "snapshot"
  <2>1. Begins(w.got, dict) /\ Len(w.got) >= Len(dict)
    BY <1>3 DEF ReadySnapshot, Snapshot
  <2>2. j \in 1..Len(w.got) /\ w.got[j] = dict[j]
    BY <2>1, <1>1 DEF Begins
  <2> QED BY <2>2, <1>1, SeqFacts
<1>4. CASE p.mode # "snapshot"
  <2>1. CASE j <= p.next
    BY <1>4, <2>1 DEF ReadyLive
  <2>2. CASE ~(j <= p.next)
    <3>1. j - 1 \in p.next..(Len(dict) - 1) /\ (j - 1) + 1 = j
      BY <2>2, <1>1
    <3>2. p.mode = "seen" /\ dict[j] \in p.seen
      BY <3>1, <1>4 DEF Candidates
    <3> QED BY <3>2 DEF ReadyLive, Seen
  <2> QED BY <2>1, <2>2
<1> QED BY <1>3, <1>4

\* Plain exhaustion.
LEMMA StepExhaustedSound ==
    ASSUME IInv, NEW c \in Cursors, StepExhausted(c)
    PROVE  StepOK
<1> DEFINE p == Prepared(cursors[c])
           w == walk[c]
<1>1. /\ CanStep(c) /\ ~SizeChanged(c)
      /\ IF p.mode = "snapshot" THEN p.pos >= Len(p.order) ELSE Candidates(p) = {}
      /\ reg' = ReleaseFrom(reg, p) /\ End(c, "done") /\ dict' = dict
  BY DEF StepExhausted
<1>2. /\ cursors[c].phase = "walking" /\ IsWalk(w)
      /\ Ready(p, w) /\ ReadySnapshot(p, w) /\ ReadyLive(p, w)
      /\ p.watching = cursors[c].watching /\ (p.watching => p.lastKey = cursors[c].lastKey)
  BY <1>1, StepReady
<1>3. StopOK(c)
  <2>1. Stepped(w, p).relinked = Linked(w, p)
    BY <1>2, SteppedFlags
  <2>2. dict \in Seq(Keys)
    BY InvFacts
  <2> HIDE DEF p, w
  <2>3. Linked(w, p) \/ Live \subseteq Range(w.got)
    BY <1>1, <1>2, <2>2, NothingLeft
  <2> QED BY <2>1, <2>3 DEF StopOK, p, w
<1> HIDE DEF p, w
<1>4. "done" \in Ended
  BY DEF Ended
<1> QED BY <1>1, <1>2, <1>3, <1>4, EndSound

\* The one-shot "keys changed" error.
LEMMA StepKeysErrorSound ==
    ASSUME IInv, NEW c \in Cursors, StepKeysError(c)
    PROVE  StepOK
<1> DEFINE p == Prepared(cursors[c])
           w == walk[c]
<1>1. /\ CanStep(c) /\ ~SizeChanged(c) /\ p.remaining = 0
      /\ (Checked(cursors[c]).structural \/ (p.mode # "snapshot" /\ Candidates(p) # {}))
      /\ reg' = ReleaseFrom(reg, p) /\ End(c, "changed") /\ dict' = dict
  BY DEF StepKeysError, QuotaViolated
<1>2. /\ cursors[c].phase = "walking" /\ IsWalk(w)
      /\ Ready(p, w) /\ ReadyLive(p, w) /\ ReadyFlags(p, w)
      /\ p.structural = Checked(cursors[c]).structural
      /\ p.watching = cursors[c].watching /\ (p.watching => p.lastKey = cursors[c].lastKey)
  BY <1>1, StepReady
<1>3. Stepped(w, p).steady = Steady(w)
  BY <1>2, SteppedFlags
<1>4. ErrorOK(c)
  <2>1. ASSUME Steady(w), ~w.lastGone PROVE FALSE
    <3>1. ~p.structural
      BY <1>2, <2>1 DEF ReadyFlags
    <3>2. p.mode # "snapshot" /\ Candidates(p) # {}
      BY <3>1, <1>1, <1>2
    <3> HIDE DEF p, w
    <3>3. /\ p.next = Len(w.got) /\ 0 = p.recordedLen - Len(w.got) /\ Len(dict) = p.recordedLen
          /\ Len(w.got) \in Nat /\ p.recordedLen \in Nat
      BY <3>2, <1>1, <1>2, <2>1, WalkFacts, CursorFacts DEF ReadyLive, Ready
    <3>4. p.next = Len(dict) /\ Len(dict) \in Nat
      BY <3>3
    <3>5. Candidates(p) = {}
      BY <3>4 DEF Candidates
    <3> QED BY <3>2, <3>5
  <2> QED BY <2>1, <1>3 DEF ErrorOK
<1> HIDE DEF p, w
<1>5. "changed" \in Ended
  BY DEF Ended
<1> QED BY <1>1, <1>2, <1>4, <1>5, EndSound

\* A cursor that goes on, perhaps with a watch on the key it hands out.
LEMMA YieldSound ==
    ASSUME IInv, NEW c \in Cursors, cursors[c].phase = "walking", ~cursors[c].watching,
           NEW q, NEW x, NEW k \in Keys, NEW last \in BOOLEAN,
           CursorOK(q, x, dict, reg), q.phase = "walking",
           last => q.watching /\ q.lastKey = k, ~last => ~q.watching,
           cursors' = [cursors EXCEPT ![c] = q], walk' = [walk EXCEPT ![c] = x],
           reg' = IF last THEN WatchKey(reg, k) ELSE reg, dict' = dict
    PROVE  StepOK
<1> DEFINE r2 == IF last THEN WatchKey(reg, k) ELSE reg
<1>1. /\ IsReg(reg) /\ NotesOK(dict, reg) /\ Counted(cursors, reg) /\ DOMAIN cursors = Cursors
      /\ \A j \in Keys : reg.watchers[j] \in Nat /\ reg.reinserted[j].at \in Int
      /\ reg.observers \in Nat
  BY InvFacts, RegFacts
<1>2. /\ IsReg(r2) /\ r2.version = reg.version /\ r2.observers = reg.observers
      /\ r2.pending = reg.pending /\ r2.reinserted = reg.reinserted
      /\ \A j \in Keys : r2.watchers[j] = reg.watchers[j] + One(last /\ j = k)
  <2>1. CASE last
    <3> DEFINE s == WatchKey(reg, k)
    <3>1. /\ IsReg(s) /\ s.version = reg.version /\ s.observers = reg.observers
          /\ s.pending = reg.pending /\ s.reinserted = reg.reinserted
          /\ s.watchers[k] = reg.watchers[k] + 1
          /\ \A j \in Keys : j # k => s.watchers[j] = reg.watchers[j]
      BY <1>1, WatchKeyOK
    <3> HIDE DEF s
    <3>2. r2 = s
      BY <2>1 DEF s
    <3> HIDE DEF r2
    <3>3. ASSUME NEW j \in Keys PROVE r2.watchers[j] = reg.watchers[j] + One(last /\ j = k)
      BY <3>1, <3>2, <2>1, <1>1 DEF One
    <3> QED BY <3>1, <3>2, <3>3
  <2>2. CASE ~last
    <3>1. r2 = reg
      BY <2>2
    <3> HIDE DEF r2
    <3>2. ASSUME NEW j \in Keys PROVE r2.watchers[j] = reg.watchers[j] + One(last /\ j = k)
      BY <3>1, <2>2, <1>1 DEF One
    <3> QED BY <3>1, <3>2, <1>1
  <2> QED BY <2>1, <2>2
<1>r. reg' = r2
  OBVIOUS
<1> HIDE DEF r2
<1>3. Weaker(reg, r2)
  BY <1>1, <1>2 DEF Weaker
<1>4. NotesOK(dict, r2)
  <2>1. ASSUME NEW j \in reg.pending
        PROVE  r2.watchers[j] > 0 /\ j \notin Range(dict) /\ reg.observers # 0
    <3>1. j \in Keys /\ reg.watchers[j] > 0 /\ j \notin Range(dict) /\ reg.observers # 0
      BY <1>1, RegFacts DEF NotesOK
    <3>2. One(last /\ j = k) \in Nat
      BY DEF One
    <3> QED BY <3>1, <3>2, <1>1, <1>2
  <2> QED BY <2>1, <1>1, <1>2 DEF NotesOK
<1>5. \A y \in Cursors : CursorOK(cursors[y], walk[y], dict, r2)
  BY <1>2, <1>3, InvFacts, CursorKept
<1>6. CursorOK(q, x, dict, r2)
  BY <1>1, <1>2, <1>3, CursorKept
<1>7. Counted([cursors EXCEPT ![c] = q], r2)
  <2>1. r2.observers = reg.observers + One(q.phase = "walking") - One(cursors[c].phase = "walking")
    BY <1>1, <1>2 DEF One
  <2>2. ASSUME NEW j \in Keys
        PROVE  r2.watchers[j] >= reg.watchers[j] + One(Watches(q, j)) - One(Watches(cursors[c], j))
    <3>1. One(Watches(cursors[c], j)) = 0
      BY DEF One, Watches
    <3>2. One(Watches(q, j)) <= One(last /\ j = k) /\ One(Watches(q, j)) \in Nat /\ One(last /\ j = k) \in Nat
      BY DEF One, Watches
    <3> QED BY <3>1, <3>2, <1>1, <1>2
  <2> QED BY <2>1, <2>2, <1>1, <1>2, CountStep
<1>8. IInv'
  BY <1>r, <1>2, <1>4, <1>5, <1>6, <1>7, OneCursor
<1>9. EndsOK
  BY NoEnd
<1> QED BY <1>8, <1>9 DEF StepOK

\* A cursor as StepSnapshot leaves it.
SnapshotNext(p, k, e, last) ==
    IF last
    THEN [p EXCEPT !.pos = @ + 1, !.lastKey = k, !.lastIndex = p.pos,
                   !.watching = TRUE, !.entryCursor = e]
    ELSE [p EXCEPT !.pos = @ + 1]

\* A cursor as StepLive leaves it, without the watch.
LiveNext(p, i, k) ==
    [p EXCEPT !.next = i + 1, !.lastKey = k, !.lastIndex = i,
              !.remaining = @ - 1,
              !.order = IF p.mode = "history" THEN Append(@, k) ELSE @,
              !.seen = IF p.mode = "seen" THEN @ \union {k} ELSE @]

\* The watch that the last key of the quota installs.
WatchNext(q, e, last) ==
    IF last THEN [q EXCEPT !.watching = TRUE, !.entryCursor = e] ELSE q

\* The step is one of emit_live_key_item, and the watch is on its key.
LiveDone(p, t, i, k, last) ==
    LiveTo(p, t, i) /\ (last => t.watching /\ t.lastKey = k) /\ (~last => ~t.watching)

\* What StepSnapshot makes of the prepared cursor.
LEMMA SnapshotToOK ==
    ASSUME NEW p, IsCursor(p), p.mode = "snapshot", NEW k \in Keys, k = p.order[p.pos + 1],
           NEW last \in BOOLEAN, last => p.pos + 1 = p.recordedLen, ~p.watching, NEW e
    PROVE  /\ SnapshotTo(p, SnapshotNext(p, k, e, last))
           /\ last => /\ SnapshotNext(p, k, e, last).watching
                      /\ SnapshotNext(p, k, e, last).lastKey = k
           /\ ~last => ~SnapshotNext(p, k, e, last).watching
<1> DEFINE i == p.pos + 1
           E == {p.entryCursor}
<1>1. p \in CursorType(E) /\ p.pos \in Nat /\ i \in Nat
  BY CursorFacts DEF IsCursor
<1>2. CASE last
  <2> DEFINE q == [p EXCEPT !.pos = i, !.lastKey = k, !.lastIndex = p.pos,
                            !.watching = TRUE, !.entryCursor = e]
  <2>0. SnapshotNext(p, k, e, last) = q
    BY <1>2 DEF SnapshotNext
  <2> HIDE DEF E, i
  <2>1. /\ q.phase = p.phase /\ q.mode = p.mode /\ q.order = p.order /\ q.pos = i
        /\ q.recordedLen = p.recordedLen /\ q.observed = p.observed
        /\ q.structural = p.structural /\ q.remaining = p.remaining /\ q.watching /\ q.lastKey = k /\ q.entryCursor = e
    BY <1>1 DEF CursorType
  <2>2. q \in CursorType({e})
    BY <1>1 DEF CursorType
  <2> HIDE DEF q
  <2>3. IsCursor(q)
    BY <2>1, <2>2 DEF IsCursor
  <2> QED BY <1>2, <2>0, <2>1, <2>3 DEF SnapshotTo, i
<1>3. CASE ~last
  <2> DEFINE q == [p EXCEPT !.pos = i]
  <2>0. SnapshotNext(p, k, e, last) = q
    BY <1>3 DEF SnapshotNext
  <2> HIDE DEF E, i
  <2>1. /\ q.phase = p.phase /\ q.mode = p.mode /\ q.order = p.order /\ q.pos = i
        /\ q.recordedLen = p.recordedLen /\ q.observed = p.observed
        /\ q.structural = p.structural /\ q.remaining = p.remaining /\ q.watching = p.watching
        /\ q.entryCursor = p.entryCursor
    BY <1>1 DEF CursorType
  <2>2. q \in CursorType(E)
    BY <1>1 DEF CursorType
  <2> HIDE DEF q
  <2>3. IsCursor(q)
    BY <2>1, <2>2 DEF IsCursor, E
  <2> QED BY <1>3, <2>0, <2>1, <2>3 DEF SnapshotTo, i
<1> QED BY <1>2, <1>3

\* The next key of the captured order.
LEMMA StepSnapshotSound ==
    ASSUME IInv, NEW c \in Cursors, StepSnapshot(c)
    PROVE  StepOK
<1> DEFINE p == Prepared(cursors[c])
           w == walk[c]
           k == p.order[p.pos + 1]
           last == p.pos + 1 = p.recordedLen /\ ~p.watching
           e == reg.layout.entries
           q == SnapshotNext(p, k, e, last)
           x == Yielded(w, p, k)
<1>1. /\ CanStep(c) /\ ~SizeChanged(c) /\ p.mode = "snapshot" /\ p.pos < Len(p.order)
      /\ cursors' = [cursors EXCEPT ![c] = q]
      /\ reg' = IF last THEN WatchKey(reg, k) ELSE reg
      /\ walk' = [walk EXCEPT ![c] = x] /\ dict' = dict
  BY DEF StepSnapshot, SnapshotNext
<1>2. /\ cursors[c].phase = "walking" /\ IsWalk(w)
      /\ IsInjective(w.got) /\ (w.steady => Begins(w.got, w.start))
      /\ Ready(p, w) /\ ReadySnapshot(p, w) /\ ReadyFlags(p, w)
      /\ p.watching = cursors[c].watching
  BY <1>1, StepReady
<1>3. last \in BOOLEAN
  OBVIOUS
<1> HIDE DEF p, w
<1>4. /\ IsCursor(p) /\ p.phase = "walking" /\ p.order \in Seq(Keys) /\ p.pos \in Nat
      /\ p.pos = Len(w.got) /\ p.order = dict /\ Len(dict) = p.recordedLen
  BY <1>1, <1>2, CursorFacts DEF Ready, ReadySnapshot, Snapshot
<1>5. ~p.watching /\ k \in Keys
  BY <1>1, <1>2, <1>4 DEF ReadyFlags
<1>6. last => p.pos + 1 = p.recordedLen
  OBVIOUS
<1>7. k = p.order[p.pos + 1]
  OBVIOUS
<1> HIDE DEF last, k, e
<1>8. SnapshotTo(p, q) /\ (last => q.watching /\ q.lastKey = k) /\ (~last => ~q.watching)
  BY <1>1, <1>3, <1>4, <1>5, <1>6, <1>7, SnapshotToOK
<1> HIDE DEF q
<1>9. dict \in Seq(Keys) /\ IsInjective(dict) /\ IsReg(reg) /\ NotesOK(dict, reg)
  BY InvFacts
<1>10. CursorOK(q, x, dict, reg) /\ q.phase = "walking"
  BY <1>1, <1>2, <1>4, <1>8, <1>9, SnapshotStepOK DEF SnapshotTo, k
<1> HIDE DEF x
<1> QED BY <1>1, <1>2, <1>3, <1>5, <1>8, <1>10, YieldSound

\* The watch on the last key of the quota.
LEMMA WatchNextOK ==
    ASSUME NEW q, IsCursor(q), NEW last \in BOOLEAN, NEW e
    PROVE  LET t == WatchNext(q, e, last)
           IN  /\ IsCursor(t) /\ t.phase = q.phase /\ t.mode = q.mode
               /\ t.order = q.order /\ t.seen = q.seen /\ t.next = q.next
               /\ t.lastKey = q.lastKey /\ t.lastIndex = q.lastIndex
               /\ t.remaining = q.remaining /\ t.recordedLen = q.recordedLen
               /\ t.observed = q.observed /\ t.structural = q.structural
               /\ last => t.watching
               /\ ~last => t.watching = q.watching
<1>1. CASE ~last
  BY <1>1 DEF WatchNext
<1>2. CASE last
  <2> DEFINE E == {q.entryCursor}
             t == [q EXCEPT !.watching = TRUE, !.entryCursor = e]
  <2>0. WatchNext(q, e, last) = t
    BY <1>2 DEF WatchNext
  <2>1. q \in CursorType(E)
    BY DEF IsCursor
  <2> HIDE DEF E
  <2>2. /\ t.phase = q.phase /\ t.mode = q.mode /\ t.order = q.order /\ t.seen = q.seen
        /\ t.next = q.next /\ t.lastKey = q.lastKey /\ t.lastIndex = q.lastIndex
        /\ t.remaining = q.remaining
        /\ t.recordedLen = q.recordedLen /\ t.observed = q.observed
        /\ t.structural = q.structural /\ t.watching /\ t.entryCursor = e
    BY <2>1 DEF CursorType
  <2>3. t \in CursorType({e})
    BY <2>1 DEF CursorType
  <2> HIDE DEF t
  <2>4. IsCursor(t)
    BY <2>2, <2>3 DEF IsCursor
  <2> QED BY <1>2, <2>0, <2>2, <2>4
<1> QED BY <1>1, <1>2

\* What StepLive makes of the prepared cursor.
LEMMA LiveToOK ==
    ASSUME NEW p, IsCursor(p), p.remaining # 0, NEW i \in Nat,
           NEW k \in Keys, k = dict[i + 1], NEW last \in BOOLEAN, last => p.remaining = 1,
           ~p.watching, NEW e
    PROVE  LiveDone(p, WatchNext(LiveNext(p, i, k), e, last), i, k, last)
<1> DEFINE E == {p.entryCursor}
           o == IF p.mode = "history" THEN Append(p.order, k) ELSE p.order
           s == IF p.mode = "seen" THEN p.seen \union {k} ELSE p.seen
           m == p.remaining - 1
           n == i + 1
           q == [p EXCEPT !.next = n, !.lastKey = k, !.lastIndex = i,
                          !.remaining = m, !.order = o, !.seen = s]
<1>1. /\ p \in CursorType(E) /\ p.remaining \in Nat /\ p.order \in Seq(Keys)
      /\ p.seen \in SUBSET Keys
  BY CursorFacts DEF IsCursor
<1>2. o \in Seq(Keys) /\ s \in SUBSET Keys /\ m \in Nat /\ n \in Nat
  BY <1>1, AppendProperties
<1>3. LiveNext(p, i, k) = q
  BY DEF LiveNext
<1>4. (p.mode = "history" => o = Append(p.order, k)) /\ (p.mode = "seen" => s = p.seen \cup {k})
  OBVIOUS
<1> HIDE DEF E, o, s, m, n
<1>5. /\ q.phase = p.phase /\ q.mode = p.mode /\ q.order = o /\ q.seen = s
      /\ q.next = n /\ q.lastKey = k /\ q.lastIndex = i /\ q.remaining = m
      /\ q.recordedLen = p.recordedLen /\ q.observed = p.observed
      /\ q.structural = p.structural /\ q.watching = p.watching
      /\ q.entryCursor = p.entryCursor
  BY <1>1 DEF CursorType
<1>6. q \in CursorType(E)
  BY <1>1, <1>2 DEF CursorType
<1> HIDE DEF q
<1>7. IsCursor(q)
  BY <1>5, <1>6 DEF IsCursor, E
<1> DEFINE t == WatchNext(q, e, last)
<1>8. /\ IsCursor(t) /\ t.phase = q.phase /\ t.mode = q.mode
      /\ t.order = q.order /\ t.seen = q.seen /\ t.next = q.next
      /\ t.lastKey = q.lastKey /\ t.lastIndex = q.lastIndex
      /\ t.remaining = q.remaining /\ t.recordedLen = q.recordedLen
      /\ t.observed = q.observed /\ t.structural = q.structural
      /\ (last => t.watching) /\ (~last => t.watching = q.watching)
  BY <1>7, WatchNextOK
<1>9. WatchNext(LiveNext(p, i, k), e, last) = t
  BY <1>3
<1> HIDE DEF t
<1>10. LiveTo(p, t, i)
  BY <1>4, <1>5, <1>8 DEF LiveTo, m, n
<1>11. (last => t.watching /\ t.lastKey = k) /\ (~last => ~t.watching)
  BY <1>5, <1>8
<1> QED BY <1>9, <1>10, <1>11 DEF LiveDone

\* A set of numbers that is not empty has a least element.
LEMMA LeastExists ==
    ASSUME NEW S \in SUBSET Nat, S # {}
    PROVE  \E i \in S : \A j \in S : i <= j
<1>1. PICK i \in S : \A j \in S : ~(<<j, i>> \in OpToRel(<, Nat))
  BY NatLessThanWellFounded, WFMin
<1>2. \A j \in S : i <= j
  <2> SUFFICES ASSUME NEW j \in S, j < i PROVE FALSE
    BY SMT
  <2>1. j \in Nat /\ i \in Nat
    OBVIOUS
  <2>2. <<j, i>> \in OpToRel(<, Nat)
    BY <2>1 DEF OpToRel
  <2> QED BY <1>1, <2>2
<1> QED BY <1>2

\* The next unseen key of the live order.
LEMMA StepLiveSound ==
    ASSUME IInv, NEW c \in Cursors, StepLive(c)
    PROVE  StepOK
<1> DEFINE p == Prepared(cursors[c])
           w == walk[c]
           i == CHOOSE j \in Candidates(p) : \A m \in Candidates(p) : j <= m
           k == dict[i + 1]
           last == p.remaining = 1 /\ ~p.watching
           e == reg.layout.entries
           q == LiveNext(p, i, k)
           t == WatchNext(q, e, last)
           x == Yielded(w, p, k)
<1>1. /\ CanStep(c) /\ ~SizeChanged(c) /\ p.mode # "snapshot"
      /\ ~QuotaViolated(cursors[c]) /\ Candidates(p) # {}
      /\ cursors' = [cursors EXCEPT ![c] = t]
      /\ reg' = IF last THEN WatchKey(reg, k) ELSE reg
      /\ walk' = [walk EXCEPT ![c] = x] /\ dict' = dict
  BY DEF StepLive, LiveNext, WatchNext
<1>2. /\ cursors[c].phase = "walking" /\ IsWalk(w)
      /\ IsInjective(w.got) /\ (w.steady => Begins(w.got, w.start))
      /\ Ready(p, w) /\ ReadyLive(p, w) /\ ReadyFlags(p, w)
      /\ p.watching = cursors[c].watching
  BY <1>1, StepReady
<1>3. last \in BOOLEAN /\ (last => p.remaining = 1)
  OBVIOUS
<1>4. p.remaining # 0
  BY <1>1 DEF QuotaViolated
<1> HIDE DEF p, w
<1>5. /\ IsCursor(p) /\ p.phase = "walking" /\ p.next \in Nat /\ p.remaining \in Nat
      /\ Len(dict) \in Nat /\ p.remaining = p.recordedLen - Len(w.got)
      /\ Len(w.got) \in Nat /\ p.recordedLen \in Nat
  BY <1>1, <1>2, CursorFacts, WalkFacts, InvFacts DEF Ready, ReadyLive
<1>6. /\ i \in Candidates(p) /\ (\A m \in Candidates(p) : i <= m)
  <2>1. Candidates(p) \in SUBSET Nat
    BY <1>5 DEF Candidates
  <2>2. \E j \in Candidates(p) : \A m \in Candidates(p) : j <= m
    BY <1>1, <2>1, LeastExists
  <2> QED BY <2>2
<1> HIDE DEF i
<1>7. i \in Nat /\ i + 1 \in 1..Len(dict)
  BY <1>5, <1>6 DEF Candidates
<1>8. k \in Keys /\ k = dict[i + 1]
  BY <1>7, InvFacts
<1>9. ~p.watching
  BY <1>2, <1>4, <1>5 DEF ReadyFlags
<1> HIDE DEF last, k, e
<1>10. LiveTo(p, t, i) /\ (last => t.watching /\ t.lastKey = k) /\ (~last => ~t.watching)
  <2>1. LiveDone(p, t, i, k, last)
    BY <1>3, <1>4, <1>5, <1>7, <1>8, <1>9, LiveToOK
  <2> HIDE DEF t, q
  <2> QED BY <2>1 DEF LiveDone
<1> HIDE DEF t, q
<1>11. dict \in Seq(Keys) /\ IsInjective(dict) /\ IsReg(reg) /\ NotesOK(dict, reg)
  BY InvFacts
<1>12. CursorOK(t, x, dict, reg)
  BY <1>1, <1>2, <1>4, <1>6, <1>7, <1>10, <1>11, LiveStepOK DEF k
<1>13. t.phase = "walking"
  BY <1>5, <1>10 DEF LiveTo
<1> HIDE DEF x
<1> QED BY <1>1, <1>2, <1>3, <1>8, <1>9, <1>10, <1>12, <1>13, YieldSound

-----------------------------------------------------------------------------
(* Iterators come and go *)

\* The history of a new iterator.
NewWalk == [NoWalk EXCEPT !.start = dict]

\* A new iterator.
LEMMA NewCursorOK ==
    ASSUME dict \in Seq(Keys), IsInjective(dict), NEW v \in Nat, NEW r, r.version = v
    PROVE  /\ CursorOK(NewCursor(v), NewWalk, dict, r)
           /\ NewCursor(v).phase = "walking" /\ ~NewCursor(v).watching
<1> DEFINE n == Len(dict)
           m == IF n > Threshold THEN "history" ELSE "snapshot"
           o == IF n > Threshold THEN <<>> ELSE dict
           f == FreeCursor
           q == [f EXCEPT !.phase = "walking", !.mode = m, !.order = o,
                          !.observed = v, !.recordedLen = n, !.remaining = n]
           z == NoWalk
           x == [z EXCEPT !.start = dict]
<1>1. NewCursor(v) = q
  BY DEF NewCursor
<1>2. NewWalk = x
  BY DEF NewWalk
<1>3. /\ n \in Nat /\ m \in {"history", "snapshot"} /\ o \in Seq(Keys)
      /\ (m = "history" => o = <<>>) /\ (m = "snapshot" => o = dict)
  OBVIOUS
<1>4. <<>> \in Seq(Keys) /\ Len(<<>>) = 0 /\ {} \in SUBSET Keys /\ n = Len(dict)
  OBVIOUS
<1>f. /\ f.pos = 0 /\ f.next = 0 /\ f.lastKey = NoKey /\ ~f.watching /\ ~f.structural
      /\ f.entryCursor = 0 /\ f \in CursorType({0})
  BY <1>4 DEF FreeCursor, CursorType
<1>z. z.got = <<>> /\ z.steady /\ ~z.lastGone /\ ~z.relinked /\ IsWalk(z)
  BY <1>4, EmptyOnce DEF NoWalk, IsWalk
<1> DEFINE E == {0}
<1> HIDE DEF n, m, o, f, z, E
<1>5. q \in CursorType(E)
  BY <1>3, <1>4, <1>f DEF CursorType, E
<1>6. /\ q.phase = "walking" /\ q.mode = m /\ q.order = o /\ q.pos = 0 /\ q.next = 0
      /\ q.lastKey = NoKey /\ q.observed = v /\ q.recordedLen = n /\ q.remaining = n
      /\ ~q.watching /\ ~q.structural /\ q.entryCursor = 0
  BY <1>f DEF CursorType
<1>7. x.start = dict /\ x.got = <<>> /\ x.steady /\ ~x.lastGone /\ ~x.relinked
  BY <1>z DEF IsWalk
<1>8. IsWalk(x)
  BY <1>z DEF IsWalk
<1> HIDE DEF q, x
<1>9. IsCursor(q)
  BY <1>5, <1>6 DEF IsCursor, E
<1>10. IsInjective(<<>>) /\ Begins(<<>>, dict)
  BY <1>3, <1>4 DEF IsInjective, Begins
<1>11. Form(q, x)
  <2>1. q.mode = "snapshot" => Snapshot(q, x)
    BY <1>3, <1>4, <1>6, <1>7, <1>10 DEF Snapshot
  <2>2. q.mode = "history" => History(q, x)
    BY <1>3, <1>4, <1>6, <1>7 DEF History
  <2>3. LiveWalk(q, x)
    <3>1. n = n - Len(x.got)
      BY <1>3, <1>4, <1>7
    <3> QED BY <3>1, <1>6, <1>7 DEF LiveWalk
  <2> QED BY <2>1, <2>2, <2>3, <1>3, <1>4, <1>6, <1>7 DEF Form
<1>12. Yields(q, x)
  BY <1>3, <1>4, <1>6, <1>7, <1>10 DEF Yields
<1>13. Reached(x, dict) /\ Watch(q, x, r)
  BY <1>6, <1>7 DEF Reached, Watch
<1>14. Current(q, x, dict)
  BY <1>3, <1>4, <1>6, <1>7, <1>10 DEF Current
<1>15. q.observed <= r.version
  BY <1>6
<1>16. Walking(q, x, dict, r)
  BY <1>11, <1>12, <1>13, <1>14, <1>15 DEF Walking
<1> QED BY <1>1, <1>2, <1>6, <1>8, <1>9, <1>16 DEF CursorOK

\* An iterator takes a handle of the registration.
LEMMA StartSound ==
    ASSUME IInv, NEW c \in Cursors, cursors[c].phase # "walking", NEW q, NEW x,
           NEW r0, IsReg(r0), Counted(cursors, r0),
           NEW r1, IsReg(r1), NotesOK(dict, r1), r1.observers = r0.observers,
           \A k \in Keys : r1.watchers[k] >= r0.watchers[k] + One(Watches(q, k)),
           CursorOK(q, x, dict, r1), q.phase = "walking",
           \A y \in Cursors : CursorOK(cursors[y], walk[y], dict, r1),
           cursors' = [cursors EXCEPT ![c] = q], walk' = [walk EXCEPT ![c] = x],
           reg' = Attach(r1), dict' = dict
    PROVE  StepOK
<1> DEFINE r2 == Attach(r1)
<1>1. /\ IsReg(r2) /\ r2.version = r1.version /\ r2.observers = r1.observers + 1
      /\ r2.pending = r1.pending /\ r2.reinserted = r1.reinserted
      /\ r2.watchers = r1.watchers
  BY AttachOK
<1>2. reg' = r2
  OBVIOUS
<1> HIDE DEF r2
<1>3. /\ r0.observers \in Nat /\ \A k \in Keys : r1.reinserted[k].at \in Int
      /\ \A k \in Keys : r1.watchers[k] \in Nat /\ r0.watchers[k] \in Nat
  BY RegFacts
<1>o. r2.observers # 0
  BY <1>1, <1>3
<1>4. Weaker(r1, r2) /\ NotesOK(dict, r2)
  BY <1>1, <1>3, <1>o DEF Weaker, NotesOK
<1>5. CursorOK(q, x, dict, r2) /\ \A y \in Cursors : CursorOK(cursors[y], walk[y], dict, r2)
  BY <1>1, <1>4, CursorKept
<1>6. ~cursors[c].watching
  BY InvFacts DEF CursorOK, Idle
<1>7. Counted([cursors EXCEPT ![c] = q], r2)
  <2>1. r2.observers = r0.observers + One(q.phase = "walking") - One(cursors[c].phase = "walking")
    BY <1>1, <1>3 DEF One
  <2>2. ASSUME NEW k \in Keys
        PROVE  r2.watchers[k] >= r0.watchers[k] + One(Watches(q, k)) - One(Watches(cursors[c], k))
    <3>1. One(Watches(cursors[c], k)) = 0 /\ One(Watches(q, k)) \in Nat
      BY <1>6 DEF One, Watches
    <3>2. r1.watchers[k] >= r0.watchers[k] + One(Watches(q, k))
      OBVIOUS
    <3> QED BY <3>1, <3>2, <1>1, <1>3
  <2> QED BY <2>1, <2>2, <1>1, InvFacts, CountStep
<1>8. IInv'
  BY <1>1, <1>2, <1>4, <1>5, <1>7, OneCursor
<1>9. EndsOK
  BY NoEnd
<1> QED BY <1>8, <1>9 DEF StepOK

\* iter(d)
LEMMA IterSound ==
    ASSUME IInv, NEW c \in Cursors, Iter(c)
    PROVE  StepOK
<1> DEFINE r == IF reg.observers = 0 THEN FreshRegistration(Len(dict)) ELSE reg
           q == NewCursor(r.version)
<1>1. /\ cursors[c].phase = "free" /\ reg' = Attach(r) /\ dict' = dict
      /\ cursors' = [cursors EXCEPT ![c] = q] /\ walk' = [walk EXCEPT ![c] = NewWalk]
  BY DEF Iter, NewWalk
<1>2. /\ dict \in Seq(Keys) /\ IsInjective(dict) /\ IsReg(reg) /\ NotesOK(dict, reg)
      /\ Counted(cursors, reg)
      /\ \A y \in Cursors : CursorOK(cursors[y], walk[y], dict, reg)
  BY InvFacts
<1>3. /\ IsReg(r) /\ NotesOK(dict, r) /\ Counted(cursors, r)
      /\ \A y \in Cursors : CursorOK(cursors[y], walk[y], dict, r)
  <2>1. CASE reg.observers # 0
    BY <1>2, <2>1
  <2>2. CASE reg.observers = 0
    <3> DEFINE f == FreshRegistration(Len(dict))
    <3>1. IsReg(f) /\ NotesOK(dict, f) /\ f.observers = 0
      BY FreshOK
    <3> HIDE DEF f
    <3>2. \A y \in Cursors : cursors[y].phase # "walking"
      BY <1>2, <2>2, NobodyWalks
    <3>3. \A y \in Cursors : ~cursors[y].watching /\ CursorOK(cursors[y], walk[y], dict, f)
      BY <1>2, <3>2 DEF CursorOK, Idle
    <3>4. Counted(cursors, f)
      BY <3>1, <3>2, <3>3, CountNone
    <3>5. r = f
      BY <2>2 DEF f
    <3> HIDE DEF r
    <3> QED BY <3>1, <3>3, <3>4, <3>5
  <2> QED BY <2>1, <2>2
<1> HIDE DEF r
<1>4. r.version \in Nat /\ \A k \in Keys : r.watchers[k] \in Nat
  BY <1>3, RegFacts
<1>5. CursorOK(q, NewWalk, dict, r) /\ q.phase = "walking" /\ ~q.watching
  BY <1>2, <1>4, NewCursorOK
<1> HIDE DEF q
<1>6. \A k \in Keys : r.watchers[k] >= r.watchers[k] + One(Watches(q, k))
  BY <1>4, <1>5 DEF One, Watches
<1> QED BY <1>1, <1>3, <1>5, <1>6, StartSound

\* copy.copy(it): the clone knows what the cursor knows.
LEMMA ReduceCopySound ==
    ASSUME IInv, NEW c \in Cursors, NEW p \in Cursors, ReduceCopy(c, p)
    PROVE  StepOK
<1> DEFINE q == cursors[c]
           x == walk[c]
           r1 == IF q.watching THEN WatchKey(reg, q.lastKey) ELSE reg
<1>1. /\ q.phase = "walking" /\ cursors[p].phase = "free" /\ reg' = Attach(r1) /\ dict' = dict
      /\ cursors' = [cursors EXCEPT ![p] = q] /\ walk' = [walk EXCEPT ![p] = x]
  BY DEF ReduceCopy
<1>2. /\ dict \in Seq(Keys) /\ IsInjective(dict) /\ IsReg(reg) /\ NotesOK(dict, reg)
      /\ Counted(cursors, reg)
      /\ \A y \in Cursors : CursorOK(cursors[y], walk[y], dict, reg)
      /\ \A k \in Keys : reg.watchers[k] \in Nat /\ reg.reinserted[k].at \in Int
  BY InvFacts, RegFacts
<1>3. /\ IsReg(r1) /\ r1.version = reg.version /\ r1.observers = reg.observers
      /\ r1.pending = reg.pending /\ r1.reinserted = reg.reinserted
      /\ \A k \in Keys : r1.watchers[k] >= reg.watchers[k] + One(Watches(q, k))
  <2>1. CASE ~q.watching
    BY <2>1, <1>2 DEF One, Watches
  <2>2. CASE q.watching
    <3> DEFINE j == q.lastKey
               s == WatchKey(reg, j)
    <3>1. j \in Keys
      <4>1. CursorOK(q, x, dict, reg)
        BY <1>2
      <4>2. x.got # <<>> /\ j = Last(x.got) /\ x.got \in Seq(Keys)
        BY <4>1, <2>2, <1>1, WalkFacts DEF CursorOK, Walking, Watch
      <4> QED BY <4>2 DEF Last
    <3>2. /\ IsReg(s) /\ s.version = reg.version /\ s.observers = reg.observers
          /\ s.pending = reg.pending /\ s.reinserted = reg.reinserted
          /\ s.watchers[j] = reg.watchers[j] + 1
          /\ \A k \in Keys : k # j => s.watchers[k] = reg.watchers[k]
      BY <1>2, <3>1, WatchKeyOK
    <3>3. r1 = s
      BY <2>2
    <3> HIDE DEF s, r1
    <3>4. ASSUME NEW k \in Keys PROVE s.watchers[k] >= reg.watchers[k] + One(Watches(q, k))
      <4>1. One(Watches(q, k)) \in 0..1 /\ (k # j => One(Watches(q, k)) = 0)
        BY DEF One, Watches
      <4> HIDE DEF j
      <4>2. CASE k = j
        BY <4>1, <4>2, <3>2, <1>2
      <4>3. CASE k # j
        BY <4>1, <4>3, <3>2, <1>2
      <4> QED BY <4>2, <4>3
    <3> QED BY <3>2, <3>3, <3>4
  <2> QED BY <2>1, <2>2
<1> HIDE DEF r1
<1>4. Weaker(reg, r1)
  BY <1>2, <1>3 DEF Weaker
<1>5. NotesOK(dict, r1)
  <2>1. ASSUME NEW k \in reg.pending
        PROVE  r1.watchers[k] > 0 /\ k \notin Range(dict) /\ reg.observers # 0
    <3>1. k \in Keys /\ reg.watchers[k] > 0 /\ k \notin Range(dict) /\ reg.observers # 0
      BY <1>2, RegFacts DEF NotesOK
    <3>2. One(Watches(q, k)) \in Nat /\ r1.watchers[k] \in Nat
      BY <1>3, <3>1, RegFacts DEF One
    <3> QED BY <3>1, <3>2, <1>2, <1>3
  <2> QED BY <2>1, <1>2, <1>3 DEF NotesOK
<1>6. \A y \in Cursors : CursorOK(cursors[y], walk[y], dict, r1)
  BY <1>2, <1>3, <1>4, CursorKept
<1>7. CursorOK(q, x, dict, r1)
  BY <1>6
<1> HIDE DEF q, x
<1>8. cursors[p].phase # "walking"
  BY <1>1
<1> QED BY <1>1, <1>2, <1>3, <1>5, <1>6, <1>7, <1>8, StartSound

\* An iterator object that had ended goes.
LEMMA EndedGoes ==
    ASSUME IInv, NEW c \in Cursors, cursors[c].phase # "walking", dict' = dict, reg' = reg,
           cursors' = [cursors EXCEPT ![c] = FreeCursor], walk' = [walk EXCEPT ![c] = NoWalk]
    PROVE  StepOK
<1> DEFINE q == FreeCursor
<1>1. q.phase = "free" /\ q.phase # "walking" /\ ~q.watching /\ CursorOK(q, NoWalk, dict, reg)
  BY FreeIsReleased, ReleasedOK
<1> HIDE DEF q
<1>2. /\ IsReg(reg) /\ NotesOK(dict, reg) /\ Counted(cursors, reg) /\ DOMAIN cursors = Cursors
      /\ \A y \in Cursors : CursorOK(cursors[y], walk[y], dict, reg)
      /\ reg.observers \in Nat /\ \A k \in Keys : reg.watchers[k] \in Nat
  BY InvFacts, RegFacts
<1>3. ~cursors[c].watching
  BY <1>2 DEF CursorOK, Idle
<1>4. reg.observers = reg.observers + One(q.phase = "walking") - One(cursors[c].phase = "walking")
  BY <1>1, <1>2 DEF One
<1>5. \A k \in Keys :
        reg.watchers[k] >= reg.watchers[k] + One(Watches(q, k)) - One(Watches(cursors[c], k))
  BY <1>1, <1>2, <1>3 DEF One, Watches
<1>6. Counted([cursors EXCEPT ![c] = q], reg)
  BY <1>2, <1>4, <1>5, CountStep
<1>7. cursors' = [cursors EXCEPT ![c] = q]
  BY DEF q
<1>8. IInv'
  BY <1>1, <1>2, <1>6, <1>7, OneCursor
<1>9. EndsOK
  BY <1>1, <1>7, NoEnd
<1> QED BY <1>8, <1>9 DEF StepOK

\* The iterator object goes, alive or not.
LEMMA DropSound ==
    ASSUME IInv, NEW c \in Cursors, Drop(c)
    PROVE  StepOK
<1>1. CASE cursors[c].phase # "walking"
  BY <1>1, EndedGoes DEF Drop
<1>2. CASE cursors[c].phase = "walking"
  <2> DEFINE q == FreeCursor
             r2 == Detach(reg)
  <2>1. dict' = dict /\ reg' = r2 /\ cursors' = [cursors EXCEPT ![c] = q] /\ walk' = [walk EXCEPT ![c] = NoWalk]
    BY <1>2 DEF Drop
  <2>2. /\ q.phase = "free" /\ q.phase # "walking" /\ ~q.watching
        /\ \A r : CursorOK(q, NoWalk, dict, r)
    BY FreeIsReleased, ReleasedOK
  <2> HIDE DEF q
  <2>3. /\ IsReg(reg) /\ NotesOK(dict, reg)
        /\ \A k \in Keys : reg.watchers[k] \in Nat /\ reg.reinserted[k].at \in Int
    BY InvFacts, RegFacts
  <2>4. Weaker(reg, reg)
    BY <2>3 DEF Weaker
  <2>5. \A k \in Keys : reg.watchers[k] >= reg.watchers[k] - One(Watches(cursors[c], k))
    BY <2>3 DEF One
  <2>6. /\ IsReg(r2) /\ NotesOK(dict, r2) /\ Counted([cursors EXCEPT ![c] = q], r2)
        /\ \A y \in Cursors : y # c => CursorOK(cursors[y], walk[y], dict, r2)
    BY <1>2, <2>2, <2>3, <2>4, <2>5, LetGo
  <2> HIDE DEF r2
  <2>7. IInv'
    BY <2>1, <2>2, <2>6, OneCursor
  <2>8. EndsOK
    BY <2>1, <2>2, NoEnd
  <2> QED BY <2>7, <2>8 DEF StepOK
<1> QED BY <1>1, <1>2

\* The drained clone goes.
LEMMA ProbeDoneSound ==
    ASSUME IInv, NEW p \in Cursors, ProbeDone(p)
    PROVE  StepOK
<1>1. cursors[p].phase # "walking"
  BY DEF ProbeDone, Ended
<1> QED BY <1>1, EndedGoes DEF ProbeDone

-----------------------------------------------------------------------------
(* Mutations *)

\* What every mutation does to the order: the keys that stay keep their order
\* and precede the new ones, which stand beyond the length the dictionary had.
Edit(b, a) ==
    /\ a \in Seq(Keys) /\ IsInjective(a)
    /\ \A i \in 1..Len(a) :
         a[i] \in Range(b) =>
           \A j \in 1..i : a[j] \in Range(b) /\ IndexIn(b, a[j]) <= IndexIn(b, a[i])
    /\ \A i \in 1..Len(a) : a[i] \notin Range(b) => i > Len(b)

\* What a tracked mutation makes of the registration.
Tracked(r, t, a) ==
    /\ IsReg(t) /\ NotesOK(a, t) /\ t.version = r.version + 1
    /\ t.observers = r.observers /\ t.watchers = r.watchers
    /\ \A k \in Keys : \/ t.reinserted[k].at = r.reinserted[k].at
                       \/ k \in r.pending /\ t.reinserted[k].at = r.version + 1

\* TrackedMutation does.
LEMMA TrackedOK ==
    ASSUME NEW r, IsReg(r), NEW b \in Seq(Keys), IsInjective(b), NEW a, Edit(b, a),
           NotesOK(b, r), r.observers # 0, NEW reset \in BOOLEAN
    PROVE  Tracked(r, TrackedMutation(r, b, a, reset), a)
<1> DEFINE n == Len(b)
           m == Len(a)
           removed  == IF reset THEN n ELSE IF n <= m THEN 0 ELSE n - m
           inserted == IF reset THEN m ELSE IF n <= m THEN m - n ELSE 0
           base     == n - removed
           watched  == {k \in Keys : r.watchers[k] > 0}
           gone     == {k \in watched : k \in Range(b) /\ k \notin Range(a)}
           back     == {k \in watched : k \notin Range(b) /\ IndexIn(a, k) >= base}
           P        == r.pending \union gone
           cleared  == IF reset THEN LayoutForLen(0)
                       ELSE [r.layout EXCEPT !.live = @ - removed]
           layoutAt == LayoutsAfter(cleared, inserted)
           pos(k)   == InsertPosition(layoutAt[IndexIn(a, k) - base])
           v        == r.version + 1
           R2 == [k \in Keys |-> IF k \in back \intersect P
                                 THEN [at |-> v, position |-> pos(k)]
                                 ELSE r.reinserted[k]]
           P2 == P \ back
           l  == [layoutAt[inserted] EXCEPT !.live = m]
           t  == [r EXCEPT !.version = v, !.pending = P2, !.reinserted = R2, !.layout = l]
<1>1. TrackedMutation(r, b, a, reset) = t
  BY DEF TrackedMutation
<1>2. /\ r.version \in Nat /\ r.watchers \in [Keys -> Nat] /\ r.pending \in SUBSET Keys
      /\ DOMAIN r.reinserted = Keys
      /\ \A k \in Keys : r.watchers[k] \in Nat /\ r.reinserted[k].at \in Int
  BY RegFacts
<1>3. a \in Seq(Keys) /\ IsInjective(a) /\ m \in Nat /\ n \in Nat
  BY DEF Edit
\* a key that comes back stands where the insertions are
<1>4. ASSUME NEW k \in Keys, k \in Range(a), k \notin Range(b) PROVE IndexIn(a, k) >= base
  <2> DEFINE i == IndexIn(a, k) + 1
  <2>1. IndexIn(a, k) \in Int /\ i \in 1..m /\ a[i] = k
    BY <1>3, <1>4, IndexInOK
  <2>2. i > n
    BY <2>1, <1>4 DEF Edit
  <2>3. base = 0 \/ base = n
    BY <1>3, <2>1, <2>2
  <2> HIDE DEF base, n
  <2> QED BY <2>1, <2>2, <2>3, <1>3
<1>5. /\ P2 \in SUBSET Keys /\ DOMAIN R2 = Keys
      /\ \A k \in P2 : (k \in r.pending \/ k \in gone) /\ k \notin back
      /\ \A k \in gone : k \in Keys /\ r.watchers[k] > 0 /\ k \in Range(b) /\ k \notin Range(a)
      /\ \A k \in back : k \in Keys /\ k \notin Range(b)
  BY <1>2
<1>6. ASSUME NEW k \in Keys, k \notin back, r.watchers[k] > 0, k \notin Range(b)
      PROVE  k \notin Range(a)
  BY <1>4, <1>6
<1>7. ASSUME NEW k \in Keys, k \in back, k \in P PROVE k \in r.pending
  BY <1>7, <1>5
<1>8. ASSUME NEW k \in Keys
      PROVE  R2[k] = IF k \in back \intersect P THEN [at |-> v, position |-> pos(k)]
                     ELSE r.reinserted[k]
  OBVIOUS
<1>9. r \in RegType({r.reinserted}, {r.layout}) /\ v \in Nat
  BY <1>2 DEF IsReg, RegType
<1>10. \A k \in Keys : \/ R2[k].at = r.reinserted[k].at
                       \/ k \in r.pending /\ R2[k].at = v
  <2> SUFFICES ASSUME NEW k \in Keys
               PROVE R2[k].at = r.reinserted[k].at \/ (k \in r.pending /\ R2[k].at = v)
    OBVIOUS
  <2>1. CASE k \in back \intersect P
    <3> DEFINE p == pos(k)
    <3>1. R2[k] = [at |-> v, position |-> p]
      BY <1>8, <2>1
    <3> HIDE DEF p, R2, v, back, P
    <3>2. k \in r.pending
      BY <1>7, <2>1
    <3> QED BY <3>1, <3>2
  <2>2. CASE ~(k \in back \intersect P)
    <3>1. R2[k] = r.reinserted[k]
      BY <1>8, <2>2
    <3> HIDE DEF R2
    <3> QED BY <3>1
  <2> QED BY <2>1, <2>2
<1> HIDE DEF P2, R2, l, v, gone, back, P
<1>11. /\ t \in RegType({R2}, {l}) /\ t.version = v /\ t.observers = r.observers
       /\ t.watchers = r.watchers /\ t.pending = P2 /\ t.reinserted = R2 /\ t.layout = l
  BY <1>5, <1>9 DEF RegType
<1> HIDE DEF t
<1>12. \A k \in Keys : R2[k].at \in Int /\ R2[k].at <= v
  <2> SUFFICES ASSUME NEW k \in Keys PROVE R2[k].at \in Int /\ R2[k].at <= v
    OBVIOUS
  <2>1. r.reinserted[k].at \in Int /\ r.reinserted[k].at <= r.version
    BY <1>2 DEF NotesOK
  <2>2. v = r.version + 1
    BY DEF v
  <2> QED BY <1>2, <1>10, <2>1, <2>2
<1>13. IsReg(t)
  BY <1>5, <1>11, <1>12 DEF IsReg, RegType
<1>14. ASSUME NEW k \in P2 PROVE r.watchers[k] > 0 /\ k \notin Range(a)
  <2>1. CASE k \in r.pending
    <3>1. r.watchers[k] > 0 /\ k \notin Range(b) /\ k \in Keys /\ k \notin back
      BY <1>2, <1>5, <2>1 DEF NotesOK
    <3> QED BY <3>1, <1>6
  <2>2. CASE k \in gone
    BY <2>2, <1>5
  <2> QED BY <2>1, <2>2, <1>5
<1>15. NotesOK(a, t)
  BY <1>11, <1>12, <1>14 DEF NotesOK
<1>16. Tracked(r, t, a)
  BY <1>10, <1>11, <1>13, <1>15 DEF Tracked, v
<1> QED BY <1>1, <1>16

\* The history of a cursor after a mutation.
GoneWalk(w, c, a) ==
    [w EXCEPT !.lastGone = @ \/ /\ c.phase = "walking"
                                /\ w.got # <<>>
                                /\ Last(w.got) \notin Range(a)]

\* Its fields.
LEMMA GoneWalkFields ==
    ASSUME NEW w, IsWalk(w), NEW c, NEW a
    PROVE  LET x == GoneWalk(w, c, a)
           IN  /\ IsWalk(x) /\ x.start = w.start /\ x.got = w.got /\ x.steady = w.steady
               /\ x.relinked = w.relinked
               /\ x.lastGone <=> \/ w.lastGone
                                 \/ c.phase = "walking" /\ w.got # <<>> /\ Last(w.got) \notin Range(a)
               /\ c.phase # "walking" => x = w
<1> DEFINE g == w.lastGone \/ /\ c.phase = "walking"
                              /\ w.got # <<>>
                              /\ Last(w.got) \notin Range(a)
           x == [w EXCEPT !.lastGone = g]
<1>1. GoneWalk(w, c, a) = x
  BY DEF GoneWalk
<1>2. g \in BOOLEAN /\ (c.phase # "walking" => g = w.lastGone)
  BY DEF IsWalk
<1>3. g <=> \/ w.lastGone
            \/ c.phase = "walking" /\ w.got # <<>> /\ Last(w.got) \notin Range(a)
  OBVIOUS
<1> HIDE DEF g
<1>4. /\ x.start = w.start /\ x.got = w.got /\ x.steady = w.steady
      /\ x.relinked = w.relinked /\ x.lastGone = g
  BY DEF IsWalk
<1>5. IsWalk(x)
  BY <1>2 DEF IsWalk
<1>6. c.phase # "walking" => x = w
  BY <1>2 DEF IsWalk
<1> HIDE DEF x
<1> QED BY <1>1, <1>3, <1>4, <1>5, <1>6

\* What lies before the last key handed out was handed out: a mutation that
\* leaves this key keeps it so.
LEMMA ReachedKept ==
    ASSUME NEW b \in Seq(Keys), IsInjective(b), NEW a, Edit(b, a), NEW w, NEW x,
           x.got = w.got, x.relinked = w.relinked, w.got # <<>> /\ ~x.lastGone =>
               ~w.lastGone /\ Last(w.got) \in Range(a), Reached(w, b)
    PROVE  Reached(x, a)
<1> DEFINE k == Last(w.got)
<1> SUFFICES ASSUME ~x.lastGone, ~x.relinked, x.got # <<>>
             PROVE  \E i \in 1..Len(a) : a[i] = k /\ \A j \in 1..i : a[j] \in Range(w.got)
  BY DEF Reached
<1>1. k \in Range(a) /\ a \in Seq(Keys) /\ IsInjective(a)
  BY DEF Edit
<1>2. PICK m \in 1..Len(b) : b[m] = k /\ \A j \in 1..m : b[j] \in Range(w.got)
  BY DEF Reached
<1> HIDE DEF k
<1>3. PICK i \in 1..Len(a) : a[i] = k
  BY <1>1, SeqFacts
<1>4. k \in Range(b) /\ Len(b) \in Nat /\ Len(a) \in Nat
  BY <1>1, <1>2, SeqFacts
<1>5. IndexIn(b, k) = m - 1
  BY <1>2, IndexInOK
<1>6. ASSUME NEW j \in 1..i PROVE a[j] \in Range(w.got)
  <2> DEFINE h == IndexIn(b, a[j])
  <2>1. a[j] \in Range(b) /\ h <= m - 1
    BY <1>3, <1>4, <1>5 DEF Edit
  <2>2. h \in Int /\ h + 1 \in 1..Len(b) /\ b[h + 1] = a[j]
    BY <2>1, IndexInOK
  <2> HIDE DEF h
  <2>3. h + 1 \in 1..m
    BY <2>1, <2>2, <1>2, <1>4
  <2> QED BY <2>2, <2>3, <1>2
<1> QED BY <1>3, <1>6

\* A mutation leaves every cursor sound: none has seen the new version yet.
LEMMA CursorMutated ==
    ASSUME NEW c, NEW w, NEW b \in Seq(Keys), IsInjective(b), NEW a, Edit(b, a),
           NEW r, NEW t, IsReg(r), Tracked(r, t, a), CursorOK(c, w, b, r)
    PROVE  CursorOK(c, GoneWalk(w, c, a), a, t)
<1> DEFINE x == GoneWalk(w, c, a)
<1>1. IsCursor(c) /\ IsWalk(w)
  BY DEF CursorOK
<1>2. /\ IsWalk(x) /\ x.start = w.start /\ x.got = w.got /\ x.steady = w.steady
      /\ x.relinked = w.relinked
      /\ x.lastGone <=> \/ w.lastGone
                        \/ c.phase = "walking" /\ w.got # <<>> /\ Last(w.got) \notin Range(a)
      /\ c.phase # "walking" => x = w
  BY <1>1, GoneWalkFields
<1> HIDE DEF x
<1>3. CASE c.phase # "walking"
  BY <1>1, <1>2, <1>3 DEF CursorOK, x
<1>4. CASE c.phase = "walking"
  <2>1. /\ c.observed <= r.version /\ Form(c, w) /\ Yields(c, w) /\ Reached(w, b)
        /\ Watch(c, w, r)
    BY <1>4 DEF CursorOK, Walking
  <2>2. c.observed \in Nat /\ r.version \in Nat /\ t.version = r.version + 1 /\ r.pending \in SUBSET Keys
    BY <1>1, CursorFacts, RegFacts DEF Tracked
  <2>3. c.observed <= t.version /\ c.observed # t.version
    BY <2>1, <2>2
  <2>4. Form(c, x)
    BY <1>2, <2>1 DEF Form, Snapshot, History, Seen, LiveWalk
  <2>5. Yields(c, x)
    BY <1>2, <2>1 DEF Yields
  <2>6. Reached(x, a)
    BY <1>2, <1>4, <2>1, ReachedKept
  <2>7. Watch(c, x, t)
    <3> SUFFICES ASSUME c.watching
                 PROVE  /\ Len(x.got) = c.recordedLen /\ x.got # <<>> /\ c.lastKey = Last(x.got)
                        /\ c.lastKey \in t.pending => x.lastGone
                        /\ t.reinserted[c.lastKey].at > c.observed => x.lastGone
      BY DEF Watch
    <3>1. /\ Len(x.got) = c.recordedLen /\ x.got # <<>> /\ c.lastKey = Last(x.got)
          /\ (c.lastKey \in r.pending => w.lastGone)
          /\ (r.reinserted[c.lastKey].at > c.observed => w.lastGone)
      BY <1>2, <2>1 DEF Watch
    <3>2. c.lastKey \in Keys
      <4>1. x.got \in Seq(Keys) /\ x.got # <<>> /\ c.lastKey = Last(x.got)
        BY <1>2, <3>1, WalkFacts
      <4> QED BY <4>1 DEF Last
    <3>3. c.lastKey \in t.pending => x.lastGone
      <4>1. c.lastKey \in t.pending => c.lastKey \notin Range(a)
        BY DEF Tracked, NotesOK
      <4> QED BY <4>1, <1>2, <1>4, <3>1
    <3>4. t.reinserted[c.lastKey].at > c.observed => x.lastGone
      <4>1. t.reinserted[c.lastKey].at = r.reinserted[c.lastKey].at \/ c.lastKey \in r.pending
        BY <3>2 DEF Tracked
      <4> QED BY <4>1, <1>2, <3>1
    <3> QED BY <3>1, <3>3, <3>4
  <2>8. Walking(c, x, a, t)
    BY <2>3, <2>4, <2>5, <2>6, <2>7 DEF Walking
  <2> QED BY <1>1, <1>2, <1>4, <2>8 DEF CursorOK, x
<1> QED BY <1>3, <1>4

\* A mutation.
LEMMA MutateSound ==
    ASSUME IInv, NEW a, Edit(dict, a), NEW reset \in BOOLEAN, Mutate(a, reset)
    PROVE  StepOK
<1>1. /\ dict \in Seq(Keys) /\ IsInjective(dict) /\ IsReg(reg) /\ NotesOK(dict, reg)
      /\ DOMAIN cursors = Cursors /\ Counted(cursors, reg)
      /\ \A c \in Cursors : CursorOK(cursors[c], walk[c], dict, reg) /\ IsWalk(walk[c])
  BY InvFacts
<1>2. /\ dict' = a /\ cursors' = cursors
      /\ reg' = IF reg.observers = 0 THEN reg ELSE TrackedMutation(reg, dict, a, reset)
      /\ walk' = [c \in Cursors |-> GoneWalk(walk[c], cursors[c], a)]
  BY DEF Mutate, GoneWalk
<1>3. /\ IsReg(reg') /\ NotesOK(a, reg') /\ Counted(cursors, reg')
      /\ \A c \in Cursors : CursorOK(cursors[c], GoneWalk(walk[c], cursors[c], a), a, reg')
  <2>1. CASE reg.observers = 0
    <3>1. reg' = reg
      BY <1>2, <2>1
    <3>2. NotesOK(a, reg)
      BY <1>1, <2>1 DEF NotesOK
    <3>3. \A c \in Cursors : cursors[c].phase # "walking"
      BY <1>1, <2>1, NobodyWalks
    <3>4. ASSUME NEW c \in Cursors
          PROVE  CursorOK(cursors[c], GoneWalk(walk[c], cursors[c], a), a, reg)
      <4>1. GoneWalk(walk[c], cursors[c], a) = walk[c]
        BY <1>1, <3>3, GoneWalkFields
      <4> QED BY <4>1, <1>1, <3>3 DEF CursorOK
    <3> QED BY <3>1, <3>2, <3>4, <1>1
  <2>2. CASE reg.observers # 0
    <3>1. reg' = TrackedMutation(reg, dict, a, reset)
      BY <1>2, <2>2
    <3>2. Tracked(reg, reg', a)
      BY <1>1, <2>2, <3>1, TrackedOK
    <3>3. IsReg(reg') /\ NotesOK(a, reg') /\ Counted(cursors, reg')
      BY <1>1, <3>2 DEF Tracked, Counted
    <3>4. \A c \in Cursors : CursorOK(cursors[c], GoneWalk(walk[c], cursors[c], a), a, reg')
      BY <1>1, <3>2, CursorMutated
    <3> QED BY <3>3, <3>4
  <2> QED BY <2>1, <2>2
<1>4. DOMAIN walk' = Cursors /\ \A c \in Cursors : walk'[c] = GoneWalk(walk[c], cursors[c], a)
  BY <1>2
<1>5. a \in Seq(Keys) /\ IsInjective(a)
  BY DEF Edit
<1>6. IInv'
  BY <1>1, <1>2, <1>3, <1>4, <1>5 DEF IInv
<1>7. EndsOK
  BY <1>2 DEF EndsOK, Ends
<1> QED BY <1>6, <1>7 DEF StepOK

\* New keys go to the end.
LEMMA EditAppend ==
    ASSUME NEW b \in Seq(Keys), IsInjective(b), NEW a \in Seq(Keys), IsInjective(a),
           Begins(b, a)
    PROVE  Edit(b, a)
<1>1. /\ Len(b) \in Nat /\ Len(a) \in Nat /\ Len(b) <= Len(a)
      /\ DOMAIN a = 1..Len(a)
      /\ \A i \in 1..Len(b) : b[i] = a[i]
  BY SeqFacts DEF Begins
<1>2. ASSUME NEW i \in 1..Len(a), a[i] \in Range(b) PROVE i <= Len(b)
  <2>1. PICK j \in 1..Len(b) : b[j] = a[i]
    BY <1>2, SeqFacts
  <2>2. j \in 1..Len(a) /\ a[j] = a[i]
    BY <2>1, <1>1
  <2>3. j = i
    BY <2>2, <1>1 DEF IsInjective
  <2> QED BY <2>1, <2>3, <1>1
<1>3. ASSUME NEW i \in 1..Len(a), a[i] \in Range(b), NEW j \in 1..i
      PROVE  a[j] \in Range(b) /\ IndexIn(b, a[j]) <= IndexIn(b, a[i])
  <2>1. j \in 1..Len(b) /\ i \in 1..Len(b) /\ j <= i
    BY <1>1, <1>2, <1>3
  <2>2. b[j] = a[j] /\ b[i] = a[i]
    BY <1>1, <2>1
  <2>3. IndexIn(b, a[j]) = j - 1 /\ IndexIn(b, a[i]) = i - 1
    BY <2>1, <2>2, IndexInOK
  <2>4. a[j] \in Range(b)
    BY <2>1, <2>2, SeqFacts
  <2> QED BY <2>1, <2>3, <2>4, <1>1
<1>4. ASSUME NEW i \in 1..Len(a), a[i] \notin Range(b) PROVE i > Len(b)
  <2>1. ASSUME i <= Len(b) PROVE FALSE
    <3>1. i \in 1..Len(b)
      BY <2>1, <1>1
    <3>2. b[i] = a[i] /\ b[i] \in Range(b)
      BY <3>1, <1>1, SeqFacts
    <3> QED BY <3>2, <1>4
  <2> QED BY <2>1, <1>1
<1> QED BY <1>3, <1>4 DEF Edit

\* What Without leaves.
LEMMA WithoutOK ==
    ASSUME NEW b, Range(b) \subseteq Keys, NEW K, NEW a \in Without(b, K)
    PROVE  /\ a \in Seq(Keys) /\ IsInjective(a) /\ Range(a) \subseteq Range(b) \ K
           /\ \A i, j \in 1..Len(a) : i < j => IndexIn(b, a[i]) < IndexIn(b, a[j])
<1> DEFINE S == Range(b) \ K
           n == Cardinality(S)
<1>1. IsFiniteSet(S) /\ S \subseteq Keys
  BY BoundAssumption, FS_Subset
<1>2. n \in Nat
  BY <1>1, FS_CardinalityType
<1>3. a \in [1..n -> S] /\ \A i, j \in 1..n : i # j => a[i] # a[j]
  BY DEF Without, SetToSeqs
<1>4. \A i, j \in DOMAIN a : i < j => IndexIn(b, a[i]) < IndexIn(b, a[j])
  BY DEF Without
<1>s. S = Range(b) \ K
  OBVIOUS
<1> HIDE DEF S, n
<1>5. a \in Seq(S) /\ Len(a) = n /\ DOMAIN a = 1..n
  BY <1>2, <1>3
<1>6. a \in Seq(Keys)
  BY <1>1, <1>2, <1>3
<1>7. IsInjective(a)
  BY <1>3, <1>5 DEF IsInjective
<1>8. Range(a) \subseteq S
  BY <1>3, <1>5 DEF Range
<1> QED BY <1>4, <1>5, <1>6, <1>7, <1>8, <1>s

\* A removal keeps the order of the others.
LEMMA EditRemove ==
    ASSUME NEW b \in Seq(Keys), IsInjective(b), NEW K, NEW a \in Without(b, K)
    PROVE  Edit(b, a)
<1>1. Range(b) \subseteq Keys
  BY DEF Range
<1>2. /\ a \in Seq(Keys) /\ IsInjective(a) /\ Range(a) \subseteq Range(b)
      /\ \A i, j \in 1..Len(a) : i < j => IndexIn(b, a[i]) < IndexIn(b, a[j])
  BY <1>1, WithoutOK
<1>3. Len(a) \in Nat /\ \A i \in 1..Len(a) : a[i] \in Range(b)
  BY <1>2, SeqFacts
<1>4. ASSUME NEW i \in 1..Len(a), NEW j \in 1..i
      PROVE  a[j] \in Range(b) /\ IndexIn(b, a[j]) <= IndexIn(b, a[i])
  <2>1. j \in 1..Len(a) /\ (j < i \/ j = i)
    BY <1>3
  <2>2. IndexIn(b, a[j]) \in Int /\ IndexIn(b, a[i]) \in Int
    BY IndexInOK
  <2>3. CASE j < i
    BY <2>1, <2>2, <2>3, <1>2, <1>3
  <2>4. CASE j = i
    BY <2>1, <2>2, <2>4, <1>3
  <2> QED BY <2>1, <2>3, <2>4
<1> QED BY <1>2, <1>3, <1>4 DEF Edit

\* New keys after the others: no key stands twice.
LEMMA ConcatOnce ==
    ASSUME NEW b \in Seq(Keys), IsInjective(b), NEW s \in Seq(Keys), IsInjective(s),
           \A k \in Range(s) : k \notin Range(b)
    PROVE  b \o s \in Seq(Keys) /\ IsInjective(b \o s) /\ Begins(b, b \o s)
<1> DEFINE a == b \o s
           n == Len(b)
<1>1. /\ a \in Seq(Keys) /\ n \in Nat /\ Len(s) \in Nat /\ Len(a) = n + Len(s)
      /\ \A i \in 1..Len(a) : a[i] = IF i <= n THEN b[i] ELSE s[i - n]
  BY ConcatProperties
<1>2. DOMAIN a = 1..Len(a) /\ DOMAIN b = 1..n /\ DOMAIN s = 1..Len(s)
  BY <1>1, SeqFacts
<1>3. \A i \in 1..n : b[i] \in Range(b)
  BY SeqFacts
<1>4. \A i \in 1..Len(s) : s[i] \notin Range(b)
  BY SeqFacts
<1> HIDE DEF a
<1>5. Begins(b, a)
  BY <1>1 DEF Begins, n
<1> HIDE DEF n
<1>6. ASSUME NEW i \in 1..Len(a), NEW j \in 1..Len(a), a[i] = a[j] PROVE i = j
  <2>1. CASE i <= n /\ j <= n
    BY <2>1, <1>1, <1>2, <1>6 DEF IsInjective
  <2>2. CASE i > n /\ j > n
    <3>1. i - n \in 1..Len(s) /\ j - n \in 1..Len(s) /\ s[i - n] = s[j - n]
      BY <2>2, <1>1, <1>6
    <3>2. i - n = j - n
      BY <3>1, <1>2 DEF IsInjective
    <3> QED BY <3>2, <1>1
  <2>3. CASE i <= n /\ j > n
    <3>1. a[i] = b[i] /\ a[j] = s[j - n] /\ i \in 1..n /\ j - n \in 1..Len(s)
      BY <2>3, <1>1
    <3> QED BY <3>1, <1>3, <1>4, <1>6
  <2>4. CASE j <= n /\ i > n
    <3>1. a[j] = b[j] /\ a[i] = s[i - n] /\ j \in 1..n /\ i - n \in 1..Len(s)
      BY <2>4, <1>1
    <3> QED BY <3>1, <1>3, <1>4, <1>6
  <2> QED BY <2>1, <2>2, <2>3, <2>4, <1>1
<1>7. IsInjective(a)
  BY <1>2, <1>6 DEF IsInjective
<1> QED BY <1>1, <1>5, <1>7 DEF a

\* The mutations of the dictionary.
LEMMA MutationsSound ==
    ASSUME IInv, \/ \E k \in Keys : Insert(k) \/ ShiftRemove(k)
                 \/ \E s \in Pairs : Extend(s) \/ ShiftRemoveMany(Range(s))
                 \/ Clear
    PROVE  StepOK
<1>1. dict \in Seq(Keys) /\ IsInjective(dict)
  BY InvFacts
<1>2. ASSUME NEW k \in Keys, Insert(k) PROVE StepOK
  <2> DEFINE a == IF k \in Live THEN dict ELSE Append(dict, k)
  <2>1. Mutate(a, FALSE)
    BY <1>2 DEF Insert
  <2>2. Edit(dict, a)
    <3>1. CASE k \in Live
      <4>1. Begins(dict, dict)
        BY <1>1, SeqFacts DEF Begins
      <4> QED BY <3>1, <4>1, <1>1, EditAppend
    <3>2. CASE k \notin Live
      <4> DEFINE s == <<k>>
      <4>1. s \in Seq(Keys) /\ Len(s) = 1 /\ s[1] = k /\ DOMAIN s = 1..1
        OBVIOUS
      <4>2. a = dict \o s
        BY <3>2, <1>1
      <4> HIDE DEF s, a
      <4>3. IsInjective(s) /\ Range(s) = {k}
        BY <4>1 DEF IsInjective, Range
      <4>4. dict \o s \in Seq(Keys) /\ IsInjective(dict \o s) /\ Begins(dict, dict \o s)
        BY <1>1, <3>2, <4>1, <4>3, ConcatOnce DEF Live
      <4> QED BY <4>2, <4>4, <1>1, EditAppend
    <3> QED BY <3>1, <3>2
  <2> HIDE DEF a
  <2> QED BY <2>1, <2>2, MutateSound
<1>3. ASSUME NEW k \in Keys, ShiftRemove(k) PROVE StepOK
  <2>1. PICK a \in Without(dict, {k}) : Mutate(a, FALSE)
    BY <1>3 DEF ShiftRemove
  <2>2. Edit(dict, a)
    BY <1>1, EditRemove
  <2> QED BY <2>1, <2>2, MutateSound
<1>4. ASSUME NEW s \in Pairs, ShiftRemoveMany(Range(s)) PROVE StepOK
  <2>1. PICK a \in Without(dict, Range(s)) : Mutate(a, FALSE)
    BY <1>4 DEF ShiftRemoveMany
  <2>2. Edit(dict, a)
    BY <1>1, EditRemove
  <2> QED BY <2>1, <2>2, MutateSound
<1>5. ASSUME NEW s \in Pairs, Extend(s) PROVE StepOK
  <2>1. PICK new \in Without(s, Live) : Mutate(dict \o new, FALSE)
    BY <1>5 DEF Extend
  <2>2. Range(s) \subseteq Keys
    BY DEF Pairs, Range
  <2>3. new \in Seq(Keys) /\ IsInjective(new) /\ Range(new) \subseteq Range(s) \ Live
    BY <2>2, WithoutOK
  <2>4. dict \o new \in Seq(Keys) /\ IsInjective(dict \o new) /\ Begins(dict, dict \o new)
    BY <1>1, <2>3, ConcatOnce DEF Live
  <2>5. Edit(dict, dict \o new)
    BY <1>1, <2>4, EditAppend
  <2> QED BY <2>1, <2>5, MutateSound
<1>6. ASSUME Clear PROVE StepOK
  <2>1. Edit(dict, <<>>)
    BY DEF Edit, IsInjective
  <2>2. Mutate(<<>>, TRUE)
    BY <1>6 DEF Clear
  <2> QED BY <2>1, <2>2, MutateSound
<1> QED BY <1>2, <1>3, <1>4, <1>5, <1>6

-----------------------------------------------------------------------------
(* The specification *)

\* The first state.
LEMMA InitSound == Init => IInv
<1> SUFFICES ASSUME Init PROVE IInv
  OBVIOUS
<1>1. dict \in Seq(Keys) /\ IsInjective(dict)
  <2>1. PICK n \in 0..Cardinality(Keys) - 1 : dict \in [1..n -> Keys]
    BY DEF Init
  <2>2. Cardinality(Keys) \in Nat
    BY BoundAssumption, FS_CardinalityType
  <2>3. n \in Nat
    BY <2>2
  <2>4. dict \in Seq(Keys)
    BY <2>1, <2>3
  <2> QED BY <2>4 DEF Init
<1>2. reg = FreshRegistration(0) /\ cursors = [c \in Cursors |-> FreeCursor]
      /\ walk = [c \in Cursors |-> NoWalk]
  BY DEF Init
<1>3. IsReg(reg) /\ NotesOK(dict, reg) /\ reg.observers = 0
  BY <1>2, FreshOK
<1>4. DOMAIN cursors = Cursors /\ DOMAIN walk = Cursors
      /\ \A c \in Cursors : cursors[c] = FreeCursor /\ walk[c] = NoWalk
  BY <1>2
<1>5. /\ FreeCursor.phase # "walking" /\ ~FreeCursor.watching
      /\ CursorOK(FreeCursor, NoWalk, dict, reg)
  BY FreeIsReleased, ReleasedOK
<1>6. Counted(cursors, reg)
  BY <1>3, <1>4, <1>5, CountNone
<1> QED BY <1>1, <1>3, <1>4, <1>5, <1>6 DEF IInv

\* Every step, action by action.
LEMMA NextSound ==
    ASSUME IInv, Next
    PROVE  StepOK
<1>1. ASSUME NEW c \in Cursors, Iter(c) PROVE StepOK
  BY <1>1, IterSound
<1>2. ASSUME NEW c \in Cursors, Drop(c) PROVE StepOK
  BY <1>2, DropSound
<1>3. ASSUME NEW c \in Cursors, ProbeDone(c) PROVE StepOK
  BY <1>3, ProbeDoneSound
<1>4. ASSUME NEW c \in Cursors, StepSizeError(c) PROVE StepOK
  BY <1>4, StepSizeErrorSound
<1>5. ASSUME NEW c \in Cursors, StepKeysError(c) PROVE StepOK
  BY <1>5, StepKeysErrorSound
<1>6. ASSUME NEW c \in Cursors, StepExhausted(c) PROVE StepOK
  BY <1>6, StepExhaustedSound
<1>7. ASSUME NEW c \in Cursors, StepSnapshot(c) PROVE StepOK
  BY <1>7, StepSnapshotSound
<1>8. ASSUME NEW c \in Cursors, StepLive(c) PROVE StepOK
  BY <1>8, StepLiveSound
<1>9. ASSUME NEW c \in Cursors, NEW p \in Cursors, ReduceCopy(c, p) PROVE StepOK
  BY <1>9, ReduceCopySound
<1>10. ASSUME \/ \E k \in Keys : Insert(k) \/ ShiftRemove(k)
              \/ \E s \in Pairs : Extend(s) \/ ShiftRemoveMany(Range(s))
              \/ Clear
       PROVE  StepOK
  BY <1>10, MutationsSound
<1> QED BY <1>1, <1>2, <1>3, <1>4, <1>5, <1>6, <1>7, <1>8, <1>9, <1>10 DEF Next

\* The invariant is one.
LEMMA Inductive == Spec => []IInv
<1>1. Init => IInv
  BY InitSound
<1>2. IInv /\ [Next]_vars => IInv'
  <2> SUFFICES ASSUME IInv, [Next]_vars PROVE IInv'
    OBVIOUS
  <2>1. CASE Next
    BY <2>1, NextSound DEF StepOK
  <2>2. CASE UNCHANGED vars
    BY <2>2 DEF vars, IInv
  <2> QED BY <2>1, <2>2
<1> QED BY <1>1, <1>2, PTL DEF Spec

\* The snapshot of an iterator that sees the version it observed is the live
\* order, its history a prefix of it and its count the length of the
\* dictionary: advance_snapshot_key_cursor may read entries by position, for
\* any number of iterators, copies and mutations.
THEOREM SnapshotAlwaysCurrent == Spec => []SnapshotIsCurrent
<1>1. IInv => SnapshotIsCurrent
  <2> SUFFICES ASSUME IInv, NEW c \in Cursors, cursors[c].phase = "walking",
                      cursors[c].observed = reg.version
               PROVE  CASE cursors[c].mode = "snapshot" -> cursors[c].order = dict
                        [] cursors[c].mode = "history"  -> IsPrefix(cursors[c].order, dict)
                        [] OTHER -> Len(dict) = cursors[c].recordedLen
    BY DEF SnapshotIsCurrent
  <2>1. CursorOK(cursors[c], walk[c], dict, reg) /\ dict \in Seq(Keys) /\ IsWalk(walk[c])
        /\ IsCursor(cursors[c])
    BY InvFacts
  <2>2. Form(cursors[c], walk[c]) /\ Current(cursors[c], walk[c], dict)
    BY <2>1 DEF CursorOK, Walking
  <2>3. cursors[c].mode \in {"history", "snapshot", "seen"}
    BY <2>1, CursorFacts
  <2>4. CASE cursors[c].mode = "snapshot"
    BY <2>2, <2>4 DEF Current
  <2>5. CASE cursors[c].mode = "history"
    <3>1. cursors[c].order = walk[c].got /\ Begins(walk[c].got, dict) /\ walk[c].got \in Seq(Keys)
      BY <2>1, <2>2, <2>5, WalkFacts DEF Form, History, Current
    <3>2. IsPrefix(cursors[c].order, dict)
      BY <3>1, <2>1, BeginsIsPrefix
    <3> QED BY <3>2, <2>5
  <2>6. CASE cursors[c].mode = "seen"
    BY <2>2, <2>6 DEF Current
  <2> QED BY <2>3, <2>4, <2>5, <2>6
<1> QED BY <1>1, Inductive, PTL

\* What an iterator hands out is a walk, whichever of its three forms holds
\* it and whatever is removed, put back and replaced in between: no key twice,
\* no more keys than there were, and in order while it meets no other order
\* (advance_live_key_cursor).
THEOREM YieldsAlwaysSound == Spec => []YieldsSound
<1>1. IInv => YieldsSound
  <2> SUFFICES ASSUME IInv, NEW c \in Cursors
               PROVE  /\ IsInjective(walk[c].got) /\ Len(walk[c].got) <= Len(walk[c].start)
                      /\ walk[c].steady => IsPrefix(walk[c].got, walk[c].start)
    BY DEF YieldsSound, NoKeyTwice, InOrderWhileSteady
  <2>1. CursorOK(cursors[c], walk[c], dict, reg) /\ IsWalk(walk[c])
    BY InvFacts
  <2>2. walk[c].start \in Seq(Keys) /\ walk[c].got \in Seq(Keys)
    BY <2>1, WalkFacts
  <2>3. /\ IsInjective(walk[c].got) /\ Len(walk[c].got) <= Len(walk[c].start)
        /\ walk[c].steady => Begins(walk[c].got, walk[c].start)
    <3>1. CASE cursors[c].phase = "walking"
      BY <2>1, <3>1 DEF CursorOK, Walking, Yields
    <3>2. CASE cursors[c].phase # "walking"
      <4>1. walk[c].got = <<>> /\ walk[c].start = <<>>
        BY <2>1, <3>2 DEF CursorOK, Idle, NoWalk
      <4>2. IsInjective(<<>>) /\ Len(<<>>) = 0 /\ Begins(<<>>, <<>>)
        BY DEF IsInjective, Begins
      <4> QED BY <4>1, <4>2
    <3> QED BY <3>1, <3>2
  <2> QED BY <2>2, <2>3, BeginsIsPrefix
<1> QED BY <1>1, Inductive, PTL

\* What StepOK promises of plain exhaustion, as a step.
StopStep ==
    \A c \in Cursors :
        Ends(c, "done") => \/ Stepped(walk[c], Prepared(cursors[c])).relinked
                           \/ Live \subseteq Range(walk[c].got)

\* What it promises of the "keys changed" error.
ErrorStep ==
    \A c \in Cursors :
        Ends(c, "changed") => \/ ~Stepped(walk[c], Prepared(cursors[c])).steady
                              \/ walk[c].lastGone

\* Every step keeps both.
LEMMA EndSteps == IInv /\ [Next]_vars => [StopStep]_vars /\ [ErrorStep]_vars
<1> SUFFICES ASSUME IInv, [Next]_vars PROVE [StopStep]_vars /\ [ErrorStep]_vars
  OBVIOUS
<1>1. CASE Next
  <2>1. EndsOK
    BY <1>1, NextSound DEF StepOK
  <2> QED BY <2>1 DEF EndsOK, StopOK, ErrorOK, StopStep, ErrorStep
<1>2. CASE UNCHANGED vars
  BY <1>2
<1> QED BY <1>1, <1>2

\* Plain exhaustion means that every live key was handed out, unless the key
\* yielded last was removed and found put back at its old index, where the
\* restart test of advance_live_key_cursor cannot see it.
THEOREM StopAlwaysComplete == Spec => StopMeansComplete
BY EndSteps, Inductive, PTL DEF Spec, StopMeansComplete, StopStep

\* "dictionary keys changed during iteration" is raised only by an iterator
\* that met another order at some step, or whose last key was removed since.
THEOREM ErrorAlwaysEarned == Spec => ErrorIsEarned
BY EndSteps, Inductive, PTL DEF Spec, ErrorIsEarned, ErrorStep

-----------------------------------------------------------------------------
(* The virtual table *)

\* The fields of a layout; it has at least as many entries as live keys.
LayoutOK(l) ==
    l \in [live : Nat, entries : Nat, usable : Nat] /\ l.entries >= l.live

\* A dictionary has no more entries than there are keys.
LEMMA LenBound ==
    ASSUME NEW s \in Seq(Keys), IsInjective(s)
    PROVE  Len(s) \in 0..Cardinality(Keys) /\ Cardinality(Keys) \in Nat
<1> DEFINE n == Len(s)
<1>1. n \in Nat /\ s \in [1..n -> Keys]
  OBVIOUS
<1>2. Cardinality(Keys) \in Nat
  BY BoundAssumption, FS_CardinalityType
<1> HIDE DEF n
<1>3. s \in Injection(1..n, Keys)
  BY <1>1 DEF Injection, IsInjective
<1>4. Cardinality(1..n) <= Cardinality(Keys)
  BY <1>3, BoundAssumption, FS_Injection
<1>5. Cardinality(1..n) = n
  BY <1>1, FS_Interval
<1> QED BY <1>1, <1>2, <1>4, <1>5 DEF n

\* f lists the sizes of a table that is doubled up to n times.
Doubles(f, n) == f = [i \in 0..n |-> IF i = 0 THEN 8 ELSE 2 * f[i - 1]]

\* There is such a list, by its least length: one more doubling extends it.
LEMMA DoublesExist == \A n \in Nat : \E f : Doubles(f, n)
<1> DEFINE S == {n \in Nat : ~ \E f : Doubles(f, n)}
<1> SUFFICES ASSUME S # {} PROVE FALSE
  OBVIOUS
<1>1. PICK n \in S : \A j \in S : n <= j
  <2>1. S \in SUBSET Nat
    OBVIOUS
  <2> QED BY <2>1, LeastExists
<1>2. n \in Nat /\ ~ \E f : Doubles(f, n)
  OBVIOUS
<1>3. CASE n = 0
  <2> DEFINE f == [i \in 0..0 |-> 8]
  <2>1. f = [i \in 0..0 |-> IF i = 0 THEN 8 ELSE 2 * f[i - 1]]
    OBVIOUS
  <2> HIDE DEF f
  <2> QED BY <1>2, <1>3, <2>1 DEF Doubles
<1>4. CASE n # 0
  <2>1. n - 1 \in Nat /\ n - 1 \notin S
    BY <1>1, <1>2, <1>4
  <2>2. PICK g : Doubles(g, n - 1)
    BY <2>1
  <2> DEFINE m == n - 1
             f == [i \in 0..n |-> IF i = n THEN 2 * g[m] ELSE g[i]]
  <2>3. m \in Nat /\ n = m + 1 /\ Doubles(g, m)
    BY <1>2, <2>1, <2>2
  <2>4. \A i \in 0..m : g[i] = IF i = 0 THEN 8 ELSE 2 * g[i - 1]
    <3>1. g = [i \in 0..m |-> IF i = 0 THEN 8 ELSE 2 * g[i - 1]]
      BY <2>3 DEF Doubles
    <3> QED BY <3>1
  <2>5. f[n] = 2 * g[m] /\ \A i \in 0..m : f[i] = g[i]
    BY <1>2, <2>3
  <2>6. f = [i \in 0..n |-> f[i]]
    OBVIOUS
  <2> HIDE DEF m, f
  <2>7. ASSUME NEW i \in 0..n PROVE f[i] = IF i = 0 THEN 8 ELSE 2 * f[i - 1]
    <3>1. CASE i = n
      <4>1. i # 0 /\ i - 1 = m /\ m \in 0..m
        BY <3>1, <2>3
      <4> QED BY <4>1, <3>1, <2>5
    <3>2. CASE i # n
      <4>1. i \in 0..m /\ (i # 0 => i - 1 \in 0..m)
        BY <3>2, <2>3
      <4> QED BY <4>1, <2>4, <2>5
    <3> QED BY <3>1, <3>2
  <2>8. [i \in 0..n |-> f[i]] = [i \in 0..n |-> IF i = 0 THEN 8 ELSE 2 * f[i - 1]]
    BY <2>7
  <2>9. Doubles(f, n)
    BY <2>6, <2>8 DEF Doubles
  <2> QED BY <2>9, <1>2
<1> QED BY <1>3, <1>4

\* Each size is at least 8, and the largest has room for the keys three times.
LEMMA SizeRange ==
    /\ \A s \in TableSizes : s \in Nat /\ s >= 8
    /\ \E s \in TableSizes : s >= 3 * Cardinality(Keys)
<1> DEFINE n == Cardinality(Keys)
           f == TableSize
           S == {i \in 0..n : ~(f[i] \in Nat /\ f[i] >= 8 + 3 * i)}
<1>1. n \in Nat
  BY BoundAssumption, FS_CardinalityType
<1>2. f = [i \in 0..n |-> IF i = 0 THEN 8 ELSE 2 * f[i - 1]]
  <2>1. \E g : g = [i \in 0..n |-> IF i = 0 THEN 8 ELSE 2 * g[i - 1]]
    BY <1>1, DoublesExist DEF Doubles
  <2> QED BY <2>1 DEF TableSize
<1>3. TableSizes = {f[i] : i \in 0..n}
  <2>1. DOMAIN f = 0..n
    BY <1>2
  <2> QED BY <2>1 DEF TableSizes, Range
<1> HIDE DEF n, f
<1>4. f[0] = 8 /\ \A i \in 0..n : i # 0 => f[i] = 2 * f[i - 1]
  <2>1. \A i \in 0..n : f[i] = IF i = 0 THEN 8 ELSE 2 * f[i - 1]
    BY <1>2
  <2>2. 0 \in 0..n
    BY <1>1
  <2> QED BY <2>1, <2>2
<1>5. S = {}
  <2> SUFFICES ASSUME S # {} PROVE FALSE
    OBVIOUS
  <2>1. S \in SUBSET Nat
    BY <1>1
  <2>2. PICK i \in S : \A j \in S : i <= j
    BY <2>1, LeastExists
  <2>3. i \in 0..n /\ ~(f[i] \in Nat /\ f[i] >= 8 + 3 * i)
    OBVIOUS
  <2>4. i # 0
    BY <2>3, <1>4
  <2>5. i - 1 \in 0..n /\ i - 1 \notin S
    BY <2>2, <2>3, <2>4, <1>1
  <2>6. f[i - 1] \in Nat /\ f[i - 1] >= 8 + 3 * (i - 1) /\ f[i] = 2 * f[i - 1]
    BY <2>3, <2>4, <2>5, <1>4
  <2> HIDE DEF S
  <2> QED BY <2>3, <2>6, <1>1
<1>6. \A i \in 0..n : f[i] \in Nat /\ f[i] >= 8 + 3 * i
  BY <1>5
<1> HIDE DEF S
<1>7. \A i \in 0..n : f[i] >= 8
  BY <1>6, <1>1
<1>8. n \in 0..n /\ f[n] >= 3 * n
  BY <1>6, <1>1
<1> QED BY <1>3, <1>6, <1>7, <1>8 DEF n

\* What a table of three times n slots, and at least 8, has room for.
LEMMA Usable ==
    ASSUME NEW s \in Nat, s >= 8
    PROVE  /\ UsableFraction(s) \in Nat
           /\ \A n \in Nat : s >= 3 * n => UsableFraction(s) >= n + 1
BY DEF UsableFraction

\* The room in the table that for_len picks.
FitSize(n) == UsableFraction(Min({s \in TableSizes : UsableFraction(s) >= n}))

\* The room in the table that insert grows to.
GrowSize(n) == UsableFraction(Min({s \in TableSizes : s >= 3 * n}))

\* Some size holds n keys, and growing from three times n leaves room for one
\* more: the subtractions of for_len and insert never saturate.
LEMMA SizesSuffice ==
    ASSUME NEW n \in 0..Cardinality(Keys)
    PROVE  FitSize(n) \in Nat /\ FitSize(n) >= n /\ GrowSize(n) \in Nat /\ GrowSize(n) >= n + 1
<1> DEFINE A == {s \in TableSizes : UsableFraction(s) >= n}
           B == {s \in TableSizes : s >= 3 * n}
           N == Cardinality(Keys)
<1>1. N \in Nat /\ n \in Nat /\ n <= N
  BY BoundAssumption, FS_CardinalityType
<1>2. PICK z \in TableSizes : z >= 3 * N
  BY SizeRange
<1> HIDE DEF N
<1>3. \A s \in TableSizes : s \in Nat /\ s >= 8
  BY SizeRange
<1>4. z >= 3 * n
  BY <1>1, <1>2, <1>3
<1>5. \A s \in TableSizes : s \in Nat /\ UsableFraction(s) \in Nat
  BY <1>3, Usable
<1>6. \A s \in B : UsableFraction(s) >= n + 1
  BY <1>1, <1>3, Usable
<1>u. UsableFraction(z) >= n
  BY <1>1, <1>4, <1>5, <1>6
<1>z. z \in A /\ z \in B
  BY <1>4, <1>u
<1>7. A \in SUBSET Nat /\ B \in SUBSET Nat /\ A # {} /\ B # {}
  BY <1>z, <1>5
<1>8. (\A s \in A : s \in TableSizes /\ UsableFraction(s) >= n) /\ \A s \in B : s \in TableSizes
  OBVIOUS
<1> HIDE DEF A, B
<1>9. Min(A) \in A
  <2>1. \E i \in A : \A j \in A : i <= j
    BY <1>7, LeastExists
  <2> QED BY <2>1 DEF Min
<1>10. Min(B) \in B
  <2>1. \E i \in B : \A j \in B : i <= j
    BY <1>7, LeastExists
  <2> QED BY <2>1 DEF Min
<1>11. /\ UsableFraction(Min(A)) \in Nat /\ UsableFraction(Min(A)) >= n
       /\ UsableFraction(Min(B)) \in Nat /\ UsableFraction(Min(B)) >= n + 1
  BY <1>5, <1>6, <1>8, <1>9, <1>10
<1> QED BY <1>11 DEF A, B, FitSize, GrowSize

\* for_len
LEMMA LayoutForLenOK ==
    ASSUME NEW n \in 0..Cardinality(Keys)
    PROVE  LayoutOK(LayoutForLen(n)) /\ LayoutForLen(n).live = n
<1> DEFINE u == FitSize(n)
<1>1. u \in Nat /\ u >= n /\ n \in Nat
  BY SizesSuffice
<1>2. LayoutForLen(n) = IF n = 0 THEN [live |-> 0, entries |-> 0, usable |-> 0]
                        ELSE [live |-> n, entries |-> n, usable |-> u - n]
  BY DEF LayoutForLen, FitSize
<1> HIDE DEF u
<1>3. u - n \in Nat
  BY <1>1
<1> QED BY <1>1, <1>2, <1>3 DEF LayoutOK

\* insert
LEMMA LayoutInsertOK ==
    ASSUME NEW l, LayoutOK(l), l.live <= Cardinality(Keys), Cardinality(Keys) \in Nat
    PROVE  LayoutOK(LayoutInsert(l)) /\ LayoutInsert(l).live = l.live + 1
<1> DEFINE n == l.live
           e == l.entries
           v == l.usable
           u == GrowSize(n)
<1>1. n \in Nat /\ e \in Nat /\ v \in Nat /\ e >= n
  BY DEF LayoutOK
<1>2. u \in Nat /\ u >= n + 1
  BY <1>1, SizesSuffice
<1>3. LayoutInsert(l) = IF v = 0
                        THEN [live |-> n + 1, entries |-> n + 1, usable |-> u - (n + 1)]
                        ELSE [live |-> n + 1, entries |-> e + 1, usable |-> v - 1]
  BY DEF LayoutInsert, GrowSize
<1>n. n = l.live
  OBVIOUS
<1> HIDE DEF n, e, v, u
<1>4. CASE v = 0
  <2>1. u - (n + 1) \in Nat /\ n + 1 \in Nat
    BY <1>1, <1>2
  <2> QED BY <1>3, <1>4, <1>n, <2>1 DEF LayoutOK
<1>5. CASE v # 0
  <2>1. v - 1 \in Nat /\ n + 1 \in Nat /\ e + 1 \in Nat /\ e + 1 >= n + 1
    BY <1>1, <1>5
  <2> QED BY <1>3, <1>5, <1>n, <2>1 DEF LayoutOK
<1> QED BY <1>4, <1>5

\* f lists the layouts after 0, 1, ..., n insertions.
Lists(f, l, n) == f = [i \in 0..n |-> IF i = 0 THEN l ELSE LayoutInsert(f[i - 1])]

\* There is such a list, by its least length: one more insertion extends it.
LEMMA ListsExist ==
    ASSUME NEW l
    PROVE  \A n \in Nat : \E f : Lists(f, l, n)
<1> DEFINE S == {n \in Nat : ~\E f : Lists(f, l, n)}
<1> SUFFICES ASSUME S # {} PROVE FALSE
  OBVIOUS
<1>1. PICK n \in S : \A j \in S : n <= j
  BY LeastExists
<1>2. n \in Nat /\ ~\E f : Lists(f, l, n)
  OBVIOUS
<1>3. CASE n = 0
  <2> DEFINE f == [i \in 0..0 |-> l]
  <2>1. f = [i \in 0..0 |-> IF i = 0 THEN l ELSE LayoutInsert(f[i - 1])]
    OBVIOUS
  <2> HIDE DEF f
  <2> QED BY <1>2, <1>3, <2>1 DEF Lists
<1>4. CASE n # 0
  <2>1. n - 1 \in Nat /\ n - 1 \notin S
    BY <1>1, <1>2, <1>4
  <2>2. PICK g : Lists(g, l, n - 1)
    BY <2>1
  <2> DEFINE m == n - 1
             f == [i \in 0..n |-> IF i = n THEN LayoutInsert(g[m]) ELSE g[i]]
  <2>3. m \in Nat /\ n = m + 1 /\ Lists(g, l, m)
    BY <1>2, <2>1, <2>2
  <2>4. \A i \in 0..m : g[i] = IF i = 0 THEN l ELSE LayoutInsert(g[i - 1])
    <3>1. g = [i \in 0..m |-> IF i = 0 THEN l ELSE LayoutInsert(g[i - 1])]
      BY <2>3 DEF Lists
    <3> QED BY <3>1
  <2>5. f[n] = LayoutInsert(g[m]) /\ \A i \in 0..m : f[i] = g[i]
    BY <1>2, <2>3
  <2>6. f = [i \in 0..n |-> f[i]]
    OBVIOUS
  <2> HIDE DEF m, f
  <2>7. ASSUME NEW i \in 0..n PROVE f[i] = IF i = 0 THEN l ELSE LayoutInsert(f[i - 1])
    <3>1. CASE i = n
      <4>1. i # 0 /\ i - 1 = m /\ m \in 0..m
        BY <3>1, <2>3
      <4> QED BY <4>1, <3>1, <2>5
    <3>2. CASE i # n
      <4>1. i \in 0..m /\ (i # 0 => i - 1 \in 0..m)
        BY <3>2, <2>3
      <4> QED BY <4>1, <2>4, <2>5
    <3> QED BY <3>1, <3>2
  <2>8. [i \in 0..n |-> f[i]] = [i \in 0..n |-> IF i = 0 THEN l ELSE LayoutInsert(f[i - 1])]
    BY <2>7
  <2>9. Lists(f, l, n)
    BY <2>6, <2>8 DEF Lists
  <2> QED BY <2>9, <1>2
<1> QED BY <1>3, <1>4

\* LayoutsAfter is one.
LEMMA LayoutsAfterLists ==
    ASSUME NEW l, NEW n \in Nat
    PROVE  Lists(LayoutsAfter(l, n), l, n)
<1>1. \E f : f = [i \in 0..n |-> IF i = 0 THEN l ELSE LayoutInsert(f[i - 1])]
  BY ListsExist DEF Lists
<1> QED BY <1>1 DEF LayoutsAfter, Lists

\* Each insertion counts one more live key.
LEMMA LayoutsAfterOK ==
    ASSUME NEW l, LayoutOK(l), NEW n \in Nat, Cardinality(Keys) \in Nat,
           l.live + n <= Cardinality(Keys)
    PROVE  \A i \in 0..n : /\ LayoutOK(LayoutsAfter(l, n)[i])
                           /\ LayoutsAfter(l, n)[i].live = l.live + i
<1> DEFINE f == LayoutsAfter(l, n)
           S == {i \in 0..n : ~(LayoutOK(f[i]) /\ f[i].live = l.live + i)}
<1>1. f = [i \in 0..n |-> IF i = 0 THEN l ELSE LayoutInsert(f[i - 1])]
  BY LayoutsAfterLists DEF Lists
<1>l. l.live \in Nat
  BY DEF LayoutOK
<1> HIDE DEF f
<1>2. f[0] = l /\ \A i \in 1..n : f[i] = LayoutInsert(f[i - 1])
  <2>1. \A i \in 0..n : f[i] = IF i = 0 THEN l ELSE LayoutInsert(f[i - 1])
    BY <1>1
  <2> QED BY <2>1
<1> SUFFICES ASSUME S # {} PROVE FALSE
  BY DEF f
<1>3. S \in SUBSET Nat
  OBVIOUS
<1>4. PICK i \in S : \A j \in S : i <= j
  BY <1>3, LeastExists
<1>5. i \in 0..n /\ ~(LayoutOK(f[i]) /\ f[i].live = l.live + i)
  OBVIOUS
<1>6. i # 0
  BY <1>2, <1>5, <1>l
<1>7. i - 1 \in 0..n /\ i \in 1..n /\ i - 1 \notin S
  BY <1>4, <1>5, <1>6
<1>8. LayoutOK(f[i - 1]) /\ f[i - 1].live = l.live + (i - 1)
  BY <1>7
<1> HIDE DEF S
<1>9. l.live + (i - 1) <= Cardinality(Keys) /\ (l.live + (i - 1)) + 1 = l.live + i
  BY <1>5, <1>l
<1>10. LayoutOK(LayoutInsert(f[i - 1])) /\ LayoutInsert(f[i - 1]).live = f[i - 1].live + 1
  BY <1>8, <1>9, LayoutInsertOK
<1> QED BY <1>2, <1>5, <1>7, <1>8, <1>9, <1>10

-----------------------------------------------------------------------------
(* What the registration counts *)

\* A key is noted as put back only while it is watched.
Returned(r) == \A k \in Keys : r.reinserted[k] # NotReinserted => r.watchers[k] > 0

\* The registration of a dictionary of n keys.
RegOK(r, n) ==
    /\ r \in RegType({r.reinserted}, {r.layout}) /\ DOMAIN r.reinserted = Keys
    /\ r.version <= MaxVersion /\ LayoutOK(r.layout) /\ Returned(r)
    /\ r.observers # 0 => r.layout.live = n

\* The second invariant: what IInv leaves open of the registration.
RInv ==
    /\ RegOK(reg, Len(dict))
    /\ probe \in {{}} \union {{p} : p \in Cursors}

\* A registration that is created or restarted.
LEMMA FreshReg ==
    ASSUME NEW m \in 0..Cardinality(Keys), NEW n
    PROVE  RegOK(FreshRegistration(m), n) /\ FreshRegistration(m).layout.live = m
<1> DEFINE l == LayoutForLen(m)
           r == FreshRegistration(m)
<1>1. r = [version |-> 0, observers |-> 0, watchers |-> [k \in Keys |-> 0],
           pending |-> {}, reinserted |-> [k \in Keys |-> NotReinserted], layout |-> l]
  BY DEF FreshRegistration
<1>2. LayoutOK(l) /\ l.live = m
  BY LayoutForLenOK
<1> HIDE DEF l, r
<1>3. /\ r.version = 0 /\ r.observers = 0 /\ r.layout = l
      /\ r.reinserted = [k \in Keys |-> NotReinserted]
      /\ r \in RegType({r.reinserted}, {r.layout})
  BY <1>1 DEF RegType
<1>4. Returned(r) /\ DOMAIN r.reinserted = Keys
  BY <1>3 DEF Returned
<1>5. 0 <= MaxVersion
  BY BoundAssumption
<1>6. RegOK(r, n) /\ r.layout.live = m
  BY <1>2, <1>3, <1>4, <1>5 DEF RegOK
<1> QED BY <1>6 DEF r

\* One more observer, of a registration that counts the keys.
LEMMA AttachReg ==
    ASSUME NEW r, NEW n, RegOK(r, n), r.layout.live = n
    PROVE  RegOK(Attach(r), n)
<1> DEFINE R == {r.reinserted}
           L == {r.layout}
           q == [r EXCEPT !.observers = @ + 1]
<1>1. r \in RegType(R, L)
  BY DEF RegOK
<1>2. Attach(r) = q
  BY DEF Attach
<1> HIDE DEF R, L
<1>3. /\ q \in RegType(R, L) /\ q.watchers = r.watchers /\ q.version = r.version
      /\ q.reinserted = r.reinserted /\ q.layout = r.layout
  BY <1>1 DEF RegType
<1> HIDE DEF q
<1>4. q \in RegType({q.reinserted}, {q.layout})
  BY <1>3 DEF R, L
<1>5. RegOK(q, n)
  BY <1>3, <1>4 DEF RegOK, Returned
<1> QED BY <1>2, <1>5

\* One more watch.
LEMMA WatchReg ==
    ASSUME NEW r, NEW n, RegOK(r, n), NEW k
    PROVE  RegOK(WatchKey(r, k), n) /\ WatchKey(r, k).layout = r.layout
<1> DEFINE R == {r.reinserted}
           L == {r.layout}
           u == [r.watchers EXCEPT ![k] = @ + 1]
           q == [r EXCEPT !.watchers = u]
<1>1. r \in RegType(R, L) /\ r.watchers \in [Keys -> Nat]
  BY DEF RegOK, RegType
<1>2. WatchKey(r, k) = q
  BY DEF WatchKey
<1>3. u \in [Keys -> Nat] /\ \A j \in Keys : r.watchers[j] > 0 => u[j] > 0
  <2> DEFINE w == r.watchers
             z == w[k] + 1
  <2>1. u = [w EXCEPT ![k] = z] /\ w \in [Keys -> Nat]
    BY <1>1
  <2>2. k \in Keys => z \in Nat /\ z > 0
    BY <2>1
  <2> HIDE DEF w, z, u
  <2>3. u \in [Keys -> Nat] /\ \A j \in Keys : u[j] = IF j = k THEN z ELSE w[j]
    BY <2>1, <2>2
  <2> QED BY <2>2, <2>3 DEF w
<1> HIDE DEF R, L, u
<1>4. /\ q \in RegType(R, L) /\ q.watchers = u /\ q.version = r.version
      /\ q.reinserted = r.reinserted /\ q.layout = r.layout /\ q.observers = r.observers
  BY <1>1, <1>3 DEF RegType
<1> HIDE DEF q
<1>5. q \in RegType({q.reinserted}, {q.layout})
  BY <1>4 DEF R, L
<1>6. RegOK(q, n)
  BY <1>3, <1>4, <1>5 DEF RegOK, Returned
<1> QED BY <1>2, <1>4, <1>6

\* One watch less: the last one of a key takes its notes with it.
LEMMA UnwatchReg ==
    ASSUME NEW r, NEW n, RegOK(r, n), NEW k \in Keys
    PROVE  RegOK(UnwatchKey(r, k), n) /\ UnwatchKey(r, k).observers = r.observers
<1> DEFINE L == {r.layout}
<1>1. /\ r \in RegType({r.reinserted}, L) /\ r.watchers \in [Keys -> Nat]
      /\ r.watchers[k] \in Nat /\ r.pending \in SUBSET Keys /\ DOMAIN r.reinserted = Keys
  BY DEF RegOK, RegType
<1>2. CASE r.watchers[k] = 0
  BY <1>2 DEF UnwatchKey
<1>3. CASE r.watchers[k] > 1
  <2> DEFINE R == {r.reinserted}
             u == [r.watchers EXCEPT ![k] = @ - 1]
             q == [r EXCEPT !.watchers = u]
  <2>1. UnwatchKey(r, k) = q
    BY <1>1, <1>3 DEF UnwatchKey
  <2>2. u \in [Keys -> Nat] /\ \A j \in Keys : r.watchers[j] > 0 => u[j] > 0
    BY <1>1, <1>3
  <2> HIDE DEF R, L, u
  <2>3. /\ q \in RegType(R, L) /\ q.watchers = u /\ q.version = r.version
        /\ q.reinserted = r.reinserted /\ q.layout = r.layout /\ q.observers = r.observers
    BY <1>1, <2>2 DEF RegType, R
  <2> HIDE DEF q
  <2>4. q \in RegType({q.reinserted}, {q.layout})
    BY <2>3 DEF R, L
  <2>5. RegOK(q, n)
    BY <2>2, <2>3, <2>4 DEF RegOK, Returned
  <2> QED BY <2>1, <2>3, <2>5
<1>4. CASE ~(r.watchers[k] = 0) /\ ~(r.watchers[k] > 1)
  <2> DEFINE a == [r.reinserted EXCEPT ![k] = NotReinserted]
             u == [r.watchers EXCEPT ![k] = 0]
             s == r.pending \ {k}
             q == [r EXCEPT !.watchers = u, !.pending = s, !.reinserted = a]
  <2>1. UnwatchKey(r, k) = q
    BY <1>1, <1>4 DEF UnwatchKey
  <2>2. /\ u \in [Keys -> Nat] /\ s \in SUBSET Keys /\ DOMAIN a = Keys
        /\ a[k] = NotReinserted
        /\ \A j \in Keys : j # k => a[j] = r.reinserted[j] /\ u[j] = r.watchers[j]
    BY <1>1
  <2> HIDE DEF L, a, u, s
  <2>3. /\ q \in RegType({a}, L) /\ q.watchers = u /\ q.version = r.version
        /\ q.reinserted = a /\ q.layout = r.layout /\ q.observers = r.observers
    BY <1>1, <2>2 DEF RegType
  <2> HIDE DEF q
  <2>4. q \in RegType({q.reinserted}, {q.layout})
    BY <2>3 DEF L
  <2>5. Returned(q)
    BY <2>2, <2>3 DEF RegOK, Returned
  <2>6. RegOK(q, n)
    BY <2>2, <2>3, <2>4, <2>5 DEF RegOK
  <2> QED BY <2>1, <2>3, <2>6
<1> QED BY <1>1, <1>2, <1>3, <1>4

\* One observer less.
LEMMA DetachReg ==
    ASSUME NEW r, NEW n, RegOK(r, n), r.observers # 0
    PROVE  RegOK(Detach(r), n)
<1>1. CASE r.observers = 1
  <2>1. 0 \in 0..Cardinality(Keys)
    BY BoundAssumption, FS_CardinalityType
  <2>2. Detach(r) = FreshRegistration(0)
    BY <1>1 DEF Detach
  <2> QED BY <2>1, <2>2, FreshReg
<1>2. CASE r.observers # 1
  <2> DEFINE R == {r.reinserted}
             L == {r.layout}
             q == [r EXCEPT !.observers = @ - 1]
  <2>1. r \in RegType(R, L) /\ r.observers \in Nat
    BY DEF RegOK, RegType
  <2>2. r.observers - 1 \in Nat
    BY <2>1
  <2>3. Detach(r) = q
    BY <1>2 DEF Detach
  <2> HIDE DEF R, L
  <2>4. /\ q \in RegType(R, L) /\ q.watchers = r.watchers /\ q.version = r.version
        /\ q.reinserted = r.reinserted /\ q.layout = r.layout
    BY <2>1, <2>2 DEF RegType
  <2> HIDE DEF q
  <2>5. q \in RegType({q.reinserted}, {q.layout})
    BY <2>4 DEF R, L
  <2>6. RegOK(q, n)
    BY <2>4, <2>5 DEF RegOK, Returned
  <2> QED BY <2>3, <2>6
<1> QED BY <1>1, <1>2

\* A tracked mutation advances the layout to the length of the dictionary.
LEMMA TrackedReg ==
    ASSUME NEW r, NEW b \in Seq(Keys), NEW a \in Seq(Keys), IsInjective(b), IsInjective(a),
           RegOK(r, Len(b)), r.observers # 0, r.version < MaxVersion, NEW reset \in BOOLEAN
    PROVE  RegOK(TrackedMutation(r, b, a, reset), Len(a))
<1> DEFINE n == Len(b)
           m == Len(a)
           removed  == IF reset THEN n ELSE IF n <= m THEN 0 ELSE n - m
           inserted == IF reset THEN m ELSE IF n <= m THEN m - n ELSE 0
           base     == n - removed
           watched  == {k \in Keys : r.watchers[k] > 0}
           gone     == {k \in watched : k \in Range(b) /\ k \notin Range(a)}
           back     == {k \in watched : k \notin Range(b) /\ IndexIn(a, k) >= base}
           P        == r.pending \union gone
           cleared  == IF reset THEN LayoutForLen(0)
                       ELSE [r.layout EXCEPT !.live = @ - removed]
           layoutAt == LayoutsAfter(cleared, inserted)
           pos(k)   == InsertPosition(layoutAt[IndexIn(a, k) - base])
           v        == r.version + 1
           R2 == [k \in Keys |-> IF k \in back \intersect P
                                 THEN [at |-> v, position |-> pos(k)]
                                 ELSE r.reinserted[k]]
           P2 == P \ back
           l  == [layoutAt[inserted] EXCEPT !.live = m]
           t  == [r EXCEPT !.version = v, !.pending = P2, !.reinserted = R2, !.layout = l]
<1>1. TrackedMutation(r, b, a, reset) = t
  BY DEF TrackedMutation
<1>2. /\ r \in RegType({r.reinserted}, {r.layout}) /\ DOMAIN r.reinserted = Keys
      /\ r.version \in Nat /\ r.pending \in SUBSET Keys /\ r.watchers \in [Keys -> Nat]
      /\ LayoutOK(r.layout) /\ r.layout.live = n /\ Returned(r)
  BY DEF RegOK, RegType
<1>3. /\ n \in Nat /\ m \in Nat /\ m <= Cardinality(Keys) /\ Cardinality(Keys) \in Nat
  BY LenBound
<1>4. P2 \in SUBSET Keys /\ v \in Nat /\ v <= MaxVersion
  BY <1>2, BoundAssumption
<1>5. /\ DOMAIN R2 = Keys
      /\ \A k \in Keys : R2[k] # NotReinserted => r.watchers[k] > 0
  <2>1. ASSUME NEW k \in Keys, R2[k] # NotReinserted PROVE r.watchers[k] > 0
    <3>1. CASE k \in back \intersect P
      BY <3>1
    <3>2. CASE ~(k \in back \intersect P)
      <4>1. R2[k] = r.reinserted[k]
        BY <3>2
      <4> HIDE DEF R2
      <4> QED BY <4>1, <2>1, <1>2 DEF Returned
    <3> QED BY <3>1, <3>2
  <2> QED BY <2>1
<1>6. /\ removed \in Nat /\ inserted \in Nat /\ (~reset => n - removed \in Nat)
      /\ (reset => inserted = m) /\ (~reset => (n - removed) + inserted = m)
  BY <1>3
<1>7. LayoutOK(cleared) /\ cleared.live + inserted = m
  <2>1. CASE reset
    <3>1. 0 \in 0..Cardinality(Keys)
      BY <1>3
    <3>2. LayoutOK(LayoutForLen(0)) /\ LayoutForLen(0).live = 0
      BY <3>1, LayoutForLenOK
    <3>3. cleared = LayoutForLen(0)
      BY <2>1
    <3> HIDE DEF cleared, inserted
    <3> QED BY <3>2, <3>3, <2>1, <1>3, <1>6
  <2>2. CASE ~reset
    <3> DEFINE g == r.layout
               d == n - removed
               h == [g EXCEPT !.live = d]
    <3>1. cleared = h
      BY <2>2, <1>2
    <3>2. d \in Nat /\ d + inserted = m /\ d <= n
      BY <1>3, <1>6, <2>2
    <3>3. LayoutOK(g) /\ g.live = n
      BY <1>2
    <3> HIDE DEF d, g, cleared, inserted
    <3>4. h.live = d /\ LayoutOK(h)
      BY <3>2, <3>3, <1>3 DEF LayoutOK
    <3> HIDE DEF h
    <3> QED BY <3>1, <3>2, <3>4
  <2> QED BY <2>1, <2>2
<1> HIDE DEF P2, R2, v, cleared, inserted
<1>8. LayoutOK(layoutAt[inserted]) /\ layoutAt[inserted].live = m
  <2>1. inserted \in 0..inserted
    BY <1>6
  <2>2. cleared.live + inserted <= Cardinality(Keys)
    BY <1>3, <1>7
  <2> QED BY <1>3, <1>6, <1>7, <2>1, <2>2, LayoutsAfterOK
<1>9. LayoutOK(l) /\ l.live = m
  <2> DEFINE g == layoutAt[inserted]
  <2>1. LayoutOK(g) /\ g.live = m
    BY <1>8
  <2> HIDE DEF g
  <2>2. LayoutOK([g EXCEPT !.live = m]) /\ [g EXCEPT !.live = m].live = m
    BY <2>1, <1>3 DEF LayoutOK
  <2> QED BY <2>2 DEF g
<1> HIDE DEF l, m
<1>10. /\ t \in RegType({R2}, {l}) /\ t.version = v
       /\ t.watchers = r.watchers /\ t.reinserted = R2 /\ t.layout = l
  BY <1>2, <1>4 DEF RegType
<1> HIDE DEF t
<1>11. Returned(t)
  BY <1>5, <1>10 DEF Returned
<1>12. RegOK(t, m)
  BY <1>4, <1>5, <1>9, <1>10, <1>11 DEF RegOK
<1> QED BY <1>1, <1>12 DEF m

-----------------------------------------------------------------------------
(* The registration through the steps *)

\* What an iterator watches is a key.
LEMMA WatchedKey ==
    ASSUME IInv, NEW c \in Cursors, cursors[c].phase = "walking", cursors[c].watching
    PROVE  cursors[c].lastKey \in Keys
<1>1. CursorOK(cursors[c], walk[c], dict, reg)
  BY InvFacts
<1>2. walk[c].got # <<>> /\ cursors[c].lastKey = Last(walk[c].got) /\ walk[c].got \in Seq(Keys)
  BY <1>1, WalkFacts DEF CursorOK, Walking, Watch
<1> QED BY <1>2 DEF Last

\* A walking iterator is an observer.
LEMMA Observed ==
    ASSUME IInv, NEW c \in Cursors, cursors[c].phase = "walking"
    PROVE  reg.observers # 0
BY InvFacts, WalkCounted

\* release(): the watch, then the handle.
LEMMA ReleaseReg ==
    ASSUME IInv, NEW n, RegOK(reg, n), NEW c \in Cursors, cursors[c].phase = "walking",
           NEW p, p.watching = cursors[c].watching,
           p.watching => p.lastKey = cursors[c].lastKey
    PROVE  RegOK(ReleaseFrom(reg, p), n)
<1>1. reg.observers # 0
  BY Observed
<1>2. CASE ~p.watching
  <2>1. ReleaseFrom(reg, p) = Detach(reg)
    BY <1>2 DEF ReleaseFrom
  <2> QED BY <1>1, <2>1, DetachReg
<1>3. CASE p.watching
  <2> DEFINE k == cursors[c].lastKey
             r == UnwatchKey(reg, k)
  <2>1. ReleaseFrom(reg, p) = Detach(r)
    BY <1>3 DEF ReleaseFrom
  <2>2. k \in Keys
    BY <1>3, WatchedKey
  <2>3. RegOK(r, n) /\ r.observers = reg.observers
    BY <2>2, UnwatchReg
  <2> HIDE DEF r
  <2> QED BY <1>1, <2>1, <2>3, DetachReg
<1> QED BY <1>2, <1>3

\* iter(d): a registration that is restarted counts the keys there are.
LEMMA IterReg ==
    ASSUME IInv, RegOK(reg, Len(dict)), NEW c \in Cursors, Iter(c)
    PROVE  RegOK(reg', Len(dict))
<1> DEFINE n == Len(dict)
           r == IF reg.observers = 0 THEN FreshRegistration(n) ELSE reg
<1>1. reg' = Attach(r)
  BY DEF Iter
<1>2. RegOK(r, n) /\ r.layout.live = n
  <2>1. CASE reg.observers = 0
    <3>1. dict \in Seq(Keys) /\ IsInjective(dict)
      BY InvFacts
    <3>2. n \in 0..Cardinality(Keys)
      BY <3>1, LenBound
    <3> HIDE DEF n
    <3>3. RegOK(FreshRegistration(n), n) /\ FreshRegistration(n).layout.live = n
      BY <3>2, FreshReg
    <3> QED BY <2>1, <3>3
  <2>2. CASE reg.observers # 0
    BY <2>2 DEF RegOK
  <2> QED BY <2>1, <2>2
<1> HIDE DEF n, r
<1>3. RegOK(Attach(r), n)
  BY <1>2, AttachReg
<1> QED BY <1>1, <1>3 DEF n

\* copy.copy(it): the clone's watch and handle.
LEMMA ReduceCopyReg ==
    ASSUME IInv, RegOK(reg, Len(dict)), NEW c \in Cursors, NEW p \in Cursors, ReduceCopy(c, p)
    PROVE  RegOK(reg', Len(dict))
<1> DEFINE n == Len(dict)
           k == cursors[c].lastKey
           r == IF cursors[c].watching THEN WatchKey(reg, k) ELSE reg
<1>1. reg' = Attach(r) /\ cursors[c].phase = "walking"
  BY DEF ReduceCopy
<1>2. reg.observers # 0
  BY <1>1, Observed
<1>3. RegOK(reg, n) /\ reg.layout.live = n
  BY <1>2 DEF RegOK
<1> HIDE DEF n, k
<1>4. RegOK(r, n) /\ r.layout.live = n
  <2>1. RegOK(WatchKey(reg, k), n) /\ WatchKey(reg, k).layout = reg.layout
    BY <1>3, WatchReg
  <2> QED BY <1>3, <2>1
<1> HIDE DEF r
<1>5. RegOK(Attach(r), n)
  BY <1>4, AttachReg
<1> QED BY <1>1, <1>5 DEF n

\* A mutation.
LEMMA MutateReg ==
    ASSUME IInv, RegOK(reg, Len(dict)), IInv', NEW a, NEW reset \in BOOLEAN, Mutate(a, reset)
    PROVE  RegOK(reg', Len(dict')) /\ probe' = probe
<1>1. /\ dict' = a /\ probe' = probe /\ (reg.observers # 0 => reg.version < MaxVersion)
      /\ reg' = IF reg.observers = 0 THEN reg ELSE TrackedMutation(reg, dict, a, reset)
  BY DEF Mutate
<1>2. dict \in Seq(Keys) /\ IsInjective(dict) /\ a \in Seq(Keys) /\ IsInjective(a)
  BY <1>1 DEF IInv
<1>3. CASE reg.observers = 0
  <2>1. RegOK(reg, Len(a))
    BY <1>3 DEF RegOK
  <2> QED BY <1>1, <1>3, <2>1
<1>4. CASE reg.observers # 0
  <2>1. RegOK(TrackedMutation(reg, dict, a, reset), Len(a))
    BY <1>1, <1>2, <1>4, TrackedReg
  <2> QED BY <1>1, <1>4, <2>1
<1> QED BY <1>3, <1>4

\* A step of an iterator keeps the dictionary; one that ends lets go, one
\* that yields may leave a watch.
LEMMA StepReg ==
    ASSUME IInv, RegOK(reg, Len(dict)), NEW c \in Cursors,
           \/ StepSizeError(c) \/ StepKeysError(c) \/ StepExhausted(c)
           \/ StepSnapshot(c) \/ StepLive(c)
    PROVE  RegOK(reg', Len(dict')) /\ probe' = probe
<1> DEFINE p == Prepared(cursors[c])
<1>1. CASE StepSizeError(c)
  <2>1. /\ cursors[c].phase = "walking" /\ reg' = ReleaseFrom(reg, cursors[c])
        /\ dict' = dict /\ probe' = probe
    BY <1>1 DEF StepSizeError, CanStep
  <2>2. RegOK(ReleaseFrom(reg, cursors[c]), Len(dict))
    BY <2>1, ReleaseReg
  <2> QED BY <2>1, <2>2
<1>2. CASE StepKeysError(c) \/ StepExhausted(c)
  <2>1. /\ CanStep(c) /\ ~SizeChanged(c) /\ reg' = ReleaseFrom(reg, p)
        /\ dict' = dict /\ probe' = probe
    BY <1>2 DEF StepKeysError, StepExhausted
  <2>2. /\ cursors[c].phase = "walking" /\ p.watching = cursors[c].watching
        /\ (p.watching => p.lastKey = cursors[c].lastKey)
    BY <2>1, StepReady
  <2> HIDE DEF p
  <2>3. RegOK(ReleaseFrom(reg, p), Len(dict))
    BY <2>2, ReleaseReg
  <2> QED BY <2>1, <2>3
<1>3. CASE StepSnapshot(c) \/ StepLive(c)
  <2>1. /\ dict' = dict /\ probe' = probe
        /\ reg' = reg \/ \E k : reg' = WatchKey(reg, k)
    BY <1>3 DEF StepSnapshot, StepLive
  <2>2. \A k : RegOK(WatchKey(reg, k), Len(dict))
    BY WatchReg
  <2> QED BY <2>1, <2>2
<1> QED BY <1>1, <1>2, <1>3

\* Every mutation is one transaction on the dictionary.
LEMMA MutationsReg ==
    ASSUME IInv, RegOK(reg, Len(dict)), IInv',
           \/ \E k \in Keys : Insert(k) \/ ShiftRemove(k)
           \/ \E s \in Pairs : Extend(s) \/ ShiftRemoveMany(Range(s))
           \/ Clear
    PROVE  RegOK(reg', Len(dict')) /\ probe' = probe
<1>1. \E a : \E reset \in BOOLEAN : Mutate(a, reset)
  <2>1. ASSUME NEW k \in Keys, Insert(k) PROVE \E a : Mutate(a, FALSE)
    BY <2>1 DEF Insert
  <2>2. ASSUME NEW k \in Keys, ShiftRemove(k) PROVE \E a : Mutate(a, FALSE)
    BY <2>2 DEF ShiftRemove
  <2>3. ASSUME NEW s \in Pairs, Extend(s) PROVE \E a : Mutate(a, FALSE)
    BY <2>3 DEF Extend
  <2>4. ASSUME NEW s \in Pairs, ShiftRemoveMany(Range(s)) PROVE \E a : Mutate(a, FALSE)
    BY <2>4 DEF ShiftRemoveMany
  <2>5. ASSUME Clear PROVE \E a : Mutate(a, TRUE)
    BY <2>5 DEF Clear
  <2> QED BY <2>1, <2>2, <2>3, <2>4, <2>5
<1> QED BY <1>1, MutateReg

\* The first state: nobody observes the dictionary.
LEMMA RegInit == Init => RInv
<1> SUFFICES ASSUME Init PROVE RInv
  OBVIOUS
<1>1. reg = FreshRegistration(0) /\ probe = {}
  BY DEF Init
<1>2. 0 \in 0..Cardinality(Keys)
  BY BoundAssumption, FS_CardinalityType
<1>3. RegOK(reg, Len(dict))
  BY <1>1, <1>2, FreshReg
<1> QED BY <1>1, <1>3 DEF RInv

\* Every step, action by action.
LEMMA RegStep ==
    ASSUME IInv, RInv, IInv', Next
    PROVE  RInv'
<1>0. RegOK(reg, Len(dict)) /\ probe \in {{}} \union {{p} : p \in Cursors}
  BY DEF RInv
<1>1. ASSUME NEW c \in Cursors, Iter(c) PROVE RInv'
  <2>1. RegOK(reg', Len(dict)) /\ dict' = dict /\ probe' = probe
    BY <1>0, <1>1, IterReg DEF Iter
  <2> QED BY <1>0, <2>1 DEF RInv
<1>2. ASSUME NEW c \in Cursors, Drop(c) PROVE RInv'
  <2>1. /\ dict' = dict /\ probe' = probe
        /\ reg' = IF cursors[c].phase = "walking" THEN Detach(reg) ELSE reg
    BY <1>2 DEF Drop
  <2>2. RegOK(reg', Len(dict))
    BY <1>0, <2>1, Observed, DetachReg
  <2> QED BY <1>0, <2>1, <2>2 DEF RInv
<1>3. ASSUME NEW c \in Cursors, ProbeDone(c) PROVE RInv'
  <2>1. dict' = dict /\ reg' = reg /\ probe' = {}
    BY <1>3 DEF ProbeDone
  <2> QED BY <1>0, <2>1 DEF RInv
<1>4. ASSUME NEW c \in Cursors,
             \/ StepSizeError(c) \/ StepKeysError(c) \/ StepExhausted(c)
             \/ StepSnapshot(c) \/ StepLive(c)
      PROVE  RInv'
  <2>1. RegOK(reg', Len(dict')) /\ probe' = probe
    BY <1>0, <1>4, StepReg
  <2> QED BY <1>0, <2>1 DEF RInv
<1>5. ASSUME NEW c \in Cursors, NEW p \in Cursors, ReduceCopy(c, p) PROVE RInv'
  <2>1. RegOK(reg', Len(dict)) /\ dict' = dict /\ probe' = {p}
    BY <1>0, <1>5, ReduceCopyReg DEF ReduceCopy
  <2> QED BY <2>1 DEF RInv
<1>6. ASSUME \/ \E k \in Keys : Insert(k) \/ ShiftRemove(k)
             \/ \E s \in Pairs : Extend(s) \/ ShiftRemoveMany(Range(s))
             \/ Clear
      PROVE  RInv'
  <2>1. RegOK(reg', Len(dict')) /\ probe' = probe
    BY <1>0, <1>6, MutationsReg
  <2> QED BY <1>0, <2>1 DEF RInv
<1> QED BY <1>1, <1>2, <1>3, <1>4, <1>5, <1>6 DEF Next

\* Both invariants together are one.
LEMMA RegInductive == Spec => [](IInv /\ RInv)
<1>1. Init => RInv
  BY RegInit
<1>2. IInv /\ RInv /\ IInv' /\ [Next]_vars => RInv'
  <2> SUFFICES ASSUME IInv, RInv, IInv', [Next]_vars PROVE RInv'
    OBVIOUS
  <2>1. CASE Next
    BY <2>1, RegStep
  <2>2. CASE UNCHANGED vars
    BY <2>2 DEF vars, RInv
  <2> QED BY <2>1, <2>2
<1> QED BY <1>1, <1>2, Inductive, PTL DEF Spec

\* What an iterator has left of its quota is at most the number of keys, and
\* a snapshot is never read beyond its end.
LEMMA QuotaBound ==
    ASSUME IInv, NEW c \in Cursors
    PROVE  /\ cursors[c].remaining \in 0..Cardinality(Keys)
           /\ cursors[c].mode # "snapshot" \/ cursors[c].pos <= Len(cursors[c].order)
<1> DEFINE q == cursors[c]
           w == walk[c]
<1>1. CursorOK(q, w, dict, reg) /\ IsCursor(q) /\ IsWalk(w)
  BY InvFacts
<1> HIDE DEF q, w
<1>2. /\ q.remaining \in Nat /\ q.recordedLen \in Nat /\ Len(w.got) \in Nat
      /\ q.mode \in {"history", "snapshot", "seen"}
      /\ w.start \in Seq(Keys) /\ IsInjective(w.start)
  BY <1>1, CursorFacts, WalkFacts DEF IsWalk
<1>3. Len(w.start) \in Nat /\ Len(w.start) <= Cardinality(Keys) /\ Cardinality(Keys) \in Nat
  BY <1>2, LenBound
<1>4. CASE q.phase = "walking"
  <2>1. Form(q, w)
    BY <1>1, <1>4 DEF CursorOK, Walking
  <2>2. q.recordedLen = Len(w.start)
    BY <2>1 DEF Form
  <2>3. CASE q.mode = "snapshot"
    <3>1. q.remaining <= q.recordedLen /\ q.pos <= Len(q.order)
      BY <2>1, <2>3 DEF Form, Snapshot, Begins
    <3>2. q.remaining \in 0..Cardinality(Keys)
      BY <1>2, <1>3, <2>2, <3>1
    <3> QED BY <3>1, <3>2 DEF q
  <2>4. CASE q.mode # "snapshot"
    <3>1. q.remaining = q.recordedLen - Len(w.got)
      BY <2>1, <2>4 DEF Form, LiveWalk
    <3> DEFINE g == Len(w.got)
               m == Len(w.start)
               x == q.remaining
    <3>2. x \in Nat /\ g \in Nat /\ m \in Nat /\ x = m - g /\ m <= Cardinality(Keys)
      BY <1>2, <1>3, <2>2, <3>1
    <3> HIDE DEF g, m, x
    <3>3. x \in 0..Cardinality(Keys)
      BY <1>3, <3>2
    <3> QED BY <2>4, <3>3 DEF q, x
  <2> QED BY <2>3, <2>4
<1>5. CASE q.phase # "walking"
  <2>1. q.remaining = 0 /\ q.mode = "history"
    BY <1>1, <1>5 DEF CursorOK, Idle
  <2> QED BY <1>3, <2>1 DEF q
<1> QED BY <1>4, <1>5

\* What the registration counts is there, for any number of iterators and
\* keys: its observers, their watches and the keys of the dictionary.  No
\* mutation makes CollectionMutationState lose count, no release() or drained
\* copy retires the watch of another iterator, and the virtual table always has
\* room for the keys.
THEOREM RegistrationAlwaysSound == Spec => []RegistrationSound
<1>1. IInv /\ RInv => RegistrationSound
  <2> SUFFICES ASSUME IInv, RInv PROVE RegistrationSound
    OBVIOUS
  <2>1. /\ dict \in Seq(Keys) /\ IsInjective(dict) /\ IsReg(reg) /\ NotesOK(dict, reg)
        /\ Counted(cursors, reg) /\ \A c \in Cursors : IsCursor(cursors[c])
    BY InvFacts
  <2>2. /\ reg \in RegType({reg.reinserted}, {reg.layout}) /\ reg.version <= MaxVersion
        /\ LayoutOK(reg.layout) /\ Returned(reg)
        /\ reg.observers # 0 => reg.layout.live = Len(dict)
        /\ probe \in {{}} \union {{p} : p \in Cursors}
    BY DEF RInv, RegOK
  <2>3. reg.version \in Nat /\ MaxVersion \in Nat /\ reg.pending \in SUBSET Keys
    BY <2>2, BoundAssumption DEF RegType
  <2>4. TypeOK
    <3>1. dict \in UNION {[1..n -> Keys] : n \in 0..Cardinality(Keys)}
      <4>1. Len(dict) \in 0..Cardinality(Keys) /\ dict \in [1..Len(dict) -> Keys]
        BY <2>1, LenBound, SeqFacts
      <4> QED BY <4>1
    <3>2. reg.version \in 0..MaxVersion
      BY <2>2, <2>3
    <3>3. reg.observers \in 0..Cardinality(Cursors)
      <4>1. reg.observers = Cardinality(Walkers(cursors))
        BY <2>1 DEF Counted
      <4>2. Walkers(cursors) \in SUBSET Cursors /\ IsFiniteSet(Cursors)
        BY BoundAssumption DEF Walkers
      <4>3. /\ IsFiniteSet(Walkers(cursors))
            /\ Cardinality(Walkers(cursors)) <= Cardinality(Cursors)
        BY <4>2, FS_Subset
      <4>4. Cardinality(Walkers(cursors)) \in Nat /\ Cardinality(Cursors) \in Nat
        BY <4>2, <4>3, FS_CardinalityType
      <4> QED BY <4>1, <4>3, <4>4
    <3>4. ASSUME NEW c \in Cursors
          PROVE  /\ cursors[c].phase \in Ended \union {"free", "walking"}
                 /\ cursors[c].mode \in {"history", "snapshot", "seen"}
                 /\ cursors[c].remaining \in 0..Cardinality(Keys)
                 /\ cursors[c].lastKey \in Keys \union {NoKey}
                 /\ cursors[c].mode # "snapshot" \/ cursors[c].pos <= Len(cursors[c].order)
      BY <2>1, CursorFacts, QuotaBound
    <3> QED BY <2>1, <2>2, <3>1, <3>2, <3>3, <3>4 DEF TypeOK
  <2>5. WatchHeld
    BY <2>1 DEF WatchHeld, Counted, Walkers, Watchers
  <2>6. LayoutIsCurrent
    <3>1. reg.layout.entries >= reg.layout.live /\ reg.layout.usable >= 0
      BY <2>2 DEF LayoutOK
    <3>2. \A k \in reg.pending : reg.watchers[k] > 0 /\ k \notin Live
      BY <2>1 DEF NotesOK, Live
    <3>3. \A k \in Keys : reg.reinserted[k] # NotReinserted => reg.watchers[k] > 0
      BY <2>2 DEF Returned
    <3> QED BY <2>2, <3>1, <3>2, <3>3 DEF LayoutIsCurrent
  <2> QED BY <2>4, <2>5, <2>6 DEF RegistrationSound
<1> QED BY <1>1, RegInductive, PTL
=============================================================================
