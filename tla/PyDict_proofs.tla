---------------------------- MODULE PyDict_proofs ----------------------------
(***************************************************************************)
(* Proofs about PyDict, for any keys, hashes and equalities: a lookup that *)
(* user code interrupts answers for the dict as it is, and an assignment   *)
(* never makes a second entry for an equal key.                            *)
(*                                                                         *)
(* What a key table computes stays opaque.  The theorems take from it that *)
(* a probe meets the entries of its hash (ProbeFindsEveryKey).             *)
(***************************************************************************)
EXTENDS PyDict, FiniteSetTheorems, SequenceTheorems, TLAPS

-----------------------------------------------------------------------------
(* The inductive invariant *)

Fields == {"entries", "objects", "dynamic", "index", "journal", "size0", "kind0", "kind", "moved"}

\* A dict; table, journal and base table are left open.
IsDict(d) ==
    /\ DOMAIN d = Fields
    /\ d.entries \in Seq(Key) /\ d.objects \in Nat /\ d.dynamic \in Nat

\* no two entries are equal
OneEach(s) == \A i, j \in 1 .. Len(s) : i # j => ~ Equal(s[i], s[j])

\* Keys of different representation meet, so that the order of comparisons
\* is visible and a table is needed.
Mixed(R) == R \cap Nested # {} \/ (R \cap Objects # {} /\ ~ (R \subseteq Objects))

\* the counters are those of the entries
CountsOK(d) ==
    /\ IsDict(d)
    /\ OneEach(d.entries)
    /\ d.objects = Cardinality(Range(d.entries) \cap Objects)
    /\ d.dynamic = Cardinality(Range(d.entries) \cap Dynamic)

DictOK(d) ==
    /\ CountsOK(d)
    /\ Mixed(Range(d.entries)) => d.index # <<>>

Waiting == [op : Operations, key : Key, candidates : Seq(Key)]

\* Unless the dict moved, the candidates still to be compared are entries,
\* and every entry that is equal to the key is among them.
Listed(d, c) ==
    /\ Range(c.candidates) \subseteq Range(d.entries)
    /\ \A e \in Range(d.entries) : Equal(e, c.key) => e \in Range(c.candidates)

CallOK(d, c) ==
    c # None =>
        /\ c \in Waiting /\ c.candidates # <<>>
        /\ ~ d.moved => Listed(d, c)

IInv == DictOK(dict) /\ CallOK(dict, call)

-----------------------------------------------------------------------------
(* Keys *)

\* Equality is symmetric, and equal keys have one hash.
LEMMA EqualSym ==
    ASSUME NEW a, NEW b
    PROVE  Equal(a, b) => Equal(b, a) /\ Hash[a] = Hash[b]
<1>1. CASE a = b
  BY <1>1 DEF Equal
<1>2. ASSUME <<a, b>> \in Same PROVE Equal(b, a) /\ Hash[a] = Hash[b]
  <2> DEFINE p == <<a, b>>
  <2>1. Hash[p[1]] = Hash[p[2]] /\ <<p[2], p[1]>> \in Same
    BY <1>2, PyDictAssumption
  <2> QED
    BY <2>1 DEF Equal
<1> QED
  BY <1>1, <1>2 DEF Equal

\* Two keys that are equal and not identical: one of them has __eq__.
LEMMA EqualDynamic ==
    ASSUME NEW a, NEW b, Equal(a, b), a # b
    PROVE  a \in Dynamic \/ b \in Dynamic
<1> DEFINE p == <<a, b>>
<1>1. p \in Same
  BY DEF Equal
<1>2. PICK i \in 1 .. 2 : p[i] \in Objects \cup Nested
  BY <1>1, PyDictAssumption
<1> QED
  BY <1>2 DEF Dynamic

\* What is known of the kinds of keys.
LEMMA Kinds ==
    /\ Objects \subseteq Key /\ Nested \subseteq Key /\ Tuples \subseteq Key
    /\ Objects \cap Nested = {} /\ Tuples \cap Dynamic = {}
    /\ Dynamic = Objects \cup Nested
    /\ None \notin Key
BY PyDictAssumption, DictTableAssumption DEF Dynamic

-----------------------------------------------------------------------------
(* Counting *)

\* The entries of a dict are finitely many, each in one place.
LEMMA EntriesFinite ==
    ASSUME NEW s \in Seq(Key), OneEach(s)
    PROVE  /\ IsFiniteSet(Range(s)) /\ Cardinality(Range(s)) = Len(s)
           /\ Range(s) \subseteq Key
<1> DEFINE n == Len(s)
<1>1. n \in Nat /\ DOMAIN s = 1 .. n
  OBVIOUS
<1>2. \A i, j \in 1 .. n : s[i] = s[j] => i = j
  BY DEF OneEach, Equal
<1>3. Range(s) \subseteq Key
  BY DEF Range
<1>4. s \in Bijection(1 .. n, Range(s))
  <2>1. s \in [1 .. n -> Range(s)]
    BY <1>1 DEF Range
  <2>2. \A y \in Range(s) : \E x \in 1 .. n : s[x] = y
    BY <1>1 DEF Range
  <2> QED
    BY <1>1, <1>2, <2>1, <2>2 DEF Bijection, Injection, Surjection, IsInjective
<1>5. ExistsBijection(1 .. n, Range(s))
  BY <1>4 DEF ExistsBijection
<1>6. IsFiniteSet(Range(s))
  BY <1>1, <1>5, FS_NatBijection
<1> QED
  BY <1>1, <1>3, <1>5, <1>6, FS_CountingElements

\* What the counters say about the entries.
Counted(d) ==
    LET R == Range(d.entries)
    IN  /\ d.objects = 0 <=> R \cap Objects = {}
        /\ d.dynamic = 0 <=> R \cap Dynamic = {}
        /\ Len(d.entries) > d.objects <=> ~ (R \subseteq Objects)
        /\ Len(d.entries) > d.dynamic <=> ~ (R \subseteq Dynamic)
        /\ d.entries = <<>> <=> R = {}
        /\ RequiresPythonHashIndex(d) <=> Mixed(R)

\* The counters of a dict say which kinds of keys it has.
LEMMA CountsMean ==
    ASSUME NEW d, CountsOK(d)
    PROVE  Counted(d)
<1> DEFINE R == Range(d.entries)
           o == Cardinality(R \cap Objects)
           y == Cardinality(R \cap Dynamic)
           n == Len(d.entries)
<1>1. /\ d.entries \in Seq(Key) /\ d.objects = o /\ d.dynamic = y /\ OneEach(d.entries)
  BY DEF CountsOK, IsDict
<1>2. IsFiniteSet(R) /\ Cardinality(R) = n /\ n \in Nat
  BY <1>1, EntriesFinite
<1>3. d.entries = <<>> <=> R = {}
  <2>1. CASE d.entries = <<>>
    BY <2>1 DEF Range
  <2>2. ASSUME d.entries # <<>> PROVE d.entries[1] \in R
    BY <1>1, <2>2 DEF Range
  <2> QED
    BY <2>1, <2>2
<1> HIDE DEF R
<1>4. /\ R \cap Objects \in SUBSET R /\ R \cap Dynamic \in SUBSET R
      /\ R \cap Objects \in SUBSET (R \cap Dynamic)
  BY Kinds
<1>5. /\ IsFiniteSet(R \cap Objects) /\ o \in Nat /\ o <= n
      /\ n = o => R = R \cap Objects
  BY <1>2, <1>4, FS_Subset, FS_CardinalityType
<1>6. /\ IsFiniteSet(R \cap Dynamic) /\ y \in Nat /\ y <= n
      /\ n = y => R = R \cap Dynamic
  BY <1>2, <1>4, FS_Subset, FS_CardinalityType
<1>7. o <= y /\ (y = o => R \cap Dynamic = R \cap Objects)
  BY <1>4, <1>6, FS_Subset
<1>8. (o = 0 <=> R \cap Objects = {}) /\ (y = 0 <=> R \cap Dynamic = {})
  BY <1>5, <1>6, FS_EmptySet
<1>9. (R = R \cap Objects => n = o) /\ (R = R \cap Dynamic => n = y)
      /\ (R \cap Dynamic = R \cap Objects => y = o)
  BY <1>2
<1> HIDE DEF o, y, n
<1>10. /\ n > o <=> ~ (R \subseteq Objects)
       /\ n > y <=> ~ (R \subseteq Dynamic)
  <2>1. R \subseteq Objects <=> R = R \cap Objects
    OBVIOUS
  <2>2. R \subseteq Dynamic <=> R = R \cap Dynamic
    OBVIOUS
  <2>3. n > o <=> n # o
    BY <1>2, <1>5
  <2>4. n > y <=> n # y
    BY <1>2, <1>6
  <2> QED
    BY <1>5, <1>6, <1>9, <2>1, <2>2, <2>3, <2>4
<1>11. y > o <=> R \cap Nested # {}
  <2>1. R \cap Dynamic = R \cap Objects <=> R \cap Nested = {}
    BY Kinds
  <2>2. y > o <=> y # o
    BY <1>5, <1>6, <1>7
  <2> QED
    BY <1>7, <1>9, <2>1, <2>2
<1>12. RequiresPythonHashIndex(d) <=> y > o \/ (o # 0 /\ n > o)
  BY <1>1, <1>2, <1>5 DEF RequiresPythonHashIndex, n
<1>13. RequiresPythonHashIndex(d) <=> Mixed(R)
  BY <1>8, <1>10, <1>11, <1>12 DEF Mixed
<1> QED
  BY <1>1, <1>3, <1>8, <1>10, <1>13 DEF Counted, R, n

-----------------------------------------------------------------------------
(* Operations that leave the entries alone *)

Keeps(d, e) ==
    /\ IsDict(e)
    /\ e.entries = d.entries /\ e.objects = d.objects /\ e.dynamic = d.dynamic
    /\ d.index # <<>> => e.index # <<>>
    /\ d.moved => e.moved

\* An operation that leaves the entries alone keeps the dict in order.
LEMMA KeepsOK ==
    ASSUME NEW d, NEW e, DictOK(d), Keeps(d, e)
    PROVE  DictOK(e)
BY DEF DictOK, CountsOK, Keeps

\* It keeps the counters in order.
LEMMA KeepsCounts ==
    ASSUME NEW d, NEW e, CountsOK(d), Keeps(d, e)
    PROVE  CountsOK(e)
BY DEF CountsOK, Keeps

\* Two such operations in a row are one.
LEMMA KeepsTrans ==
    ASSUME NEW d, NEW e, NEW f, Keeps(d, e), Keeps(e, f)
    PROVE  Keeps(d, f)
BY DEF Keeps

\* Doing nothing is one.
LEMMA KeepsRefl ==
    ASSUME NEW d, IsDict(d)
    PROVE  Keeps(d, d)
BY DEF Keeps

\* The table is built.
LEMMA EnsureKeeps ==
    ASSUME NEW d, IsDict(d)
    PROVE  /\ Keeps(d, EnsurePythonHashIndex(d))
           /\ EnsurePythonHashIndex(d).index = <<TableOf(d)>>
           /\ EnsurePythonHashIndex(d).moved <=> d.moved
<1> DEFINE t == TableOf(d)
<1> HIDE DEF t
<1>1. EnsurePythonHashIndex(d) = [d EXCEPT !.index = <<t>>, !.journal = None]
  BY DEF EnsurePythonHashIndex, t
<1> QED
  BY <1>1 DEF IsDict, Fields, Keeps, t

\* The table is replaced.
LEMMA ReplacedKeeps ==
    ASSUME NEW d, IsDict(d), NEW t
    PROVE  /\ Keeps(d, [d EXCEPT !.index = <<t>>])
           /\ [d EXCEPT !.index = <<t>>].index = <<t>>
BY DEF IsDict, Fields, Keeps

\* A dict that has its table stands for it.
LEMMA TableBuilt ==
    ASSUME NEW d, d.index # <<>>
    PROVE  TableOf(d) = d.index[1]
BY DEF TableOf

\* The kind of the keys is settled before an insertion (prepare_python_insert).
LEMMA PrepareKeeps ==
    ASSUME NEW d, IsDict(d), NEW k
    PROVE  Keeps(d, PreparePythonInsert(d, k))
<1> DEFINE e == PreparePythonInsert(d, k)
<1>1. CASE d.kind = "unknown"
  <2>1. PICK kind : e = [d EXCEPT !.kind = kind, !.kind0 = kind]
    BY <1>1 DEF PreparePythonInsert
  <2> QED
    BY <2>1 DEF IsDict, Fields, Keeps
<1>2. CASE d.kind = "unicode" /\ k \notin Strings /\ d.entries = <<>>
  <2>1. e = [d EXCEPT !.kind = "general", !.size0 = 8]
    BY <1>2 DEF PreparePythonInsert
  <2> QED
    BY <2>1 DEF IsDict, Fields, Keeps
<1>3. CASE d.kind = "unicode" /\ k \notin Strings /\ d.entries # <<>>
  <2> DEFINE g == [d EXCEPT !.kind = "general"]
             b == EnsurePythonHashIndex(g)
             t == PrepareGeneralInsert(b.index[1])
  <2>1. e = [b EXCEPT !.index = <<t>>, !.moved = TRUE]
    BY <1>3 DEF PreparePythonInsert
  <2>2. IsDict(g) /\ Keeps(d, g)
    BY DEF IsDict, Fields, Keeps
  <2>3. Keeps(d, b) /\ IsDict(b)
    BY <2>2, EnsureKeeps, KeepsTrans DEF Keeps
  <2> HIDE DEF t, b
  <2> QED
    BY <2>1, <2>3 DEF IsDict, Fields, Keeps
<1>4. CASE (d.kind = "unicode" /\ k \in Strings) \/ d.kind \notin {"unknown", "unicode"}
  <2>1. e = d
    BY <1>4 DEF PreparePythonInsert
  <2> QED
    BY <2>1, KeepsRefl
<1> QED
  BY <1>1, <1>2, <1>3, <1>4

\* What happens before an insertion is looked for.
LEMMA StorePrepared ==
    ASSUME NEW d, IsDict(d), NEW k
    PROVE  Keeps(d, ReadyToStore(PreparePythonInsert(d, k), k))
<1> DEFINE p == PreparePythonInsert(d, k)
<1>1. Keeps(d, p) /\ IsDict(p)
  BY PrepareKeeps DEF Keeps
<1>2. ReadyToStore(p, k) \in {p, EnsurePythonHashIndex(p)}
  BY DEF ReadyToStore
<1> HIDE DEF p
<1>3. Keeps(p, EnsurePythonHashIndex(p))
  BY <1>1, EnsureKeeps
<1> QED
  BY <1>1, <1>2, <1>3, KeepsTrans DEF p

\* A lookup builds the table it needs, the one the dict stands for.
LEMMA ActivatedKeeps ==
    ASSUME NEW d, IsDict(d), NEW k
    PROVE  Keeps(d, Activated(d, k)) /\ TableOf(Activated(d, k)) = TableOf(d)
<1>1. CASE Activated(d, k) = d
  BY <1>1, KeepsRefl
<1>2. CASE Activated(d, k) = EnsurePythonHashIndex(d)
  <2> DEFINE e == EnsurePythonHashIndex(d)
  <2>1. Keeps(d, e) /\ e.index = <<TableOf(d)>>
    BY EnsureKeeps
  <2>2. TableOf(e) = TableOf(d)
    BY <2>1, TableBuilt
  <2> QED
    BY <1>2, <2>1, <2>2
<1> QED
  BY <1>1, <1>2 DEF Activated

\* The journal is told.
LEMMA LoggedKeeps ==
    ASSUME NEW d, IsDict(d), NEW n
    PROVE  Keeps(d, Logged(d, n)) /\ Logged(d, n).index = d.index
<1> DEFINE j == JournalInserted(d.journal, n)
           z == RebasedSize(n)
<1>1. Logged(d, n) \in {d, [d EXCEPT !.journal = j, !.size0 = z, !.kind0 = d.kind],
                        [d EXCEPT !.journal = j]}
  <2>1. CASE d.journal = None
    BY <2>1 DEF Logged
  <2>2. CASE d.journal # None /\ Rebases(d.journal)
    BY <2>2 DEF Logged
  <2>3. CASE d.journal # None /\ ~ Rebases(d.journal)
    BY <2>3 DEF Logged
  <2> QED
    BY <2>1, <2>2, <2>3
<1> HIDE DEF j, z
<1> QED
  BY <1>1 DEF IsDict, Fields, Keeps

\* The journal is begun before a removal (prepare_removal_history).
LEMMA HistoryKeeps ==
    ASSUME NEW d, IsDict(d)
    PROVE  Keeps(d, PrepareRemovalHistory(d)) /\ PrepareRemovalHistory(d).index = d.index
<1> DEFINE j == JournalFromCurrentEntries(d.size0, Len(d.entries))
<1>1. PrepareRemovalHistory(d) \in {d, [d EXCEPT !.journal = j]}
  BY DEF PrepareRemovalHistory
<1> HIDE DEF j
<1> QED
  BY <1>1 DEF IsDict, Fields, Keeps

-----------------------------------------------------------------------------
(* Sequences without equal entries *)

\* no two keys of a set are equal
Apart(R) == \A a, b \in R : a # b => ~ Equal(a, b)

Once(s) == \A i, j \in 1 .. Len(s) : s[i] = s[j] => i = j

\* No equal entries: each key has one place, and no two keys are equal.
LEMMA EachMeans ==
    ASSUME NEW s \in Seq(Key)
    PROVE  OneEach(s) <=> Once(s) /\ Apart(Range(s))
<1>1. Len(s) \in Nat /\ DOMAIN s = 1 .. Len(s)
  OBVIOUS
<1>2. ASSUME OneEach(s) PROVE Once(s)
  BY <1>2 DEF OneEach, Once, Equal
<1>3. ASSUME OneEach(s), NEW a \in Range(s), NEW b \in Range(s), a # b
      PROVE  ~ Equal(a, b)
  <2>1. PICK i \in 1 .. Len(s), j \in 1 .. Len(s) : a = s[i] /\ b = s[j]
    BY <1>1 DEF Range
  <2> QED
    BY <1>3, <2>1 DEF OneEach
<1>4. ASSUME Once(s), Apart(Range(s)), NEW i \in 1 .. Len(s), NEW j \in 1 .. Len(s), i # j
      PROVE  ~ Equal(s[i], s[j])
  <2>1. s[i] \in Range(s) /\ s[j] \in Range(s)
    BY <1>1 DEF Range
  <2>2. s[i] # s[j]
    BY <1>4 DEF Once
  <2> QED
    BY <1>4, <2>1, <2>2 DEF Apart
<1> QED
  BY <1>2, <1>3, <1>4 DEF OneEach, Apart

\* A key that equals no entry is appended.
LEMMA AppendEach ==
    ASSUME NEW s \in Seq(Key), NEW k \in Key, OneEach(s),
           \A c \in Range(s) : ~ Equal(c, k)
    PROVE  /\ Append(s, k) \in Seq(Key) /\ OneEach(Append(s, k))
           /\ Range(Append(s, k)) = Range(s) \cup {k}
           /\ k \notin Range(s)
<1> DEFINE r == Append(s, k)
           n == Len(s)
<1>1. /\ n \in Nat /\ DOMAIN s = 1 .. n /\ r \in Seq(Key)
      /\ Len(r) = n + 1 /\ DOMAIN r = 1 .. n + 1
      /\ \A i \in 1 .. n : r[i] = s[i]
      /\ r[n + 1] = k
  OBVIOUS
<1> HIDE DEF r, n
<1>2. Range(r) = Range(s) \cup {k}
  <2>1. ASSUME NEW c \in Range(r) PROVE c \in Range(s) \cup {k}
    <3>1. PICK i \in 1 .. n + 1 : c = r[i]
      BY <1>1 DEF Range
    <3>2. i \in 1 .. n \/ i = n + 1
      BY <1>1
    <3> QED
      BY <1>1, <3>1, <3>2 DEF Range
  <2>2. ASSUME NEW c \in Range(s) PROVE c \in Range(r)
    <3>1. PICK i \in 1 .. n : c = s[i]
      BY <1>1 DEF Range
    <3>2. i \in 1 .. n + 1 /\ r[i] = c
      BY <1>1, <3>1
    <3> QED
      BY <1>1, <3>2 DEF Range
  <2>3. k \in Range(r)
    <3>1. n + 1 \in 1 .. n + 1
      BY <1>1
    <3> QED
      BY <1>1, <3>1 DEF Range
  <2> QED
    BY <2>1, <2>2, <2>3
<1>3. k \notin Range(s)
  BY DEF Equal
<1>4. Once(s) /\ Apart(Range(s))
  BY EachMeans
<1>5. Apart(Range(r))
  BY <1>2, <1>4, EqualSym DEF Apart
<1>6. Once(r)
  <2> SUFFICES ASSUME NEW i \in 1 .. n + 1, NEW j \in 1 .. n + 1, r[i] = r[j], i # j
               PROVE  FALSE
    BY <1>1 DEF Once
  <2>1. \A x \in 1 .. n : s[x] \in Range(s)
    BY <1>1 DEF Range
  <2>2. CASE i \in 1 .. n /\ j \in 1 .. n
    BY <1>1, <1>4, <2>2 DEF Once, n
  <2>3. CASE ~ (i \in 1 .. n /\ j \in 1 .. n)
    BY <1>1, <1>3, <2>1, <2>3
  <2> QED
    BY <2>2, <2>3
<1> QED
  BY <1>1, <1>2, <1>3, <1>5, <1>6, EachMeans DEF r

\* Some of the entries, in any order.
LEMMA SomeEach ==
    ASSUME NEW s \in Seq(Key), OneEach(s), NEW r \in Seq(Key), Once(r), Range(r) \subseteq Range(s)
    PROVE  OneEach(r)
<1>1. Apart(Range(s))
  BY EachMeans
<1>2. Apart(Range(r))
  BY <1>1 DEF Apart
<1> QED
  BY <1>2, EachMeans

\* The end of a sequence.
LEMMA SubSeqTail ==
    ASSUME NEW s \in Seq(Key), NEW m \in 1 .. Len(s) + 1
    PROVE  /\ SubSeq(s, m, Len(s)) \in Seq(Key) /\ Len(SubSeq(s, m, Len(s))) = Len(s) - m + 1
           /\ \A x \in 1 .. Len(s) - m + 1 : SubSeq(s, m, Len(s))[x] = s[m + x - 1]
<1> DEFINE n == Len(s)
<1>1. n \in Int /\ m \in Int /\ m <= n + 1 /\ \A x \in m .. n : s[x] \in Key
  OBVIOUS
<1> HIDE DEF n
<1>2. /\ SubSeq(s, m, n) \in Seq(Key)
      /\ Len(SubSeq(s, m, n)) = IF m <= n THEN n - m + 1 ELSE 0
      /\ \A x \in 1 .. n - m + 1 : SubSeq(s, m, n)[x] = s[m + x - 1]
  BY <1>1, SubSeqProperties
<1>3. (IF m <= n THEN n - m + 1 ELSE 0) = n - m + 1
  BY <1>1
<1> QED
  BY <1>2, <1>3 DEF n

\* One entry is taken out.
LEMMA RemoveAtEach ==
    ASSUME NEW s \in Seq(Key), OneEach(s), NEW i \in 1 .. Len(s)
    PROVE  /\ RemoveAt(s, i) \in Seq(Key) /\ OneEach(RemoveAt(s, i))
           /\ Len(RemoveAt(s, i)) = Len(s) - 1
           /\ Range(RemoveAt(s, i)) = Range(s) \ {s[i]}
<1> DEFINE r == RemoveAt(s, i)
           n == Len(s)
           a == SubSeq(s, 1, i - 1)
           b == SubSeq(s, i + 1, n)
<1>1. n \in Nat /\ DOMAIN s = 1 .. n
  OBVIOUS
<1>2. a \in Seq(Key) /\ Len(a) = i - 1 /\ \A x \in 1 .. i - 1 : a[x] = s[x]
  BY <1>1
<1>3. b \in Seq(Key) /\ Len(b) = n - i /\ \A x \in 1 .. n - i : b[x] = s[x + i]
  <2>1. /\ b \in Seq(Key) /\ Len(b) = n - (i + 1) + 1
        /\ \A x \in 1 .. n - (i + 1) + 1 : b[x] = s[(i + 1) + x - 1]
    <3> DEFINE m == i + 1
    <3>1. m \in 1 .. n + 1
      BY <1>1
    <3> HIDE DEF m
    <3>2. /\ SubSeq(s, m, n) \in Seq(Key) /\ Len(SubSeq(s, m, n)) = n - m + 1
          /\ \A x \in 1 .. n - m + 1 : SubSeq(s, m, n)[x] = s[m + x - 1]
      BY <3>1, SubSeqTail, Zenon
    <3> QED
      BY <3>2 DEF m
  <2>2. n - (i + 1) + 1 = n - i /\ \A x \in 1 .. n - i : (i + 1) + x - 1 = x + i
    BY <1>1
  <2> QED
    BY <2>1, <2>2
<1>4. r = a \o b
  BY DEF RemoveAt
<1> HIDE DEF r, a, b, n
<1>5. /\ r \in Seq(Key) /\ Len(r) = n - 1
      /\ \A x \in 1 .. i - 1 : r[x] = s[x]
      /\ \A x \in i .. n - 1 : r[x] = s[x + 1]
  <2>1. r \in Seq(Key) /\ Len(r) = n - 1
    <3>1. a \o b \in Seq(Key) /\ Len(a \o b) = Len(a) + Len(b)
      BY <1>2, <1>3, ConcatProperties, Zenon
    <3> QED
      BY <1>1, <1>2, <1>3, <1>4, <3>1
  <2>2. \A x \in 1 .. i - 1 : r[x] = s[x]
    BY <1>1, <1>2, <1>3, <1>4 DEF n
  <2>3. ASSUME NEW x \in i .. n - 1 PROVE r[x] = s[x + 1]
    <3>1. r[x] = b[x - (i - 1)]
      BY <1>1, <1>2, <1>3, <1>4 DEF n
    <3>2. x - (i - 1) \in 1 .. n - i
      BY <1>1 DEF n
    <3>3. b[x - (i - 1)] = s[x - (i - 1) + i]
      BY <1>3, <3>2
    <3> QED
      BY <1>1, <3>1, <3>3 DEF n
  <2> QED
    BY <2>1, <2>2, <2>3
<1>6. DOMAIN r = 1 .. n - 1
  BY <1>5
<1>7. Once(s)
  BY EachMeans
<1>8. \A x, y \in 1 .. n : s[x] = s[y] => x = y
  BY <1>7 DEF Once, n
<1>9. Once(r)
  <2> SUFFICES ASSUME NEW x \in 1 .. n - 1, NEW y \in 1 .. n - 1, r[x] = r[y]
               PROVE  x = y
    BY <1>5 DEF Once
  <2> DEFINE At1(z) == IF z < i THEN z ELSE z + 1
  <2>1. ASSUME NEW z \in 1 .. n - 1 PROVE At1(z) \in 1 .. n /\ r[z] = s[At1(z)]
    <3>1. i \in 1 .. n
      BY DEF n
    <3>2. CASE z < i
      <4>1. z \in 1 .. i - 1 /\ z \in 1 .. n
        BY <1>1, <3>1, <3>2
      <4> QED
        BY <1>5, <3>2, <4>1
    <3>3. CASE ~ (z < i)
      <4>1. z \in i .. n - 1 /\ z + 1 \in 1 .. n
        BY <1>1, <3>1, <3>3
      <4> QED
        BY <1>5, <3>3, <4>1
    <3> QED
      BY <3>2, <3>3
  <2>2. At1(x) = At1(y)
    BY <1>8, <2>1
  <2> QED
    BY <1>1, <2>2
<1>10. Range(r) = Range(s) \ {s[i]}
  <2>1. ASSUME NEW c \in Range(r) PROVE c \in Range(s) /\ c # s[i]
    <3>1. PICK x \in 1 .. n - 1 : c = r[x]
      BY <1>6 DEF Range
    <3>2. PICK z \in 1 .. n : z # i /\ c = s[z]
      <4>1. CASE x < i
        BY <1>1, <1>5, <3>1, <4>1 DEF n
      <4>2. CASE x >= i
        <5>1. x + 1 \in 1 .. n /\ x + 1 # i /\ r[x] = s[x + 1]
          BY <1>1, <1>5, <4>2 DEF n
        <5> QED
          BY <3>1, <5>1
      <4> QED
        BY <1>1, <4>1, <4>2 DEF n
    <3>3. i \in 1 .. n
      BY DEF n
    <3> QED
      BY <1>1, <1>8, <3>2, <3>3 DEF Range
  <2>2. ASSUME NEW c \in Range(s), c # s[i] PROVE c \in Range(r)
    <3>1. PICK z \in 1 .. n : z # i /\ c = s[z]
      BY <1>1, <2>2 DEF Range
    <3>2. CASE z < i
      <4>1. z \in 1 .. n - 1 /\ r[z] = c
        BY <1>1, <1>5, <3>1, <3>2 DEF n
      <4> QED
        BY <1>6, <4>1 DEF Range
    <3>3. CASE z > i
      <4>1. z - 1 \in i .. n - 1 /\ z - 1 \in 1 .. n - 1 /\ (z - 1) + 1 = z
        BY <1>1, <3>3 DEF n
      <4>2. r[z - 1] = c
        BY <1>5, <3>1, <4>1
      <4> QED
        BY <1>6, <4>1, <4>2 DEF Range
    <3> QED
      BY <1>1, <3>1, <3>2, <3>3 DEF n
  <2> QED
    BY <2>1, <2>2
<1>11. OneEach(r)
  BY <1>5, <1>9, <1>10, SomeEach
<1> QED
  BY <1>5, <1>10, <1>11 DEF r, n

\* A set in any order.
LEMMA ListsMean ==
    ASSUME NEW S, IsFiniteSet(S), S \subseteq Key, NEW c \in SetToSeqs(S)
    PROVE  c \in Seq(Key) /\ Range(c) = S /\ Once(c)
<1> DEFINE n == Cardinality(S)
<1>1. n \in Nat
  BY FS_CardinalityType
<1>2. c \in [1 .. n -> S] /\ \A i, j \in 1 .. n : i # j => c[i] # c[j]
  BY DEF SetToSeqs
<1> HIDE DEF n
<1>3. c \in Seq(Key) /\ Len(c) = n
  BY <1>1, <1>2
<1>4. c \in Injection(1 .. n, S)
  BY <1>2 DEF Injection, IsInjective
<1>5. Cardinality(1 .. n) = n
  BY <1>1, FS_Interval
<1>6. c \in Surjection(1 .. n, S)
  BY <1>4, <1>5, FS_Injection DEF n
<1>7. Range(c) = S
  BY <1>2, <1>6 DEF Range, Surjection
<1> QED
  BY <1>2, <1>3, <1>7 DEF Once

-----------------------------------------------------------------------------
(* Operations that change the entries *)

\* A dict without keys.
LEMMA NewOK ==
    ASSUME NEW size, NEW kind
    PROVE  /\ DictOK(NewDict(size, kind)) /\ NewDict(size, kind).entries = <<>>
           /\ ~ NewDict(size, kind).moved
<1> DEFINE d == NewDict(size, kind)
<1>1. /\ DOMAIN d = Fields /\ d.entries = <<>> /\ d.objects = 0 /\ d.dynamic = 0 /\ ~ d.moved
  BY DEF NewDict, Fields
<1> HIDE DEF d
<1>2. Range(d.entries) = {}
  BY <1>1 DEF Range
<1>3. IsDict(d)
  BY <1>1 DEF IsDict
<1>4. OneEach(d.entries)
  BY <1>1 DEF OneEach
<1>5. /\ d.objects = Cardinality(Range(d.entries) \cap Objects)
      /\ d.dynamic = Cardinality(Range(d.entries) \cap Dynamic)
  BY <1>1, <1>2, FS_EmptySet
<1>6. ~ Mixed(Range(d.entries))
  BY <1>2 DEF Mixed
<1> QED
  BY <1>1, <1>3, <1>4, <1>5, <1>6 DEF DictOK, CountsOK, d

\* The counters after one more key.
LEMMA CountAdded ==
    ASSUME NEW R, IsFiniteSet(R), NEW k, k \notin R, NEW T
    PROVE  Cardinality((R \cup {k}) \cap T) =
               IF k \in T THEN Cardinality(R \cap T) + 1 ELSE Cardinality(R \cap T)
<1>1. R \cap T \in SUBSET R
  OBVIOUS
<1>2. IsFiniteSet(R \cap T) /\ k \notin R \cap T
  BY <1>1, FS_Subset
<1>3. CASE k \in T
  <2>1. (R \cup {k}) \cap T = (R \cap T) \cup {k}
    BY <1>3
  <2> QED
    BY <1>2, <1>3, <2>1, FS_AddElement
<1>4. CASE k \notin T
  <2>1. (R \cup {k}) \cap T = R \cap T
    BY <1>4
  <2> QED
    BY <1>4, <2>1
<1> QED
  BY <1>3, <1>4

\* The counters after one key less.
LEMMA CountDropped ==
    ASSUME NEW R, IsFiniteSet(R), NEW k \in R, NEW T
    PROVE  Cardinality((R \ {k}) \cap T) =
               IF k \in T THEN Cardinality(R \cap T) - 1 ELSE Cardinality(R \cap T)
<1>1. R \cap T \in SUBSET R
  OBVIOUS
<1>2. IsFiniteSet(R \cap T)
  BY <1>1, FS_Subset
<1>3. (R \ {k}) \cap T = (R \cap T) \ {k}
  OBVIOUS
<1>4. k \in T <=> k \in R \cap T
  OBVIOUS
<1> QED
  BY <1>2, <1>3, <1>4, FS_RemoveElement

\* A key that no entry equals is inserted: the table is built when keys of
\* different representation meet.
LEMMA InsertedOK ==
    ASSUME NEW d, DictOK(d), NEW k \in Key, \A c \in Range(d.entries) : ~ Equal(c, k)
    PROVE  LET e == RecordInsertedIndex(d, k)
           IN  DictOK(e) /\ e.moved /\ e.entries = Append(d.entries, k)
<1> DEFINE e == RecordInsertedIndex(d, k)
           R == Range(d.entries)
           o == IF k \in Objects THEN d.objects + 1 ELSE d.objects
           y == IF k \in Dynamic THEN d.dynamic + 1 ELSE d.dynamic
           m == [d EXCEPT !.entries = Append(@, k), !.moved = TRUE,
                          !.objects = IF k \in Objects THEN @ + 1 ELSE @,
                          !.dynamic = IF k \in Dynamic THEN @ + 1 ELSE @]
<1>1. /\ IsDict(d) /\ OneEach(d.entries) /\ d.entries \in Seq(Key) /\ CountsOK(d)
      /\ d.objects = Cardinality(R \cap Objects)
      /\ d.dynamic = Cardinality(R \cap Dynamic)
      /\ Mixed(R) => d.index # <<>>
  BY DEF DictOK, CountsOK, IsDict
<1>2. /\ Append(d.entries, k) \in Seq(Key) /\ OneEach(Append(d.entries, k))
      /\ Range(Append(d.entries, k)) = R \cup {k} /\ k \notin R
  BY <1>1, AppendEach
<1>3. IsFiniteSet(R)
  BY <1>1, EntriesFinite
<1>4. /\ IsDict(m) /\ m.entries = Append(d.entries, k) /\ m.objects = o /\ m.dynamic = y
      /\ m.moved /\ m.index = d.index
  BY <1>1, <1>2 DEF IsDict, Fields
<1> HIDE DEF m, o, y
<1>5. CountsOK(m)
  <2>1. m.objects = Cardinality(Range(m.entries) \cap Objects)
    BY <1>1, <1>2, <1>3, <1>4, CountAdded DEF o
  <2>2. m.dynamic = Cardinality(Range(m.entries) \cap Dynamic)
    BY <1>1, <1>2, <1>3, <1>4, CountAdded DEF y
  <2> QED
    BY <1>2, <1>4, <2>1, <2>2 DEF CountsOK
<1>6. CASE d.index # <<>>
  <2> DEFINE t == RecordInserted(m.index[1], Item(k))
  <2>1. e = [m EXCEPT !.index = <<t>>]
    BY <1>6 DEF RecordInsertedIndex, m
  <2> HIDE DEF t
  <2>2. Keeps(m, e) /\ e.index = <<t>>
    BY <1>4, <2>1, ReplacedKeeps
  <2>3. CountsOK(e) /\ e.index # <<>>
    BY <1>5, <2>2, KeepsCounts
  <2> QED
    BY <1>4, <2>2, <2>3 DEF DictOK, Keeps, IsDict
<1>7. CASE d.index = <<>>
  <2> DEFINE g == Logged(m, Len(d.entries))
  <2>1. e = Indexed(g, k)
    BY <1>7 DEF RecordInsertedIndex, m
  <2>2. Keeps(m, g) /\ g.index = <<>>
    BY <1>4, <1>7, LoggedKeeps
  <2> HIDE DEF g
  <2>3. CountsOK(g) /\ Range(g.entries) = R \cup {k} /\ IsDict(g)
    BY <1>2, <1>4, <1>5, <2>2, KeepsCounts DEF Keeps, CountsOK
  <2>4. Counted(g)
    BY <2>3, CountsMean
  <2>5. Mixed(R \cup {k}) => (k \in Dynamic \/ g.objects # 0) /\ RequiresPythonHashIndex(g)
    <3>1. RequiresPythonHashIndex(g) <=> Mixed(R \cup {k})
      BY <2>3, <2>4 DEF Counted
    <3>2. g.objects # 0 <=> (R \cup {k}) \cap Objects # {}
      BY <2>3, <2>4 DEF Counted
    <3>3. ~ Mixed(R)
      BY <1>1, <1>7
    <3> QED
      BY <3>1, <3>2, <3>3, Kinds DEF Mixed
  <2>6. CASE (k \in Dynamic \/ g.objects # 0) /\ RequiresPythonHashIndex(g)
    <3>1. e = EnsurePythonHashIndex(g)
      BY <2>1, <2>6 DEF Indexed
    <3>2. Keeps(g, e) /\ e.index = <<TableOf(g)>>
      BY <2>3, <3>1, EnsureKeeps
    <3>3. CountsOK(e) /\ e.index # <<>>
      BY <2>3, <3>2, KeepsCounts
    <3> QED
      BY <1>4, <2>2, <3>2, <3>3 DEF DictOK, Keeps, IsDict
  <2>7. CASE ~ ((k \in Dynamic \/ g.objects # 0) /\ RequiresPythonHashIndex(g))
    <3>1. e = g
      BY <2>1, <2>7 DEF Indexed
    <3> QED
      BY <1>4, <2>2, <2>3, <2>5, <2>7, <3>1 DEF DictOK, Keeps, IsDict
  <2> QED
    BY <2>6, <2>7
<1> QED
  BY <1>6, <1>7

\* An assignment, when it is known which entry, if any, the key equals.
LEMMA StoredOK ==
    ASSUME NEW d, DictOK(d), NEW k \in Key,
           Has(d, k) \/ \A c \in Range(d.entries) : ~ Equal(c, k)
    PROVE  LET e == WithInserted(d, k)
           IN  /\ DictOK(e) /\ (d.moved => e.moved)
               /\ ~ e.moved => e.entries = d.entries
<1> DEFINE p == PreparePythonInsert(d, k)
           e == WithInserted(d, k)
<1>1. IsDict(d)
  BY DEF DictOK, CountsOK
<1>2. Keeps(d, p)
  BY <1>1, PrepareKeeps
<1>3. DictOK(p) /\ p.entries = d.entries /\ (d.moved => p.moved)
  BY <1>2, KeepsOK DEF Keeps
<1>4. e = InsertFull(p, k)
  BY DEF WithInserted
<1> HIDE DEF p
<1>5. CASE Has(p, k)
  BY <1>3, <1>4, <1>5 DEF InsertFull
<1>6. CASE ~ Has(p, k)
  <2>1. e = RecordInsertedIndex(p, k)
    BY <1>4, <1>6 DEF InsertFull
  <2>2. \A c \in Range(p.entries) : ~ Equal(c, k)
    BY <1>3, <1>6 DEF Has
  <2> QED
    BY <1>3, <2>1, <2>2, InsertedOK
<1> QED
  BY <1>5, <1>6

\* The entries are replaced.
LEMMA WithEntries ==
    ASSUME NEW d, IsDict(d), NEW s \in Seq(Key)
    PROVE  LET f == [d EXCEPT !.entries = s]
           IN  /\ IsDict(f) /\ f.entries = s /\ f.objects = d.objects
               /\ f.dynamic = d.dynamic /\ f.index = d.index /\ (f.moved <=> d.moved)
BY DEF IsDict, Fields

\* A removal is half done: f has the counters and the table of the keys R
\* and all the entries but that of k.
Missing(f, R, k) ==
    /\ IsDict(f) /\ IsFiniteSet(R) /\ k \in R
    /\ OneEach(f.entries) /\ Range(f.entries) = R \ {k}
    /\ f.objects = Cardinality(R \cap Objects) /\ f.dynamic = Cardinality(R \cap Dynamic)
    /\ Mixed(R) => f.index # <<>>

\* The removal is completed (record_removed_key).
LEMMA RemovedOK ==
    ASSUME NEW f, NEW R, NEW k, Missing(f, R, k), NEW pos,
           NEW e, e = RecordRemovedKey(f, pos, k, TRUE) \/ e = RecordRemovedKey(f, pos, k, FALSE)
    PROVE  DictOK(e) /\ e.moved /\ e.entries = f.entries
<1> USE DEF Missing
<1> DEFINE o == IF k \in Objects THEN f.objects - 1 ELSE f.objects
           y == IF k \in Dynamic THEN f.dynamic - 1 ELSE f.dynamic
<1>1. PICK g : Keeps(f, g) /\ e = RecordRemovedMetadata(g, k)
  <2>1. CASE f.index # <<>>
    <3>1. PICK t : e = RecordRemovedMetadata([f EXCEPT !.index = <<t>>], k)
      BY <2>1 DEF RecordRemovedKey
    <3> QED
      BY <3>1, ReplacedKeeps
  <2>2. CASE f.index = <<>>
    <3>1. PICK j : e = RecordRemovedMetadata([f EXCEPT !.journal = j], k)
      BY <2>2 DEF RecordRemovedKey
    <3>2. Keeps(f, [f EXCEPT !.journal = j])
      BY DEF IsDict, Fields, Keeps
    <3> QED
      BY <3>1, <3>2
  <2> QED
    BY <2>1, <2>2
<1>2. /\ o = Cardinality((R \ {k}) \cap Objects) /\ o \in Nat
      /\ y = Cardinality((R \ {k}) \cap Dynamic) /\ y \in Nat
  <2>1. IsFiniteSet((R \ {k}) \cap Objects) /\ IsFiniteSet((R \ {k}) \cap Dynamic)
    <3>1. (R \ {k}) \cap Objects \in SUBSET R /\ (R \ {k}) \cap Dynamic \in SUBSET R
      OBVIOUS
    <3> QED
      BY <3>1, FS_Subset
  <2>2. o = Cardinality((R \ {k}) \cap Objects)
    BY CountDropped
  <2>3. y = Cardinality((R \ {k}) \cap Dynamic)
    BY CountDropped
  <2> QED
    BY <2>1, <2>2, <2>3, FS_CardinalityType
<1>3. /\ IsDict(g) /\ g.objects = f.objects /\ g.dynamic = f.dynamic /\ g.entries = f.entries
      /\ f.index # <<>> => g.index # <<>>
  BY <1>1 DEF Keeps
<1>4. e = [g EXCEPT !.objects = o, !.dynamic = y, !.moved = TRUE]
  BY <1>1, <1>3 DEF RecordRemovedMetadata, IsDict, Fields
<1> HIDE DEF o, y
<1>5. /\ IsDict(e) /\ e.entries = f.entries /\ e.objects = o /\ e.dynamic = y
      /\ e.moved /\ e.index = g.index
  BY <1>2, <1>3, <1>4 DEF IsDict, Fields
<1>6. CountsOK(e)
  BY <1>2, <1>5 DEF CountsOK
<1>7. Mixed(R \ {k}) => Mixed(R)
  BY DEF Mixed
<1> QED
  BY <1>3, <1>5, <1>6, <1>7 DEF DictOK

\* Where a key is.
LEMMA PositionMeans ==
    ASSUME NEW d, IsDict(d), NEW k, Has(d, k)
    PROVE  /\ Position(d, k) + 1 \in 1 .. Len(d.entries)
           /\ d.entries[Position(d, k) + 1] = k
<1> DEFINE i == CHOOSE i \in DOMAIN d.entries : d.entries[i] = k
<1>1. \E x \in DOMAIN d.entries : d.entries[x] = k
  BY DEF Has, Range
<1>2. i \in DOMAIN d.entries /\ d.entries[i] = k
  BY <1>1
<1>3. d.entries \in Seq(Key)
  BY DEF IsDict
<1>4. Position(d, k) = i - 1
  BY DEF Position
<1> HIDE DEF i
<1> QED
  BY <1>2, <1>3, <1>4

\* A key is removed and the later ones move up (shift_remove).
LEMMA ShiftRemovedOK ==
    ASSUME NEW d, DictOK(d), NEW k, Has(d, k)
    PROVE  DictOK(ShiftRemoved(d, k)) /\ ShiftRemoved(d, k).moved
<1> DEFINE h == PrepareRemovalHistory(d)
           i == Position(d, k) + 1
           r == RemoveAt(d.entries, i)
           half == [h EXCEPT !.entries = r]
           all == Range(d.entries)
<1>1. /\ IsDict(d) /\ OneEach(d.entries) /\ d.entries \in Seq(Key)
      /\ d.objects = Cardinality(all \cap Objects) /\ d.dynamic = Cardinality(all \cap Dynamic)
      /\ Mixed(all) => d.index # <<>>
  BY DEF DictOK, CountsOK, IsDict
<1>2. i \in 1 .. Len(d.entries) /\ d.entries[i] = k
  BY <1>1, PositionMeans
<1>3. Keeps(d, h) /\ h.index = d.index
  BY <1>1, HistoryKeeps
<1>4. ShiftRemoved(d, k) = RecordRemovedKey(half, Position(d, k), k, FALSE)
  BY <1>3 DEF ShiftRemoved, Keeps, IsDict, Fields
<1> HIDE DEF h, i
<1>5. r \in Seq(Key) /\ OneEach(r) /\ Range(r) = all \ {k}
  BY <1>1, <1>2, RemoveAtEach
<1> HIDE DEF r
<1>6. /\ IsDict(half) /\ half.entries = r /\ half.objects = d.objects
      /\ half.dynamic = d.dynamic /\ half.index = d.index
  BY <1>3, <1>5, WithEntries DEF Keeps
<1>7. IsFiniteSet(all) /\ k \in all
  BY <1>1, EntriesFinite DEF Has
<1> HIDE DEF half, all
<1>8. OneEach(half.entries) /\ Range(half.entries) = all \ {k}
  BY <1>5, <1>6
<1>9. Missing(half, all, k)
  BY <1>1, <1>6, <1>7, <1>8 DEF Missing
<1> DEFINE x == Position(d, k)
<1>10. \A y : DictOK(RecordRemovedKey(half, y, k, FALSE)) /\ RecordRemovedKey(half, y, k, FALSE).moved
  BY <1>9, RemovedOK
<1>11. DictOK(RecordRemovedKey(half, x, k, FALSE)) /\ RecordRemovedKey(half, x, k, FALSE).moved
  BY <1>10
<1> QED
  BY <1>4, <1>11

\* The last key is removed (pop).
LEMMA PoppedOK ==
    ASSUME NEW d, DictOK(d), d.entries # <<>>
    PROVE  DictOK(Popped(d)) /\ Popped(d).moved
<1> DEFINE h == PrepareRemovalHistory(d)
           s == d.entries
           n == Len(s)
           k == Last(s)
           r == Front(s)
           half == [h EXCEPT !.entries = r]
           all == Range(s)
<1>1. /\ IsDict(d) /\ OneEach(s) /\ s \in Seq(Key)
      /\ d.objects = Cardinality(all \cap Objects) /\ d.dynamic = Cardinality(all \cap Dynamic)
      /\ Mixed(all) => d.index # <<>>
  BY DEF DictOK, CountsOK, IsDict
<1>2. n \in 1 .. Len(s) /\ k = s[n] /\ k \in all
  BY <1>1 DEF Last, Range
<1>3. Keeps(d, h) /\ h.index = d.index
  BY <1>1, HistoryKeeps
<1>4. Popped(d) = RecordRemovedKey(half, Len(d.entries) - 1, k, TRUE)
  BY <1>3 DEF Popped, Keeps, IsDict, Fields
<1>5. r \in Seq(Key) /\ OneEach(r) /\ Range(r) = all \ {k}
  <2>1. /\ RemoveAt(s, n) \in Seq(Key) /\ OneEach(RemoveAt(s, n))
        /\ Range(RemoveAt(s, n)) = all \ {k}
    BY <1>1, <1>2, RemoveAtEach
  <2>2. RemoveAt(s, n) = SubSeq(s, 1, n - 1) \o SubSeq(s, n + 1, n)
    BY DEF RemoveAt
  <2>3. SubSeq(s, n + 1, n) = <<>>
    BY <1>1
  <2>4. SubSeq(s, 1, n - 1) \in Seq(Key)
    BY <1>1, <1>2
  <2>5. RemoveAt(s, n) = SubSeq(s, 1, n - 1)
    BY <2>2, <2>3, <2>4, ConcatEmptySeq
  <2> QED
    BY <2>1, <2>5 DEF Front
<1> HIDE DEF h, k, r
<1>6. /\ IsDict(half) /\ half.entries = r /\ half.objects = d.objects
      /\ half.dynamic = d.dynamic /\ half.index = d.index
  BY <1>3, <1>5, WithEntries DEF Keeps
<1>7. IsFiniteSet(all)
  BY <1>1, EntriesFinite
<1> HIDE DEF half, all
<1>8. OneEach(half.entries) /\ Range(half.entries) = all \ {k}
  BY <1>5, <1>6
<1>9. Missing(half, all, k)
  BY <1>1, <1>2, <1>6, <1>7, <1>8 DEF Missing
<1> DEFINE x == Len(d.entries) - 1
<1>10. \A y : DictOK(RecordRemovedKey(half, y, k, TRUE)) /\ RecordRemovedKey(half, y, k, TRUE).moved
  BY <1>9, RemovedOK
<1>11. DictOK(RecordRemovedKey(half, x, k, TRUE)) /\ RecordRemovedKey(half, x, k, TRUE).moved
  BY <1>10
<1> QED
  BY <1>4, <1>11

\* The last entry takes the place of another.
LEMMA SwapEach ==
    ASSUME NEW s \in Seq(Key), OneEach(s), NEW k \in Range(s)
    PROVE  LET m == [i \in DOMAIN s |-> IF s[i] = k THEN Last(s) ELSE s[i]]
           IN  Front(m) \in Seq(Key) /\ OneEach(Front(m)) /\ Range(Front(m)) = Range(s) \ {k}
<1> DEFINE m == [i \in DOMAIN s |-> IF s[i] = k THEN Last(s) ELSE s[i]]
           n == Len(s)
           r == Front(m)
<1>1. n \in Nat /\ DOMAIN s = 1 .. n /\ \A x \in 1 .. n : s[x] \in Key
  OBVIOUS
<1>2. PICK i \in 1 .. n : s[i] = k
  BY <1>1 DEF Range
<1>3. n \in 1 .. n /\ Last(s) = s[n]
  BY <1>1, <1>2 DEF Last
<1>4. m \in Seq(Key) /\ Len(m) = n /\ \A x \in 1 .. n : m[x] = IF s[x] = k THEN s[n] ELSE s[x]
  BY <1>1, <1>3
<1> HIDE DEF m, n
<1>5. /\ r \in Seq(Key) /\ Len(r) = n - 1 /\ DOMAIN r = 1 .. n - 1
      /\ \A x \in 1 .. n - 1 : r[x] = IF s[x] = k THEN s[n] ELSE s[x]
  <2>1. r = SubSeq(m, 1, n - 1)
    BY <1>4 DEF Front
  <2>2. /\ r \in Seq(Key) /\ Len(r) = n - 1
        /\ \A x \in 1 .. n - 1 : r[x] = m[x]
    BY <1>1, <1>3, <1>4, <2>1
  <2> QED
    BY <1>1, <1>4, <2>2
<1> HIDE DEF r
<1>6. \A x, y \in 1 .. n : s[x] = s[y] => x = y
  BY EachMeans DEF Once, n
<1>7. Once(r)
  <2> SUFFICES ASSUME NEW x \in 1 .. n - 1, NEW y \in 1 .. n - 1, r[x] = r[y]
               PROVE  x = y
    BY <1>5 DEF Once
  <2>1. x \in 1 .. n /\ y \in 1 .. n /\ x # n /\ y # n
    BY <1>1
  <2>2. CASE s[x] = k /\ s[y] = k
    BY <1>6, <2>1, <2>2
  <2>3. CASE s[x] # k /\ s[y] # k
    BY <1>5, <1>6, <2>1, <2>3
  <2>4. CASE s[x] = k /\ s[y] # k
    BY <1>3, <1>5, <1>6, <2>1, <2>4
  <2>5. CASE s[x] # k /\ s[y] = k
    BY <1>3, <1>5, <1>6, <2>1, <2>5
  <2> QED
    BY <2>2, <2>3, <2>4, <2>5
<1>8. Range(r) = Range(s) \ {k}
  <2>1. ASSUME NEW c \in Range(r) PROVE c \in Range(s) /\ c # k
    <3>1. PICK x \in 1 .. n - 1 : c = r[x]
      BY <1>5 DEF Range
    <3>2. x \in 1 .. n /\ x # n
      BY <1>1
    <3>3. c = IF s[x] = k THEN s[n] ELSE s[x]
      BY <1>5, <3>1
    <3>4. CASE s[x] = k
      BY <1>1, <1>3, <1>6, <3>2, <3>3, <3>4 DEF Range
    <3>5. CASE s[x] # k
      BY <1>1, <3>2, <3>3, <3>5 DEF Range
    <3> QED
      BY <3>4, <3>5
  <2>2. ASSUME NEW c \in Range(s), c # k PROVE c \in Range(r)
    <3>1. PICK z \in 1 .. n : c = s[z]
      BY <1>1 DEF Range
    <3>2. CASE z = n
      <4>1. i \in 1 .. n - 1
        BY <1>1, <1>2, <2>2, <3>1, <3>2
      <4>2. r[i] = c
        BY <1>2, <1>5, <3>1, <3>2, <4>1
      <4> QED
        BY <1>5, <4>1, <4>2 DEF Range
    <3>3. CASE z # n
      <4>1. z \in 1 .. n - 1
        BY <1>1, <3>3
      <4>2. r[z] = c
        BY <1>5, <2>2, <3>1, <4>1
      <4> QED
        BY <1>5, <4>1, <4>2 DEF Range
    <3> QED
      BY <3>2, <3>3
  <2> QED
    BY <2>1, <2>2
<1>9. OneEach(r)
  BY <1>5, <1>7, <1>8, SomeEach
<1> QED
  BY <1>5, <1>8, <1>9 DEF r, m

\* A key is removed and the last one takes its place (swap_remove).
LEMMA SwapRemovedOK ==
    ASSUME NEW d, DictOK(d), NEW k, Has(d, k)
    PROVE  DictOK(SwapRemoved(d, k)) /\ SwapRemoved(d, k).moved
<1> DEFINE h == EnsurePythonHashIndex(d)
           m == [i \in DOMAIN d.entries |-> IF d.entries[i] = k THEN Last(d.entries) ELSE d.entries[i]]
           r == Front(m)
           half == [h EXCEPT !.entries = r]
           all == Range(d.entries)
<1>1. /\ IsDict(d) /\ OneEach(d.entries) /\ d.entries \in Seq(Key)
      /\ d.objects = Cardinality(all \cap Objects) /\ d.dynamic = Cardinality(all \cap Dynamic)
  BY DEF DictOK, CountsOK, IsDict
<1>2. Keeps(d, h) /\ h.index = <<TableOf(d)>>
  BY <1>1, EnsureKeeps
<1>3. SwapRemoved(d, k) = RecordRemovedKey(half, Position(d, k), k, FALSE)
  BY DEF SwapRemoved
<1>4. IsFiniteSet(all) /\ k \in all
  BY <1>1, EntriesFinite DEF Has
<1>5. r \in Seq(Key) /\ OneEach(r) /\ Range(r) = all \ {k}
  BY <1>1, <1>4, SwapEach
<1> HIDE DEF h, r
<1>6. /\ IsDict(half) /\ half.entries = r /\ half.objects = d.objects
      /\ half.dynamic = d.dynamic /\ half.index = h.index
  BY <1>2, <1>5, WithEntries DEF Keeps
<1> HIDE DEF half, all
<1>7. OneEach(half.entries) /\ Range(half.entries) = all \ {k} /\ half.index # <<>>
  BY <1>2, <1>5, <1>6
<1>8. Missing(half, all, k)
  BY <1>1, <1>4, <1>6, <1>7 DEF Missing
<1> DEFINE x == Position(d, k)
<1>9. \A y : DictOK(RecordRemovedKey(half, y, k, FALSE)) /\ RecordRemovedKey(half, y, k, FALSE).moved
  BY <1>8, RemovedOK
<1>10. DictOK(RecordRemovedKey(half, x, k, FALSE)) /\ RecordRemovedKey(half, x, k, FALSE).moved
  BY <1>9
<1> QED
  BY <1>3, <1>10

\* Some of the keys are kept.
LEMMA RetainedOK ==
    ASSUME NEW d, DictOK(d), NEW keys \in SUBSET Range(d.entries),
           NEW kept \in InOrder(d.entries, keys)
    PROVE  LET e == Retained(d, kept)
           IN  /\ DictOK(e) /\ (d.moved => e.moved)
               /\ ~ e.moved => Range(e.entries) = Range(d.entries)
<1> DEFINE e == Retained(d, kept)
           all == Range(d.entries)
           gone == all \ Range(kept)
           h == EnsurePythonHashIndex(d)
           o == d.objects - Cardinality(gone \cap Objects)
           y == d.dynamic - Cardinality(gone \cap Dynamic)
<1>1. /\ IsDict(d) /\ OneEach(d.entries) /\ d.entries \in Seq(Key)
      /\ d.objects = Cardinality(all \cap Objects) /\ d.dynamic = Cardinality(all \cap Dynamic)
  BY DEF DictOK, CountsOK, IsDict
<1>2. IsFiniteSet(all) /\ all \subseteq Key
  BY <1>1, EntriesFinite
<1>3. IsFiniteSet(keys) /\ keys \subseteq Key
  BY <1>2, FS_Subset
<1>4. kept \in Seq(Key) /\ Range(kept) = keys /\ Once(kept)
  BY <1>3, ListsMean DEF InOrder
<1>5. OneEach(kept)
  BY <1>1, <1>4, SomeEach
<1>6. ASSUME NEW T
      PROVE  Cardinality(all \cap T) - Cardinality(gone \cap T) = Cardinality(keys \cap T)
  <2>1. IsFiniteSet(all \cap T)
    BY <1>2, FS_Subset
  <2>2. (all \cap T) \ gone = keys \cap T /\ (all \cap T) \cap gone = gone \cap T
    BY <1>4
  <2>3. Cardinality((all \cap T) \ gone) = Cardinality(all \cap T) - Cardinality((all \cap T) \cap gone)
    BY <2>1, FS_Difference
  <2> HIDE DEF all, gone
  <2>4. Cardinality(keys \cap T) = Cardinality(all \cap T) - Cardinality(gone \cap T)
    BY <2>2, <2>3
  <2> QED
    BY <2>4
<1>7. /\ o = Cardinality(keys \cap Objects) /\ o \in Nat
      /\ y = Cardinality(keys \cap Dynamic) /\ y \in Nat
  <2>1. IsFiniteSet(keys \cap Objects) /\ IsFiniteSet(keys \cap Dynamic)
    BY <1>3, FS_Subset
  <2>2. o = Cardinality(keys \cap Objects)
    BY <1>1, <1>6
  <2>3. y = Cardinality(keys \cap Dynamic)
    BY <1>1, <1>6
  <2> QED
    BY <2>1, <2>2, <2>3, FS_CardinalityType
<1>8. CASE e = d
  BY <1>8
<1>9. CASE e # d
  <2>1. Keeps(d, h) /\ h.index # <<>> /\ (h.moved <=> d.moved)
    <3>1. Keeps(d, h) /\ h.index = <<TableOf(d)>>
      BY <1>1, EnsureKeeps
    <3>2. h.moved <=> d.moved
      BY <1>1, EnsureKeeps
    <3> QED
      BY <3>1, <3>2
  <2>2. PICK t : e = [h EXCEPT !.entries = kept, !.index = <<t>>,
                      !.objects = @ - Cardinality(gone \cap Objects),
                      !.dynamic = @ - Cardinality(gone \cap Dynamic),
                      !.moved = @ \/ gone # {}]
    BY <1>9 DEF Retained
  <2> HIDE DEF e, h, gone
  <2>3. /\ DOMAIN e = Fields /\ e.entries = kept /\ e.index = <<t>>
        /\ e.objects = h.objects - Cardinality(gone \cap Objects)
        /\ e.dynamic = h.dynamic - Cardinality(gone \cap Dynamic)
        /\ e.moved <=> h.moved \/ gone # {}
    BY <2>1, <2>2 DEF Keeps, IsDict, Fields
  <2>4. e.objects = o /\ e.dynamic = y
    BY <2>1, <2>3 DEF Keeps
  <2> HIDE DEF o, y
  <2>5. IsDict(e) /\ CountsOK(e)
    BY <1>4, <1>5, <1>7, <2>3, <2>4 DEF IsDict, CountsOK
  <2>6. ~ e.moved => Range(e.entries) = all
    BY <1>4, <2>3 DEF gone
  <2> QED
    BY <2>1, <2>3, <2>5, <2>6 DEF DictOK, e
<1> QED
  BY <1>8, <1>9

\* A key comes before the others.
LEMMA PrependEach ==
    ASSUME NEW q \in Seq(Key), NEW k \in Key, OneEach(q), k \notin Range(q),
           Apart(Range(q) \cup {k})
    PROVE  LET r == InsertAt(q, 1, k)
           IN  r \in Seq(Key) /\ OneEach(r) /\ Range(r) = Range(q) \cup {k}
<1> DEFINE n == Len(q)
           r == <<k>> \o q
<1>1. InsertAt(q, 1, k) = r
  <2>1. InsertAt(q, 1, k) = SubSeq(q, 1, 0) \o <<k>> \o SubSeq(q, 1, n)
    BY DEF InsertAt
  <2>2. SubSeq(q, 1, 0) = <<>> /\ SubSeq(q, 1, n) = q /\ <<k>> \in Seq(Key)
    OBVIOUS
  <2>3. <<>> \o <<k>> = <<k>>
    BY <2>2, ConcatEmptySeq
  <2> QED
    BY <2>1, <2>2, <2>3
<1>2. /\ n \in Nat /\ DOMAIN q = 1 .. n /\ r \in Seq(Key) /\ Len(r) = n + 1
      /\ DOMAIN r = 1 .. n + 1 /\ r[1] = k
      /\ \A i \in 1 .. n : r[i + 1] = q[i]
  OBVIOUS
<1> HIDE DEF r, n
<1>3. \A i \in 1 .. n + 1 : i = 1 \/ (i - 1 \in 1 .. n /\ r[i] = q[i - 1])
  <2>1. ASSUME NEW i \in 1 .. n + 1, i # 1 PROVE i - 1 \in 1 .. n /\ (i - 1) + 1 = i
    BY <1>2, <2>1
  <2> QED
    BY <1>2, <2>1
<1>4. Range(r) = Range(q) \cup {k}
  <2>1. ASSUME NEW c \in Range(r) PROVE c \in Range(q) \cup {k}
    <3>1. PICK i \in 1 .. n + 1 : c = r[i]
      BY <1>2 DEF Range
    <3> QED
      BY <1>2, <1>3, <3>1 DEF Range
  <2>2. ASSUME NEW c \in Range(q) PROVE c \in Range(r)
    <3>1. PICK i \in 1 .. n : c = q[i]
      BY <1>2 DEF Range
    <3>2. i + 1 \in 1 .. n + 1 /\ r[i + 1] = c
      BY <1>2, <3>1
    <3> QED
      BY <1>2, <3>2 DEF Range
  <2>3. k \in Range(r)
    <3>1. 1 \in 1 .. n + 1
      BY <1>2
    <3> QED
      BY <1>2, <3>1 DEF Range
  <2> QED
    BY <2>1, <2>2, <2>3
<1>5. Once(r)
  <2>1. Once(q)
    BY EachMeans
  <2>2. \A i \in 1 .. n : q[i] # k
    BY <1>2 DEF Range
  <2>3. ASSUME NEW i \in 1 .. n + 1, NEW j \in 1 .. n + 1, r[i] = r[j] PROVE i = j
    <3>1. \A x, y \in 1 .. n : q[x] = q[y] => x = y
      BY <2>1 DEF Once, n
    <3>2. CASE i = 1 \/ j = 1
      BY <1>2, <1>3, <2>2, <2>3, <3>2
    <3>3. CASE i # 1 /\ j # 1
      <4>1. i - 1 \in 1 .. n /\ j - 1 \in 1 .. n /\ q[i - 1] = q[j - 1]
        BY <1>3, <2>3, <3>3
      <4>2. i - 1 = j - 1
        BY <3>1, <4>1
      <4> QED
        BY <4>2
    <3> QED
      BY <3>2, <3>3
  <2> QED
    BY <1>2, <2>3 DEF Once
<1>6. OneEach(r)
  BY <1>2, <1>4, <1>5, EachMeans
<1> QED
  BY <1>1, <1>2, <1>4, <1>6

\* An entry is moved to either end.
LEMMA MoveEach ==
    ASSUME NEW s \in Seq(Key), OneEach(s), NEW i \in 1 .. Len(s), NEW to \in {1, Len(s)}
    PROVE  LET r == InsertAt(RemoveAt(s, i), to, s[i])
           IN  r \in Seq(Key) /\ OneEach(r) /\ Range(r) = Range(s)
<1> DEFINE q == RemoveAt(s, i)
           k == s[i]
           n == Len(s)
           a == InsertAt(q, n, k)
           b == InsertAt(q, 1, k)
<1>1. /\ q \in Seq(Key) /\ OneEach(q) /\ Len(q) = n - 1 /\ Range(q) = Range(s) \ {k}
  BY RemoveAtEach
<1>2. n \in Nat /\ k \in Key /\ k \in Range(s)
  BY DEF Range
<1> HIDE DEF q, k
<1>3. a = Append(q, k)
  <2>1. a = SubSeq(q, 1, n - 1) \o <<k>> \o SubSeq(q, n, n - 1)
    BY <1>1 DEF InsertAt
  <2>2. SubSeq(q, 1, n - 1) = q
    BY <1>1, <1>2
  <2>3. SubSeq(q, n, n - 1) = <<>>
    BY <1>1, <1>2
  <2>4. q \o <<k>> = Append(q, k) /\ Append(q, k) \in Seq(Key)
    BY <1>1, <1>2
  <2>5. Append(q, k) \o <<>> = Append(q, k)
    BY <2>4, ConcatEmptySeq
  <2> QED
    BY <2>1, <2>2, <2>3, <2>4, <2>5
<1>4. Apart(Range(s))
  BY EachMeans
<1>5. \A c \in Range(q) : ~ Equal(c, k)
  BY <1>1, <1>2, <1>4 DEF Apart
<1>6. /\ Append(q, k) \in Seq(Key) /\ OneEach(Append(q, k))
      /\ Range(Append(q, k)) = Range(q) \cup {k}
  BY <1>1, <1>2, <1>5, AppendEach
<1>7. Range(q) \cup {k} = Range(s)
  BY <1>1, <1>2
<1>8. b \in Seq(Key) /\ OneEach(b) /\ Range(b) = Range(q) \cup {k}
  <2>1. k \notin Range(q) /\ Apart(Range(q) \cup {k})
    BY <1>1, <1>4, <1>7
  <2> QED
    BY <1>1, <1>2, <2>1, PrependEach
<1>9. InsertAt(q, to, k) = a \/ InsertAt(q, to, k) = b
  OBVIOUS
<1> HIDE DEF a, b
<1> QED
  BY <1>3, <1>6, <1>7, <1>8, <1>9 DEF q, k

\* A key is moved to either end (move_index).
LEMMA MovedIndexOK ==
    ASSUME NEW d, DictOK(d), NEW i \in 1 .. Len(d.entries), NEW to \in {1, Len(d.entries)}
    PROVE  LET e == MovedIndex(d, i, to)
           IN  /\ DictOK(e) /\ (d.moved => e.moved)
               /\ Range(e.entries) = Range(d.entries)
<1> DEFINE h == EnsurePythonHashIndex(d)
           s == d.entries
           r == InsertAt(RemoveAt(s, i), to, s[i])
           e == [h EXCEPT !.entries = r]
<1>1. /\ IsDict(d) /\ OneEach(s) /\ s \in Seq(Key)
      /\ d.objects = Cardinality(Range(s) \cap Objects) /\ d.dynamic = Cardinality(Range(s) \cap Dynamic)
  BY DEF DictOK, CountsOK, IsDict
<1>2. Keeps(d, h) /\ h.index = <<TableOf(d)>>
  BY <1>1, EnsureKeeps
<1>3. MovedIndex(d, i, to) = e
  BY <1>2 DEF MovedIndex, Keeps, IsDict, Fields
<1>4. r \in Seq(Key) /\ OneEach(r) /\ Range(r) = Range(s)
  BY <1>1, MoveEach
<1> HIDE DEF h, r
<1>5. /\ IsDict(e) /\ e.entries = r /\ e.objects = d.objects
      /\ e.dynamic = d.dynamic /\ e.index = h.index /\ (h.moved => e.moved)
  BY <1>2, <1>4, WithEntries DEF Keeps
<1> HIDE DEF e
<1>6. DictOK(e)
  BY <1>1, <1>2, <1>4, <1>5 DEF DictOK, CountsOK
<1> QED
  BY <1>2, <1>3, <1>4, <1>5, <1>6 DEF Keeps

\* The key of an entry is moved to either end (move_to_end).
LEMMA MovedToEndOK ==
    ASSUME NEW d, DictOK(d), NEW k, Has(d, k), NEW last
    PROVE  LET e == MovedToEnd(d, k, last)
           IN  /\ DictOK(e) /\ (d.moved => e.moved)
               /\ Range(e.entries) = Range(d.entries)
<1> DEFINE i == Position(d, k) + 1
           to == IF last THEN Len(d.entries) ELSE 1
<1>1. i \in 1 .. Len(d.entries)
  BY PositionMeans DEF DictOK, CountsOK
<1>2. to \in {1, Len(d.entries)} /\ MovedToEnd(d, k, last) = MovedIndex(d, i, to)
  BY DEF MovedToEnd
<1> HIDE DEF i, to
<1> QED
  BY <1>1, <1>2, MovedIndexOK

\* All keys are removed (clear).
LEMMA ClearedOK ==
    ASSUME NEW d, DictOK(d)
    PROVE  LET e == Cleared(d)
           IN  /\ DictOK(e) /\ (d.moved => e.moved)
               /\ ~ e.moved => e.entries = d.entries
<1> DEFINE b == NewDict(0, "unicode")
           e == [b EXCEPT !.moved = d.moved \/ d.entries # <<>>]
<1>1. DictOK(b) /\ b.entries = <<>> /\ ~ b.moved
  BY NewOK
<1>2. Cleared(d) = e
  BY DEF Cleared
<1> HIDE DEF b
<1>3. IsDict(b)
  BY <1>1 DEF DictOK, CountsOK
<1>4. Keeps(b, e) /\ (e.moved <=> d.moved \/ d.entries # <<>>)
  BY <1>1, <1>3 DEF IsDict, Fields, Keeps
<1> HIDE DEF e
<1>5. DictOK(e) /\ e.entries = <<>>
  BY <1>1, <1>4, KeepsOK DEF Keeps
<1> QED
  BY <1>2, <1>4, <1>5

\* The copy of a dict is in order (PyDict::clone).
LEMMA CopiedOK ==
    ASSUME NEW d, DictOK(d)
    PROVE  DictOK(Copied(d))
<1> DEFINE e == Copied(d)
<1>1. IsDict(d)
  BY DEF DictOK, CountsOK
<1>2. \/ e = NewDict(0, "unicode")
      \/ e = d
      \/ \E z : e = [d EXCEPT !.journal = None, !.size0 = z, !.kind0 = d.kind]
      \/ \E t, x : e = [d EXCEPT !.index = <<t>>, !.journal = None, !.kind = x]
  <2> DEFINE live == Len(d.entries)
             A == live = 0
             B == live # 0 /\ d.index = <<>> /\ d.journal # None /\ CopyDefinitelyPreservesLayout(d.journal, live)
             C == live # 0 /\ d.index = <<>> /\ d.journal # None /\ CopyDefinitelyCompactsLayout(d.journal, live)
             D == live # 0 /\ d.index = <<>> /\ d.journal = None /\ ~ RequiresPythonHashIndex(d)
             t == TableOf(d)
             u == IF CopyPreservesLayout(t) THEN t ELSE CompactedCopy(t)
             x == IF t.unicode THEN "unicode" ELSE "general"
  <2>1. CopiedWith(d, t) = [d EXCEPT !.index = <<u>>, !.journal = None, !.kind = x]
    BY DEF CopiedWith
  <2>2. e = CASE A -> NewDict(0, "unicode")
              [] B -> d
              [] C -> [d EXCEPT !.journal = None, !.size0 = SparseCopyTableSize(live), !.kind0 = d.kind]
              [] D -> d
              [] OTHER -> CopiedWith(d, t)
    BY DEF Copied
  <2> HIDE DEF A, B, C, D, t, u, x
  <2> QED
    BY <2>1, <2>2
<1>3. CASE e = NewDict(0, "unicode")
  BY <1>3, NewOK
<1>4. CASE e = d
  BY <1>4
<1>5. CASE \E z : e = [d EXCEPT !.journal = None, !.size0 = z, !.kind0 = d.kind]
  <2>1. PICK z : e = [d EXCEPT !.journal = None, !.size0 = z, !.kind0 = d.kind]
    BY <1>5
  <2>2. Keeps(d, [d EXCEPT !.journal = None, !.size0 = z, !.kind0 = d.kind])
    BY <1>1 DEF IsDict, Fields, Keeps
  <2> QED
    BY <2>1, <2>2, KeepsOK
<1>6. CASE \E t, x : e = [d EXCEPT !.index = <<t>>, !.journal = None, !.kind = x]
  <2>1. PICK t, x : e = [d EXCEPT !.index = <<t>>, !.journal = None, !.kind = x]
    BY <1>6
  <2>2. Keeps(d, [d EXCEPT !.index = <<t>>, !.journal = None, !.kind = x])
    BY <1>1 DEF IsDict, Fields, Keeps
  <2> QED
    BY <2>1, <2>2, KeepsOK
<1> QED
  BY <1>2, <1>3, <1>4, <1>5, <1>6

-----------------------------------------------------------------------------
(* Lookups *)

\* A probe of the table that the dict stands for meets the entries of the
\* hash and no other key.
TableGood(d) ==
    \A k \in Key :
        Candidates(TableOf(d), Hash[k]) \in SetToSeqs({c \in Range(d.entries) : Hash[c] = Hash[k]})

\* The tables of a dict, now and when an assignment has prepared it.
LEMMA TablesGood ==
    ASSUME ProbeFindsEveryKey, IsDict(dict)
    PROVE  TableGood(dict) /\ \A k \in Key : TableGood(PreparedStore(k))
<1>1. TableGood(dict)
  BY DEF ProbeFindsEveryKey, TableGood
<1>2. ASSUME NEW k \in Key PROVE TableGood(PreparedStore(k))
  <2> DEFINE p == PreparedStore(k)
  <2>1. Keeps(dict, p)
    BY StorePrepared DEF PreparedStore
  <2>2. p.entries = dict.entries
    BY <2>1 DEF Keeps
  <2>3. TableOf(p) \in {TableOf(PreparedStore(x)) : x \in Key}
    OBVIOUS
  <2> HIDE DEF p
  <2> QED
    BY <2>2, <2>3 DEF ProbeFindsEveryKey, TableGood, p
<1> QED
  BY <1>1, <1>2

\* Some entries in any order.
LEMMA Bucket ==
    ASSUME NEW d, DictOK(d), NEW S \in SUBSET Range(d.entries), NEW c \in SetToSeqs(S)
    PROVE  c \in Seq(Key) /\ Range(c) = S
<1>1. IsFiniteSet(Range(d.entries)) /\ Range(d.entries) \subseteq Key
  BY EntriesFinite DEF DictOK, CountsOK, IsDict
<1>2. IsFiniteSet(S) /\ S \subseteq Key
  BY <1>1, FS_Subset
<1> QED
  BY <1>2, ListsMean

\* What a probe of a table that is built collects.
LEMMA Reached ==
    ASSUME NEW d, DictOK(d), TableGood(d), d.index # <<>>, NEW k \in Key
    PROVE  LET c == Candidates(d.index[1], Hash[k])
           IN  c \in Seq(Key) /\ Range(c) = {e \in Range(d.entries) : Hash[e] = Hash[k]}
<1> DEFINE S == {e \in Range(d.entries) : Hash[e] = Hash[k]}
           c == Candidates(d.index[1], Hash[k])
<1>1. c \in SetToSeqs(S)
  BY TableBuilt DEF TableGood
<1>2. S \in SUBSET Range(d.entries)
  OBVIOUS
<1> HIDE DEF S, c
<1>3. c \in Seq(Key) /\ Range(c) = S
  BY <1>1, <1>2, Bucket
<1> QED
  BY <1>3 DEF S, c

\* What a lookup must answer: an entry equal to the key, or none if there
\* is none.
Right(d, k, hit) ==
    IF hit = None THEN \A c \in Range(d.entries) : ~ Equal(c, k)
    ELSE hit \in Range(d.entries) /\ Equal(hit, k)

Native(d, k) == IF Has(d, k) THEN k ELSE None

\* The native map is right if no other entry can be equal to the key.
LEMMA NativeRight ==
    ASSUME NEW d, NEW k \in Key,
           Has(d, k) \/ \A c \in Range(d.entries) : c # k => ~ Equal(c, k)
    PROVE  Right(d, k, Native(d, k))
BY Kinds DEF Right, Native, Has, Equal

\* The native map is right where dict_lookup asks nothing else.
LEMMA ImmediateRight ==
    ASSUME NEW d, DictOK(d), NEW k \in Key, Immediate(d, k)
    PROVE  Right(d, k, Native(d, k))
<1>1. Counted(d)
  BY CountsMean DEF DictOK
<1>2. CASE Has(d, k)
  BY <1>2, NativeRight
<1>3. ASSUME k \notin Dynamic, d.dynamic = 0, NEW c \in Range(d.entries), c # k
      PROVE  ~ Equal(c, k)
  <2>1. Range(d.entries) \cap Dynamic = {}
    BY <1>1, <1>3 DEF Counted
  <2> QED
    BY <1>3, <2>1, EqualDynamic
<1>4. CASE k \in Dynamic /\ d.entries = <<>>
  <2>1. Range(d.entries) = {}
    BY <1>1, <1>4 DEF Counted
  <2> QED
    BY <2>1, NativeRight
<1>5. Has(d, k) \/ (k \notin Dynamic /\ d.dynamic = 0) \/ (k \in Dynamic /\ d.entries = <<>>)
  BY DEF Immediate, MayHaveUserEqCandidate
<1> QED
  BY <1>2, <1>3, <1>4, <1>5, NativeRight

\* No key that may run __eq__ has the hash of the new key: no lookup.
LEMMA NoDedupRight ==
    ASSUME NEW d, DictOK(d), TableGood(d), NEW k \in Key, ~ NeedsDedup(d, k)
    PROVE  Right(d, k, Native(d, k))
<1>1. Counted(d)
  BY CountsMean DEF DictOK
<1>2. k \notin Dynamic /\ ~ HasObjectHashCandidate(d, k)
  BY DEF NeedsDedup
<1>3. \A e \in Range(d.entries) \cap Dynamic : Hash[e] # Hash[k]
  <2>1. CASE d.index # <<>>
    <3>1. ~ Meets(d, k, Dynamic)
      BY <1>2, <2>1 DEF HasObjectHashCandidate
    <3>2. Range(Candidates(d.index[1], Hash[k])) \cap Dynamic = {}
      BY <2>1, <3>1 DEF Meets
    <3> QED
      BY <2>1, <3>2, Reached
  <2>2. CASE d.index = <<>>
    <3>1. ~ Mixed(Range(d.entries))
      BY <2>2 DEF DictOK
    <3>2. Range(d.entries) \cap Dynamic \subseteq Objects
      BY <3>1, Kinds DEF Mixed
    <3> QED
      BY <1>2, <2>2, <3>2 DEF HasObjectHashCandidate
  <2> QED
    BY <2>1, <2>2
<1>4. ASSUME NEW c \in Range(d.entries), c # k PROVE ~ Equal(c, k)
  <2> SUFFICES ASSUME Equal(c, k) PROVE FALSE
    OBVIOUS
  <2>1. c \in Dynamic
    BY <1>2, <1>4, EqualDynamic
  <2>2. Hash[c] = Hash[k]
    BY EqualSym
  <2> QED
    BY <1>3, <2>1, <2>2
<1> QED
  BY <1>4, NativeRight

\* The candidates of a lookup are entries, and every entry that is equal to
\* the key is one of them.
LEMMA CandidatesComplete ==
    ASSUME NEW d, DictOK(d), TableGood(d), NEW k \in Key, ~ Immediate(d, k),
           ~ NeedsPythonHashIndex(d, k), NEW c \in UserEqCandidates(d, k)
    PROVE  /\ c \in Seq(Key) /\ Range(c) \subseteq Range(d.entries)
           /\ \A e \in Range(d.entries) : Equal(e, k) => e \in Range(c)
<1> DEFINE R == Range(d.entries)
<1>1. Counted(d)
  BY CountsMean DEF DictOK
<1>2. CASE d.index # <<>>
  <2>1. c = Candidates(d.index[1], Hash[k])
    BY <1>2 DEF UserEqCandidates
  <2>2. c \in Seq(Key) /\ Range(c) = {e \in R : Hash[e] = Hash[k]}
    BY <1>2, <2>1, Reached
  <2> QED
    BY <2>2, EqualSym
<1>3. CASE d.index = <<>>
  <2> DEFINE S == {e \in R \cap Objects : Hash[e] = Hash[k]}
  <2>1. c \in SetToSeqs(S)
    BY <1>3 DEF UserEqCandidates
  <2>2. c \in Seq(Key) /\ Range(c) = S
    <3>1. S \in SUBSET R
      OBVIOUS
    <3> HIDE DEF S
    <3> QED
      BY <2>1, <3>1, Bucket
  <2>3. ~ Mixed(R)
    BY <1>3 DEF DictOK
  <2>4. R \subseteq Objects
    <3>1. CASE k \in Objects
      <4>1. ~ (Len(d.entries) > d.objects)
        BY <1>3, <3>1 DEF NeedsPythonHashIndex
      <4> QED
        BY <1>1, <4>1 DEF Counted
    <3>2. CASE k \in Nested
      <4>1. ~ (Len(d.entries) > d.dynamic)
        BY <1>3, <3>2 DEF NeedsPythonHashIndex
      <4>2. R \subseteq Dynamic
        BY <1>1, <4>1 DEF Counted
      <4> QED
        BY <2>3, <4>2, Kinds DEF Mixed
    <3>3. CASE k \notin Dynamic
      <4>1. d.dynamic # 0
        BY <3>3 DEF Immediate
      <4>2. R \cap Dynamic # {}
        BY <1>1, <4>1 DEF Counted
      <4> QED
        BY <2>3, <4>2, Kinds DEF Mixed
    <3> QED
      BY <3>1, <3>2, <3>3, Kinds
  <2> QED
    BY <2>2, <2>4, EqualSym
<1> QED
  BY <1>2, <1>3

-----------------------------------------------------------------------------
(* Steps *)

\* What a step says of a lookup that ends in it.
AnswerStep ==
    answer' # None =>
        LET equals == {c \in Range(dict.entries) : Equal(c, answer'.key)}
        IN  IF answer'.hit = None THEN equals = {} ELSE answer'.hit \in equals

\* The version is read again.
LEMMA ResetOK ==
    ASSUME NEW d, DictOK(d), NEW b
    PROVE  LET e == [d EXCEPT !.moved = b]
           IN  DictOK(e) /\ e.entries = d.entries /\ (e.moved <=> b)
<1> DEFINE e == [d EXCEPT !.moved = b]
<1>1. IsDict(d)
  BY DEF DictOK, CountsOK
<1>2. /\ IsDict(e) /\ e.entries = d.entries /\ e.objects = d.objects
      /\ e.dynamic = d.dynamic /\ e.index = d.index /\ (e.moved <=> b)
  BY <1>1 DEF IsDict, Fields
<1> HIDE DEF e
<1>3. DictOK(e)
  BY <1>2 DEF DictOK, CountsOK
<1> QED
  BY <1>2, <1>3 DEF e

\* What an operation makes of the answer of its lookup.
LEMMA AppliedOK ==
    ASSUME NEW d, DictOK(d), NEW op \in Operations, NEW k \in Key, NEW hit, Right(d, k, hit)
    PROVE  DictOK(Applied(d, op, k, hit))
<1>1. Range(d.entries) \subseteq Key
  BY EntriesFinite DEF DictOK, CountsOK, IsDict
<1>2. CASE op = "set" \/ (op = "setdefault" /\ hit = None)
  <2> DEFINE x == IF hit # None THEN hit ELSE k
  <2>1. Applied(d, op, k, hit) = WithInserted(d, x)
    BY <1>2 DEF Applied
  <2>2. x \in Key /\ (Has(d, x) \/ \A c \in Range(d.entries) : ~ Equal(c, x))
    BY <1>1 DEF Right, Has
  <2> HIDE DEF x
  <2>3. DictOK(WithInserted(d, x))
    BY <2>2, StoredOK
  <2> QED
    BY <2>1, <2>3
<1>3. CASE op = "pop" /\ hit # None
  <2>1. Applied(d, op, k, hit) = ShiftRemoved(d, hit)
    BY <1>3 DEF Applied
  <2>2. Has(d, hit)
    BY <1>3 DEF Right, Has
  <2> QED
    BY <2>1, <2>2, ShiftRemovedOK
<1>4. CASE op \in {"move_first", "move_last"} /\ hit # None
  <2>1. Applied(d, op, k, hit) = MovedToEnd(d, hit, op = "move_last")
    BY <1>4 DEF Applied
  <2>2. Has(d, hit)
    BY <1>4 DEF Right, Has
  <2> QED
    BY <2>1, <2>2, MovedToEndOK
<1>5. CASE /\ ~ (op = "set" \/ (op = "setdefault" /\ hit = None))
           /\ ~ (op \in {"pop", "move_first", "move_last"} /\ hit # None)
  <2>1. Applied(d, op, k, hit) = d
    BY <1>5 DEF Applied
  <2> QED
    BY <2>1
<1> QED
  BY <1>2, <1>3, <1>4, <1>5

\* A lookup ends with the right answer, and its operation is applied.
LEMMA FinishOK ==
    ASSUME NEW d, DictOK(d), d.entries = dict.entries, NEW op \in Operations, NEW k \in Key,
           NEW hit, Right(d, k, hit), Finish(d, op, k, hit)
    PROVE  IInv' /\ AnswerStep
<1> DEFINE a == Applied(d, op, k, hit)
<1>1. dict' = [a EXCEPT !.moved = FALSE] /\ call' = None /\ answer' = [key |-> k, hit |-> hit]
  BY DEF Finish, Becomes
<1>2. DictOK(a)
  BY AppliedOK
<1> HIDE DEF a
<1>3. DictOK(dict')
  BY <1>1, <1>2, ResetOK
<1>4. CallOK(dict', call')
  BY <1>1 DEF CallOK
<1>5. AnswerStep
  <2>1. answer'.key = k /\ answer'.hit = hit
    BY <1>1
  <2> QED
    BY <2>1 DEF AnswerStep, Right
<1> QED
  BY <1>3, <1>4, <1>5 DEF IInv

\* A lookup answers at once, or collects candidates and waits for __eq__.
LEMMA ProbeOK ==
    ASSUME NEW d, DictOK(d), TableGood(d), d.entries = dict.entries,
           NEW op \in Operations, NEW k \in Key,
           Immediate(d, k) \/ ~ NeedsPythonHashIndex(d, k), Probe(d, op, k)
    PROVE  IInv' /\ AnswerStep
<1>1. CASE Immediate(d, k)
  <2>1. Finish(d, op, k, Native(d, k))
    BY <1>1 DEF Probe, Native
  <2>2. Right(d, k, Native(d, k))
    BY <1>1, ImmediateRight
  <2> QED
    BY <2>1, <2>2, FinishOK
<1>2. CASE ~ Immediate(d, k)
  <2>1. PICK c \in UserEqCandidates(d, k) :
           \/ c = <<>> /\ Finish(d, op, k, None)
           \/ /\ c # <<>> /\ Becomes([d EXCEPT !.moved = FALSE])
              /\ call' = [op |-> op, key |-> k, candidates |-> c]
              /\ answer' = None
    BY <1>2 DEF Probe
  <2>2. /\ c \in Seq(Key) /\ Range(c) \subseteq Range(d.entries)
        /\ \A e \in Range(d.entries) : Equal(e, k) => e \in Range(c)
    BY <1>2, CandidatesComplete
  <2>3. CASE c = <<>> /\ Finish(d, op, k, None)
    <3>1. Range(c) = {}
      BY <2>3 DEF Range
    <3>2. Right(d, k, None)
      BY <2>2, <3>1 DEF Right
    <3> QED
      BY <2>3, <3>2, FinishOK
  <2>4. CASE /\ c # <<>> /\ Becomes([d EXCEPT !.moved = FALSE])
             /\ call' = [op |-> op, key |-> k, candidates |-> c]
             /\ answer' = None
    <3>1. dict' = [d EXCEPT !.moved = FALSE]
      BY <2>4 DEF Becomes
    <3>2. DictOK(dict') /\ dict'.entries = d.entries
      BY <3>1, ResetOK
    <3>3. call' \in Waiting /\ call'.candidates = c /\ call'.key = k
      BY <2>2, <2>4 DEF Waiting
    <3>4. Listed(dict', call')
      BY <2>2, <3>2, <3>3 DEF Listed
    <3>5. CallOK(dict', call')
      BY <2>4, <3>3, <3>4 DEF CallOK
    <3>6. AnswerStep
      BY <2>4 DEF AnswerStep
    <3> QED
      BY <3>2, <3>5, <3>6 DEF IInv
  <2> QED
    BY <2>1, <2>3, <2>4
<1> QED
  BY <1>1, <1>2

\* A lookup begins or starts over.
LEMMA LookOK ==
    ASSUME NEW d, DictOK(d), TableGood(d), d.entries = dict.entries,
           NEW op \in Operations, NEW k \in Key, Look(d, op, k)
    PROVE  IInv' /\ AnswerStep
<1> DEFINE a == Activated(d, k)
<1>1. IsDict(d)
  BY DEF DictOK, CountsOK
<1>2. Keeps(d, a) /\ TableOf(a) = TableOf(d)
  BY <1>1, ActivatedKeeps
<1>3. DictOK(a) /\ a.entries = d.entries
  BY <1>2, KeepsOK DEF Keeps
<1>4. TableGood(a)
  BY <1>2, <1>3 DEF TableGood
<1>5. Immediate(a, k) \/ ~ NeedsPythonHashIndex(a, k)
  <2>1. CASE Immediate(d, k) \/ ~ NeedsPythonHashIndex(d, k)
    BY <2>1 DEF Activated
  <2>2. CASE ~ Immediate(d, k) /\ NeedsPythonHashIndex(d, k)
    <3>1. a = EnsurePythonHashIndex(d)
      BY <2>2 DEF Activated
    <3>2. a.index = <<TableOf(d)>>
      BY <1>1, <3>1, EnsureKeeps
    <3> QED
      BY <3>2 DEF NeedsPythonHashIndex
  <2> QED
    BY <2>1, <2>2
<1>6. Probe(a, op, k)
  BY DEF Look
<1> HIDE DEF a
<1> QED
  BY <1>3, <1>4, <1>5, <1>6, ProbeOK

\* An operation begins.
LEMMA BeginOK ==
    ASSUME IInv, ProbeFindsEveryKey, NEW op \in Operations, NEW k \in Key, Begin(op, k)
    PROVE  IInv' /\ AnswerStep
<1>1. DictOK(dict) /\ IsDict(dict)
  BY DEF IInv, DictOK, CountsOK
<1>2. CASE op # "set" /\ Look(dict, op, k)
  <2>1. TableGood(dict)
    BY <1>1, TablesGood
  <2> QED
    BY <1>1, <1>2, <2>1, LookOK
<1>3. CASE op = "set" /\ Store(PreparedStore(k), k)
  <2> DEFINE p == PreparedStore(k)
  <2>1. Keeps(dict, p)
    BY <1>1, StorePrepared DEF PreparedStore
  <2>2. DictOK(p) /\ p.entries = dict.entries
    BY <1>1, <2>1, KeepsOK DEF Keeps
  <2>3. TableGood(p)
    BY <1>1, TablesGood
  <2>4. \/ NeedsDedup(p, k) /\ Look(p, "set", k)
        \/ ~ NeedsDedup(p, k) /\ Finish(p, "set", k, Native(p, k))
    BY <1>3 DEF Store, Native
  <2>5. "set" \in Operations
    BY DEF Operations
  <2> HIDE DEF p
  <2>6. CASE NeedsDedup(p, k) /\ Look(p, "set", k)
    BY <2>2, <2>3, <2>5, <2>6, LookOK
  <2>7. CASE ~ NeedsDedup(p, k) /\ Finish(p, "set", k, Native(p, k))
    <3>1. Right(p, k, Native(p, k))
      BY <2>2, <2>3, <2>7, NoDedupRight
    <3> QED
      BY <2>2, <2>5, <2>7, <3>1, FinishOK
  <2> QED
    BY <2>4, <2>6, <2>7
<1> QED
  BY <1>2, <1>3 DEF Begin

\* The first candidate is not equal to the key: the others remain.
LEMMA NextCandidate ==
    ASSUME NEW d, NEW c \in Waiting, c.candidates # <<>>, Listed(d, c),
           ~ Equal(Head(c.candidates), c.key)
    PROVE  \A e \in Range(d.entries) : Equal(e, c.key) => e \in Range(Tail(c.candidates))
<1> DEFINE s == c.candidates
<1>1. s \in Seq(Key) /\ Len(s) \in Nat /\ DOMAIN s = 1 .. Len(s)
  BY DEF Waiting
<1> SUFFICES ASSUME NEW e \in Range(d.entries), Equal(e, c.key)
             PROVE  e \in Range(Tail(s))
  OBVIOUS
<1>2. e \in Range(s)
  BY DEF Listed
<1>3. PICK i \in 1 .. Len(s) : e = s[i]
  BY <1>1, <1>2 DEF Range
<1>4. i # 1
  BY <1>1, <1>3
<1>5. i - 1 \in DOMAIN Tail(s) /\ Tail(s)[i - 1] = e
  BY <1>1, <1>3, <1>4
<1> QED
  BY <1>5 DEF Range

\* __eq__ returned.
LEMMA ComparedOK ==
    ASSUME IInv, ProbeFindsEveryKey, Compared
    PROVE  IInv' /\ AnswerStep
<1> DEFINE c == Head(call.candidates)
<1>1. DictOK(dict) /\ IsDict(dict) /\ CallOK(dict, call)
  BY DEF IInv, DictOK, CountsOK
<1>2. call # None
  BY DEF Compared
<1>3. /\ call \in Waiting /\ call.candidates # <<>> /\ (~ dict.moved => Listed(dict, call))
  BY <1>1, <1>2 DEF CallOK
<1>4. call.op \in Operations /\ call.key \in Key /\ call.candidates \in Seq(Key)
  BY <1>3 DEF Waiting
<1>5. CASE dict.moved /\ Look(dict, call.op, call.key)
  <2>1. TableGood(dict)
    BY <1>1, TablesGood
  <2> QED
    BY <1>1, <1>4, <1>5, <2>1, LookOK
<1>6. CASE /\ ~ dict.moved /\ (Equal(c, call.key) \/ Len(call.candidates) = 1)
           /\ Finish(dict, call.op, call.key, IF Equal(c, call.key) THEN c ELSE None)
  <2>1. Right(dict, call.key, IF Equal(c, call.key) THEN c ELSE None)
    <3>1. Listed(dict, call)
      BY <1>3, <1>6
    <3>2. c \in Range(call.candidates)
      BY <1>3, <1>4 DEF Range
    <3>3. c \in Range(dict.entries)
      BY <3>1, <3>2 DEF Listed
    <3>4. CASE Equal(c, call.key)
      <4>1. c # None
        BY <1>1, <3>3, EntriesFinite, Kinds DEF DictOK, CountsOK, IsDict
      <4> QED
        BY <3>3, <3>4, <4>1 DEF Right
    <3>5. CASE ~ Equal(c, call.key)
      <4>1. Len(call.candidates) = 1
        BY <1>6, <3>5
      <4>2. Range(Tail(call.candidates)) = {}
        BY <1>4, <4>1 DEF Range
      <4>3. \A e \in Range(dict.entries) : Equal(e, call.key) => e \in Range(Tail(call.candidates))
        BY <1>3, <3>1, <3>5, NextCandidate
      <4> QED
        BY <3>5, <4>2, <4>3 DEF Right
    <3> QED
      BY <3>4, <3>5
  <2> HIDE DEF c
  <2> QED
    BY <1>1, <1>4, <1>6, <2>1, FinishOK
<1>7. CASE /\ ~ dict.moved /\ ~ Equal(c, call.key) /\ Len(call.candidates) > 1
           /\ call' = [call EXCEPT !.candidates = Tail(@)]
           /\ answer' = None
           /\ UNCHANGED <<dict, inserts>>
  <2> DEFINE r == Tail(call.candidates)
  <2>1. Listed(dict, call)
    BY <1>3, <1>7
  <2>2. \A e \in Range(dict.entries) : Equal(e, call.key) => e \in Range(r)
    BY <1>3, <1>7, <2>1, NextCandidate
  <2>3. r \in Seq(Key) /\ r # <<>> /\ Range(r) \subseteq Range(call.candidates)
    <3>1. r \in Seq(Key) /\ Len(r) = Len(call.candidates) - 1 /\ Len(call.candidates) \in Nat
      BY <1>3, <1>4
    <3>2. \A i \in 1 .. Len(r) : r[i] = call.candidates[i + 1]
      BY <1>3, <1>4
    <3>3. \A i \in 1 .. Len(r) : i + 1 \in DOMAIN call.candidates
      BY <1>4, <3>1
    <3>4. Range(r) \subseteq Range(call.candidates)
      <4>1. DOMAIN r = 1 .. Len(r)
        BY <3>1
      <4> HIDE DEF r
      <4> QED
        BY <3>2, <3>3, <4>1 DEF Range
    <3>5. r # <<>>
      <4>1. Len(r) > 0
        BY <1>7, <3>1
      <4> HIDE DEF r
      <4> QED
        BY <4>1
    <3> QED
      BY <3>1, <3>4, <3>5
  <2> HIDE DEF r
  <2>4. call' \in Waiting /\ call'.candidates = r /\ call'.key = call.key
    BY <1>3, <1>7, <2>3 DEF Waiting, r
  <2>5. Listed(dict', call')
    BY <1>7, <2>1, <2>2, <2>3, <2>4 DEF Listed
  <2>6. CallOK(dict', call')
    BY <2>3, <2>4, <2>5 DEF CallOK
  <2>7. DictOK(dict')
    BY <1>1, <1>7
  <2>8. AnswerStep
    BY <1>7 DEF AnswerStep
  <2> QED
    BY <2>6, <2>7, <2>8 DEF IInv
<1> QED
  BY <1>5, <1>6, <1>7 DEF Compared

\* Other operations, between two operations that look a key up and inside
\* __eq__.
LEMMA QuietlyOK ==
    ASSUME IInv, NEW d, Quietly(d), DictOK(d),
           call # None /\ ~ d.moved => ~ dict.moved /\ Range(d.entries) = Range(dict.entries)
    PROVE  IInv' /\ AnswerStep
<1> DEFINE b == d.moved /\ call # None
<1>1. dict' = [d EXCEPT !.moved = b] /\ call' = call /\ answer' = None
  BY DEF Quietly, Becomes, DictOK, CountsOK, IsDict, Fields
<1> HIDE DEF b
<1>2. DictOK(dict') /\ dict'.entries = d.entries /\ (dict'.moved <=> b)
  BY <1>1, ResetOK
<1>3. CallOK(dict', call')
  <2> SUFFICES ASSUME call # None
               PROVE  /\ call \in Waiting /\ call.candidates # <<>>
                      /\ ~ dict'.moved => Listed(dict', call)
    BY <1>1 DEF CallOK
  <2>1. call \in Waiting /\ call.candidates # <<>> /\ (~ dict.moved => Listed(dict, call))
    BY DEF IInv, CallOK
  <2>2. ASSUME ~ dict'.moved PROVE Listed(dict', call)
    <3>1. ~ dict.moved /\ Range(dict'.entries) = Range(dict.entries)
      BY <1>2, <2>2 DEF b
    <3> QED
      BY <2>1, <3>1 DEF Listed
  <2> QED
    BY <2>1, <2>2
<1>4. AnswerStep
  BY <1>1 DEF AnswerStep
<1> QED
  BY <1>2, <1>3, <1>4 DEF IInv

\* __eq__ raised.
LEMMA EqRaisesOK ==
    ASSUME IInv, EqRaises
    PROVE  IInv' /\ AnswerStep
<1>1. dict' = [dict EXCEPT !.moved = FALSE] /\ call' = None /\ answer' = None
  BY DEF EqRaises, Becomes
<1>2. DictOK(dict')
  BY <1>1, ResetOK DEF IInv
<1>3. CallOK(dict', call')
  BY <1>1 DEF CallOK
<1>4. AnswerStep
  BY <1>1 DEF AnswerStep
<1> QED
  BY <1>2, <1>3, <1>4 DEF IInv

\* An assignment inside __eq__.
LEMMA NestedStoreOK ==
    ASSUME IInv, NEW k \in Key, NestedStore(k)
    PROVE  IInv' /\ AnswerStep
<1> DEFINE equals == {c \in Range(dict.entries) : Equal(c, k)}
           x == IF equals = {} THEN k ELSE CHOOSE c \in equals : TRUE
           p == PreparedStore(k)
           d == WithInserted(p, x)
<1>1. DictOK(dict) /\ IsDict(dict) /\ Range(dict.entries) \subseteq Key
  BY EntriesFinite DEF IInv, DictOK, CountsOK, IsDict
<1>2. Quietly(d)
  BY DEF NestedStore
<1>3. Keeps(dict, p)
  BY <1>1, StorePrepared DEF PreparedStore
<1>4. DictOK(p) /\ p.entries = dict.entries /\ (dict.moved => p.moved)
  BY <1>1, <1>3, KeepsOK DEF Keeps
<1>5. x \in Key /\ (x \in Range(dict.entries) \/ \A c \in Range(dict.entries) : ~ Equal(c, x))
  <2>1. CASE equals = {}
    BY <2>1
  <2>2. CASE equals # {}
    <3>1. (CHOOSE c \in equals : TRUE) \in equals
      BY <2>2
    <3>2. x \in equals
      BY <2>2, <3>1
    <3> QED
      BY <1>1, <3>2
  <2> QED
    BY <2>1, <2>2
<1> HIDE DEF x, p
<1>6. Has(p, x) \/ \A c \in Range(p.entries) : ~ Equal(c, x)
  BY <1>4, <1>5 DEF Has
<1>7. DictOK(d) /\ (p.moved => d.moved) /\ (~ d.moved => d.entries = p.entries)
  BY <1>4, <1>5, <1>6, StoredOK
<1> HIDE DEF d
<1> QED
  BY <1>2, <1>4, <1>7, QuietlyOK

\* The invariant is kept by every step that starts with a table whose
\* probes meet every entry.
LEMMA StepOK ==
    ASSUME IInv, ProbeFindsEveryKey, [Next]_vars
    PROVE  IInv' /\ [AnswerStep]_vars
<1>1. DictOK(dict) /\ IsDict(dict)
  BY DEF IInv, DictOK, CountsOK
<1>2. ASSUME NEW op \in Operations, NEW k \in Key, Begin(op, k) PROVE IInv' /\ AnswerStep
  BY <1>2, BeginOK
<1>3. CASE Compared
  BY <1>3, ComparedOK
<1>4. CASE EqRaises
  BY <1>4, EqRaisesOK
<1>5. ASSUME NEW k \in Key, NestedStore(k) PROVE IInv' /\ AnswerStep
  BY <1>5, NestedStoreOK
<1>6. ASSUME NEW k \in Key, ShiftRemove(k) PROVE IInv' /\ AnswerStep
  <2>1. Has(dict, k) /\ Quietly(ShiftRemoved(dict, k))
    BY <1>6 DEF ShiftRemove
  <2>2. DictOK(ShiftRemoved(dict, k)) /\ ShiftRemoved(dict, k).moved
    BY <1>1, <2>1, ShiftRemovedOK
  <2> QED
    BY <2>1, <2>2, QuietlyOK
<1>7. ASSUME NEW k \in Key, SwapRemove(k) PROVE IInv' /\ AnswerStep
  <2>1. Has(dict, k) /\ Quietly(SwapRemoved(dict, k))
    BY <1>7 DEF SwapRemove
  <2>2. DictOK(SwapRemoved(dict, k)) /\ SwapRemoved(dict, k).moved
    BY <1>1, <2>1, SwapRemovedOK
  <2> QED
    BY <2>1, <2>2, QuietlyOK
<1>8. ASSUME NEW k \in Key, NEW last \in BOOLEAN, NestedMove(k, last) PROVE IInv' /\ AnswerStep
  <2> DEFINE d == MovedToEnd(dict, k, last)
  <2>1. Has(dict, k) /\ Quietly(d)
    BY <1>8 DEF NestedMove
  <2>2. DictOK(d) /\ (dict.moved => d.moved) /\ Range(d.entries) = Range(dict.entries)
    BY <1>1, <2>1, MovedToEndOK
  <2> HIDE DEF d
  <2> QED
    BY <2>1, <2>2, QuietlyOK
<1>9. CASE PopItem
  <2>1. dict.entries # <<>> /\ Quietly(Popped(dict))
    BY <1>9 DEF PopItem
  <2>2. DictOK(Popped(dict)) /\ Popped(dict).moved
    BY <1>1, <2>1, PoppedOK
  <2> QED
    BY <2>1, <2>2, QuietlyOK
<1>10. ASSUME NEW keys \in SUBSET Range(dict.entries), ShiftRemoveMany(keys)
       PROVE  IInv' /\ AnswerStep
  <2>1. PICK kept \in InOrder(dict.entries, keys) : Quietly(Retained(dict, kept))
    BY <1>10 DEF ShiftRemoveMany
  <2> DEFINE d == Retained(dict, kept)
  <2>2. /\ DictOK(d) /\ (dict.moved => d.moved)
        /\ ~ d.moved => Range(d.entries) = Range(dict.entries)
    BY <1>1, RetainedOK
  <2>3. Quietly(d)
    BY <2>1
  <2> HIDE DEF d
  <2> QED
    BY <2>2, <2>3, QuietlyOK
<1>11. CASE Clear
  <2> DEFINE d == Cleared(dict)
  <2>1. Quietly(d)
    BY <1>11 DEF Clear
  <2>2. DictOK(d) /\ (dict.moved => d.moved) /\ (~ d.moved => d.entries = dict.entries)
    BY <1>1, ClearedOK
  <2> HIDE DEF d
  <2> QED
    BY <2>1, <2>2, QuietlyOK
<1>12. CASE Copy
  <2>1. call = None /\ Quietly(Copied(dict))
    BY <1>12 DEF Copy
  <2>2. DictOK(Copied(dict))
    BY <1>1, CopiedOK
  <2> QED
    BY <2>1, <2>2, QuietlyOK
<1>13. CASE UNCHANGED vars
  BY <1>13 DEF vars, IInv
<1> QED
  BY <1>2, <1>3, <1>4, <1>5, <1>6, <1>7, <1>8, <1>9, <1>10, <1>11, <1>12, <1>13 DEF Next

\* A new dict has no keys.
LEMMA InitOK ==
    ASSUME Init
    PROVE  IInv
<1>1. PICK size, kind : dict = NewDict(size, kind)
  BY DEF Init
<1>2. DictOK(dict)
  BY <1>1, NewOK
<1>3. CallOK(dict, call)
  BY DEF Init, CallOK
<1> QED
  BY <1>2, <1>3 DEF IInv

-----------------------------------------------------------------------------
(* Results *)

(* Every mutating method keeps the counters, builds the table when keys of *)
(* different representation meet, and changes structural_version when it   *)
(* changes the set of keys; a waiting lookup of a dict that did not move   *)
(* still has every equal entry before it.                                  *)
THEOREM DictInvariant == Spec /\ []ProbeFindsEveryKey => []IInv
<1>1. Init => IInv
  BY InitOK
<1>2. IInv /\ ProbeFindsEveryKey /\ [Next]_vars => IInv'
  BY StepOK
<1> QED
  BY <1>1, <1>2, PTL DEF Spec

(* No two entries have equal keys, whatever __eq__ did to the dict while   *)
(* an assignment was looking for the key (dict_insert_value).              *)
THEOREM NoEqualEntries == Spec /\ []ProbeFindsEveryKey => []OneEntryPerKey
<1>1. IInv => OneEntryPerKey
  <2> SUFFICES ASSUME IInv PROVE OneEntryPerKey
    OBVIOUS
  <2>1. OneEach(dict.entries) /\ dict.entries \in Seq(Key)
    BY DEF IInv, DictOK, CountsOK, IsDict
  <2> QED
    BY <2>1 DEF OneEntryPerKey, OneEach
<1> QED
  BY <1>1, DictInvariant, PTL

(* A lookup answers for the dict as it is when the lookup ends: an entry   *)
(* equal to the key, or none only if there is none (dict_lookup).          *)
THEOREM AnswersCurrent == Spec /\ []ProbeFindsEveryKey => AnswerIsCurrent
<1>1. IInv /\ ProbeFindsEveryKey /\ [Next]_vars => [AnswerStep]_vars
  BY StepOK
<1>2. [AnswerStep]_vars =>
        [answer' # None =>
            LET equals == {c \in Range(dict.entries) : Equal(c, answer'.key)}
            IN IF answer'.hit = None THEN equals = {} ELSE answer'.hit \in equals]_vars
  BY DEF AnswerStep
<1> QED
  BY <1>1, <1>2, DictInvariant, PTL DEF Spec, AnswerIsCurrent
=============================================================================
