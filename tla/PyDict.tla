------------------------------- MODULE PyDict -------------------------------
(***************************************************************************)
(* A dict of pyrust (prelude.rs, PyDict) and the operations of the         *)
(* interpreter on it (collection_keys).  Most dicts never need the key     *)
(* table of DictTable: it is built when keys of different representation   *)
(* meet, and until then a dict remembers only the size of its base table   *)
(* and, once a key was deleted, a journal.                                 *)
(*                                                                         *)
(* Looking a key up may call __eq__, and __eq__ is any code: it may use    *)
(* this dict.  `call` is the operation whose lookup is waiting for such a  *)
(* call; every other operation may happen meanwhile, completely.           *)
(***************************************************************************)
EXTENDS KeyTable, FiniteSetsExt

CONSTANTS
    Objects,      \* keys that are instances of user classes
    Nested,       \* tuples and frozensets that contain such an instance
    Tuples,       \* tuples and frozensets that contain none
    Same,         \* pairs of distinct keys that are equal by a user's __eq__
    Capacities,   \* sizes that dicts are presized for
    FromKeys,     \* sizes of dicts and sets that dict.fromkeys() reads
    MaxInserts    \* bound: insertions of new keys

ASSUME PyDictAssumption ==
    /\ Objects \cup Nested \cup Tuples \subseteq Key \ Strings
    /\ Objects \cap Nested = {} /\ Tuples \cap (Objects \cup Nested) = {}
    /\ Same \subseteq Key \X Key
    /\ \A p \in Same : Hash[p[1]] = Hash[p[2]] /\ <<p[2], p[1]>> \in Same
    /\ \A p \in Same : \E i \in 1 .. 2 : p[i] \in Objects \cup Nested
    /\ MaxInserts \in Nat

VARIABLES
    dict,      \* the PyDict
    call,      \* the operation that waits for __eq__, or None
    answer,    \* what the lookup that ended in the last step found
    inserts    \* insertions of new keys so far

vars == <<dict, call, answer, inserts>>

Dynamic == Objects \cup Nested

Equal(k, c) == k = c \/ <<k, c>> \in Same

(* Values are left out.  index is <<>> or has the table as its element,    *)
(* journal is None when there is none, size0 and kind0 describe the base   *)
(* table, and moved says that structural_version changed since the lookup  *)
(* that is under way read it.                                              *)
NewDict(size, kind) ==
    [entries |-> <<>>, objects |-> 0, dynamic |-> 0, index |-> <<>>, journal |-> None,
     size0 |-> size, kind0 |-> kind, kind |-> kind, moved |-> FALSE]

Has(d, k) == k \in Range(d.entries)

Position(d, k) == (CHOOSE i \in DOMAIN d.entries : d.entries[i] = k) - 1

-----------------------------------------------------------------------------
(* The table this dict stands for.                                         *)
TableOf(d) ==
    CASE d.index # <<>> -> d.index[1]
      [] d.index = <<>> /\ d.journal # None ->
            Materialize(d.journal, d.entries, d.size0, d.kind0 = "unicode", d.kind = "unicode")
      [] OTHER -> FromEntries(d.entries, d.size0, d.kind0 = "unicode", d.kind = "unicode")

EnsurePythonHashIndex(d) == [d EXCEPT !.index = <<TableOf(d)>>, !.journal = None]

RequiresPythonHashIndex(d) ==
    \/ d.dynamic > d.objects
    \/ d.objects # 0 /\ d.objects < Len(d.entries)

PreparePythonInsert(d, k) ==
    CASE d.kind = "unknown" ->
            LET kind == IF k \in Strings THEN "unicode" ELSE "general"
            IN [d EXCEPT !.kind = kind, !.kind0 = kind]
      [] d.kind = "unicode" /\ k \notin Strings /\ d.entries = <<>> ->
            [d EXCEPT !.kind = "general", !.size0 = 8]
      [] d.kind = "unicode" /\ k \notin Strings /\ d.entries # <<>> ->
            [EnsurePythonHashIndex([d EXCEPT !.kind = "general"])
                EXCEPT !.index = <<PrepareGeneralInsert(@[1])>>, !.moved = TRUE]
      [] OTHER -> d

\* mutant: the table is not built when keys of two representations meet
RecordInsertedIndexLazily(d, k) ==
    LET counted == [d EXCEPT !.entries = Append(@, k), !.moved = TRUE,
                             !.objects = IF k \in Objects THEN @ + 1 ELSE @,
                             !.dynamic = IF k \in Dynamic THEN @ + 1 ELSE @]
    IN IF d.index # <<>> THEN [counted EXCEPT !.index = <<RecordInserted(@[1], Item(k))>>] ELSE counted

(* The journal is told of an insertion into a dict of so many keys.        *)
Logged(d, liveBefore) ==
    CASE d.journal = None -> d
      [] d.journal # None /\ Rebases(d.journal) ->
            [d EXCEPT !.journal = JournalInserted(@, liveBefore),
                      !.size0 = RebasedSize(liveBefore), !.kind0 = d.kind]
      [] OTHER -> [d EXCEPT !.journal = JournalInserted(@, liveBefore)]

Indexed(d, k) ==
    IF (k \in Dynamic \/ d.objects # 0) /\ RequiresPythonHashIndex(d)
    THEN EnsurePythonHashIndex(d)
    ELSE d

(* The insertion of a key that no entry is identical to.                   *)
RecordInsertedIndex(d, k) ==
    LET counted == [d EXCEPT !.entries = Append(@, k), !.moved = TRUE,
                             !.objects = IF k \in Objects THEN @ + 1 ELSE @,
                             !.dynamic = IF k \in Dynamic THEN @ + 1 ELSE @]
    IN IF d.index # <<>>
       THEN [counted EXCEPT !.index = <<RecordInserted(@[1], Item(k))>>]
       ELSE Indexed(Logged(counted, Len(d.entries)), k)

(* PyDict::insert.                                                         *)
InsertFull(d, k) == IF Has(d, k) THEN d ELSE RecordInsertedIndex(d, k)

WithInserted(d, k) == InsertFull(PreparePythonInsert(d, k), k)

PrepareRemovalHistory(d) ==
    IF d.index = <<>> /\ d.journal = None
    THEN [d EXCEPT !.journal = JournalFromCurrentEntries(d.size0, Len(d.entries))]
    ELSE d

\* mutant: a deletion does not change structural_version
RecordRemovedMetadataSilently(d, k) ==
    [d EXCEPT !.objects = IF k \in Objects THEN @ - 1 ELSE @,
              !.dynamic = IF k \in Dynamic THEN @ - 1 ELSE @]

RecordRemovedMetadata(d, k) ==
    [d EXCEPT !.objects = IF k \in Objects THEN @ - 1 ELSE @,
              !.dynamic = IF k \in Dynamic THEN @ - 1 ELSE @,
              !.moved = TRUE]

RecordRemovedKey(d, pos, k, popped) ==
    RecordRemovedMetadata(
        IF d.index # <<>>
        THEN [d EXCEPT !.index = <<IF popped THEN RecordPopped(@[1], Item(k))
                                   ELSE RecordRemoved(@[1], Item(k))>>]
        ELSE [d EXCEPT !.journal = JournalRemoved(@, pos, k, popped)], k)

ShiftRemoved(d, k) ==
    RecordRemovedKey([PrepareRemovalHistory(d) EXCEPT !.entries = RemoveAt(@, Position(d, k) + 1)],
                     Position(d, k), k, FALSE)

Popped(d) ==
    RecordRemovedKey([PrepareRemovalHistory(d) EXCEPT !.entries = Front(@)],
                     Len(d.entries) - 1, Last(d.entries), TRUE)

(* The last entry takes the place of the removed one.                      *)
SwapRemoved(d, k) ==
    LET moved == [i \in DOMAIN d.entries |-> IF d.entries[i] = k THEN Last(d.entries) ELSE d.entries[i]]
    IN RecordRemovedKey([EnsurePythonHashIndex(d) EXCEPT !.entries = Front(moved)],
                        Position(d, k), k, FALSE)

(* The orders that retain() may leave: there is one, that of s.            *)
InOrder(s, keys) ==
    {r \in SetToSeqs(keys) :
        \A i, j \in DOMAIN r : i < j =>
            \E a, b \in DOMAIN s : a < b /\ s[a] = r[i] /\ s[b] = r[j]}

Retained(d, kept) ==
    LET keys == Range(d.entries) \ Range(kept)
        removed == SelectSeq(d.entries, LAMBDA k : k \in keys)
        DropKey(t, k) == RecordRemoved(t, Item(k))
    IN IF keys = {} /\ d.index = <<>> /\ d.journal = None THEN d
       ELSE [EnsurePythonHashIndex(d) EXCEPT
               !.entries = kept,
               !.index = <<FoldLeft(DropKey, @[1], removed)>>,
               !.objects = @ - Cardinality(keys \cap Objects),
               !.dynamic = @ - Cardinality(keys \cap Dynamic),
               !.moved = @ \/ keys # {}]

MovedIndex(d, from, to) ==
    [EnsurePythonHashIndex(d) EXCEPT !.entries = InsertAt(RemoveAt(@, from), to, d.entries[from])]

(* OrderedDict.move_to_end(k, last).                                       *)
MovedToEnd(d, k, last) ==
    MovedIndex(d, Position(d, k) + 1, IF last THEN Len(d.entries) ELSE 1)

Cleared(d) == [NewDict(0, "unicode") EXCEPT !.moved = d.moved \/ d.entries # <<>>]

CopiedWith(d, table) ==
    [d EXCEPT !.index = <<IF CopyPreservesLayout(table) THEN table ELSE CompactedCopy(table)>>,
              !.journal = None,
              !.kind = IF table.unicode THEN "unicode" ELSE "general"]

(* PyDict::clone.                                                          *)
Copied(d) ==
    LET live == Len(d.entries)
    IN CASE live = 0 -> NewDict(0, "unicode")
         [] live # 0 /\ d.index = <<>> /\ d.journal # None /\ CopyDefinitelyPreservesLayout(d.journal, live) -> d
         [] live # 0 /\ d.index = <<>> /\ d.journal # None /\ CopyDefinitelyCompactsLayout(d.journal, live) ->
               [d EXCEPT !.journal = None, !.size0 = SparseCopyTableSize(live), !.kind0 = d.kind]
         [] live # 0 /\ d.index = <<>> /\ d.journal = None /\ ~RequiresPythonHashIndex(d) -> d
         [] OTHER -> CopiedWith(d, TableOf(d))

-----------------------------------------------------------------------------
(* Lookup (lookup.rs).  A probe that can meet a key of the other           *)
(* representation needs the table; only then does the order of comparisons *)
(* matter.                                                                 *)
NeedsPythonHashIndex(d, k) ==
    /\ d.index = <<>>
    /\ \/ k \in Objects /\ Len(d.entries) > d.objects
       \/ k \in Nested /\ Len(d.entries) > d.dynamic
       \/ k \in Tuples /\ d.dynamic # 0

Meets(d, k, kinds) ==
    d.index # <<>> /\ Range(Candidates(d.index[1], Hash[k])) \cap kinds # {}

(* Keys that may run __eq__ come before an identical key.                  *)
RequiresPythonProbe(d, k) ==
    CASE k \in Objects -> d.objects # 0
      [] k \notin Objects /\ d.index = <<>> -> NeedsPythonHashIndex(d, k)
      [] k \in Nested /\ d.index # <<>> -> TRUE
      [] k \in Tuples /\ d.index # <<>> -> Meets(d, k, Dynamic)
      [] OTHER -> Meets(d, k, Objects)

MayHaveUserEqCandidate(d, k) ==
    IF k \in Dynamic THEN d.entries # <<>> ELSE d.dynamic # 0

(* The native map alone decides.                                           *)
Immediate(d, k) ==
    \/ d.dynamic = 0 /\ k \notin Dynamic
    \/ ~RequiresPythonProbe(d, k) /\ Has(d, k)
    \/ ~MayHaveUserEqCandidate(d, k)

Activated(d, k) ==
    IF ~Immediate(d, k) /\ NeedsPythonHashIndex(d, k) THEN EnsurePythonHashIndex(d) ELSE d

(* Without a table the candidates are objects of one bucket, in whatever   *)
(* order the native map has them.                                          *)
UserEqCandidates(d, k) ==
    IF d.index # <<>> THEN {Candidates(d.index[1], Hash[k])}
    ELSE SetToSeqs({c \in Range(d.entries) \cap Objects : Hash[c] = Hash[k]})

HasObjectHashCandidate(d, k) ==
    IF d.index # <<>> THEN Meets(d, k, Dynamic)
    ELSE \E c \in Range(d.entries) \cap Objects : Hash[c] = Hash[k]

\* mutant: only an instance can be equal to a key of another representation
NeedsDedupDynamic(d, k) == k \in Dynamic

NeedsDedup(d, k) == k \in Dynamic \/ HasObjectHashCandidate(d, k)

Crosses(d, k) ==
    \/ k \in Objects /\ Len(d.entries) > d.objects
    \/ k \in Nested /\ d.entries # <<>>
    \/ k \notin Dynamic /\ d.dynamic # 0

ReadyToStore(d, k) ==
    IF NeedsDedup(d, k) /\ d.index = <<>> /\ Crosses(d, k) THEN EnsurePythonHashIndex(d) ELSE d

(* dict_insert_value, up to its lookup.                                    *)
PreparedStore(k) == ReadyToStore(PreparePythonInsert(dict, k), k)

(* "move_first" and "move_last" are move_to_end().                         *)
Operations == {"get", "set", "setdefault", "pop", "move_first", "move_last"}

(* What the operation does with an identical or equal entry, or with none. *)
Applied(d, op, k, hit) ==
    CASE op = "set" \/ (op = "setdefault" /\ hit = None) ->
            WithInserted(d, IF hit # None THEN hit ELSE k)
      [] op = "pop" /\ hit # None -> ShiftRemoved(d, hit)
      [] op \in {"move_first", "move_last"} /\ hit # None -> MovedToEnd(d, hit, op = "move_last")
      [] OTHER -> d

Becomes(d) ==
    /\ inserts' = inserts + Cardinality(Range(d.entries) \ Range(dict.entries))
    /\ inserts' <= MaxInserts
    /\ dict' = d

Finish(d, op, k, hit) ==
    /\ Becomes([Applied(d, op, k, hit) EXCEPT !.moved = FALSE])
    /\ call' = None
    /\ answer' = [key |-> k, hit |-> hit]

(* Read the candidates and the version; __eq__ runs with the first one.    *)
Probe(d, op, k) ==
    \E c \in IF Immediate(d, k) THEN {<<>>} ELSE UserEqCandidates(d, k) :
        \/ c = <<>> /\ Finish(d, op, k, IF Immediate(d, k) /\ Has(d, k) THEN k ELSE None)
        \/ /\ c # <<>>
           /\ Becomes([d EXCEPT !.moved = FALSE])
           /\ call' = [op |-> op, key |-> k, candidates |-> c]
           /\ answer' = None

Look(d, op, k) == Probe(Activated(d, k), op, k)

Store(d, k) ==
    \/ NeedsDedup(d, k) /\ Look(d, "set", k)
    \/ ~NeedsDedup(d, k) /\ Finish(d, "set", k, IF Has(d, k) THEN k ELSE None)

Begin(op, k) ==
    /\ call = None
    /\ \/ op # "set" /\ Look(dict, op, k)
       \/ op = "set" /\ Store(PreparedStore(k), k)

(* __eq__ returned: a changed table starts the lookup over.                *)
Compared ==
    LET c == Head(call.candidates)
    IN /\ call # None
       /\ \/ dict.moved /\ Look(dict, call.op, call.key)
          \/ /\ ~dict.moved /\ (Equal(c, call.key) \/ Len(call.candidates) = 1)
             /\ Finish(dict, call.op, call.key, IF Equal(c, call.key) THEN c ELSE None)
          \/ /\ ~dict.moved /\ ~Equal(c, call.key) /\ Len(call.candidates) > 1
             /\ call' = [call EXCEPT !.candidates = Tail(@)]
             /\ answer' = None
             /\ UNCHANGED <<dict, inserts>>

-----------------------------------------------------------------------------
(* Python code runs between two operations, and inside __eq__ of two       *)
(* different keys one of which has such a method.                          *)
UserCode ==
    call # None =>
        LET c == Head(call.candidates)
        IN c # call.key /\ (c \in Dynamic \/ call.key \in Dynamic)

Quietly(d) ==
    /\ UserCode
    /\ Becomes([d EXCEPT !.moved = @ /\ call # None])
    /\ UNCHANGED call
    /\ answer' = None

(* __eq__ raises: the operation ends with nothing stored or removed.       *)
EqRaises ==
    /\ call # None /\ UserCode
    /\ Becomes([dict EXCEPT !.moved = FALSE])
    /\ call' = None
    /\ answer' = None

(* Inside __eq__ an assignment is one step: its own comparisons end before *)
(* the outer one goes on.                                                  *)
NestedStore(k) ==
    /\ call # None
    /\ LET equals == {c \in Range(dict.entries) : Equal(c, k)}
       IN Quietly(WithInserted(PreparedStore(k), IF equals = {} THEN k ELSE CHOOSE c \in equals : TRUE))

(* The same for move_to_end() of a key of the dict.                        *)
NestedMove(k, last) ==
    /\ call # None
    /\ Has(dict, k)
    /\ Quietly(MovedToEnd(dict, k, last))

ShiftRemove(k) == Has(dict, k) /\ Quietly(ShiftRemoved(dict, k))

SwapRemove(k) == Has(dict, k) /\ Quietly(SwapRemoved(dict, k))

PopItem == dict.entries # <<>> /\ Quietly(Popped(dict))

ShiftRemoveMany(keys) ==
    /\ dict.entries # <<>>
    /\ \E kept \in InOrder(dict.entries, keys) : Quietly(Retained(dict, kept))

Clear == Quietly(Cleared(dict))

(* The program goes on with the copy.                                      *)
Copy == call = None /\ Quietly(Copied(dict))

Init ==
    /\ \/ dict = NewDict(0, "unicode")
       \/ \E n \in Capacities : dict = NewDict(TableSizeForCapacity(n), "unknown")
       \/ \E n \in Capacities, kind \in {"unicode", "general"} :
             n > UsableFraction(8) /\ dict = NewDict(TableSizeForCapacity(n), kind)
       \/ \E n \in FromKeys, kind \in {"unicode", "general"} :
             dict = NewDict(SparseCopyTableSize(n), kind)
    /\ call = None
    /\ answer = None
    /\ inserts = 0

Next ==
    \/ \E op \in Operations, k \in Key : Begin(op, k)
    \/ Compared
    \/ EqRaises
    \/ \E k \in Key : NestedStore(k) \/ ShiftRemove(k) \/ SwapRemove(k)
    \/ \E k \in Key, last \in BOOLEAN : NestedMove(k, last)
    \/ PopItem
    \/ \E keys \in SUBSET Range(dict.entries) : ShiftRemoveMany(keys)
    \/ Clear
    \/ Copy

Spec == Init /\ [][Next]_vars

-----------------------------------------------------------------------------
TypeOK ==
    /\ dict.entries \in Seq(Key)
    /\ dict.objects \in Nat /\ dict.dynamic \in Nat
    /\ dict.kind \in {"unknown", "unicode", "general"}
    /\ call # None => call.op \in Operations /\ call.candidates \in Seq(Key)
    /\ inserts \in 0 .. MaxInserts

(* No two entries have equal keys, whatever __eq__ did to the dict while   *)
(* an assignment was looking for the key (dict_insert_value).              *)
OneEntryPerKey ==
    \A i, j \in DOMAIN dict.entries : i # j => ~Equal(dict.entries[i], dict.entries[j])

(* A lookup answers for the dict as it is when the lookup ends, and not    *)
(* for the one it was when its candidates were read (dict_lookup).         *)
AnswerIsCurrent ==
    [][answer' # None =>
         LET equals == {c \in Range(dict.entries) : Equal(c, answer'.key)}
         IN IF answer'.hit = None THEN equals = {} ELSE answer'.hit \in equals]_vars

(* Following the perturbed probe sequence of a hash meets every entry of   *)
(* that hash once and no other, and meets an empty slot, where an          *)
(* unsuccessful probe ends: in the table in use, in the one that the       *)
(* journal would be replayed to, and in the one where the assignment of a  *)
(* key looks it up (DictPythonHashIndex::candidates has no other way out   *)
(* of its loop).                                                           *)
ProbeFindsEveryKey ==
    \A t \in {TableOf(dict)} \cup {TableOf(PreparedStore(k)) : k \in Key} :
        /\ \A k \in Key :
              Candidates(t, Hash[k]) \in SetToSeqs({c \in Range(dict.entries) : Hash[c] = Hash[k]})
        /\ TableSize(t) # 0 => \E s \in DOMAIN t.indices : t.indices[s] = Empty

(* The counters are those of the entries, the dict that needs a table has  *)
(* one, and the table holds the keys of the entries and no other, where a  *)
(* probe meets them (the metadata that every mutating method of PyDict     *)
(* maintains).                                                             *)
ShadowComplete ==
    /\ TypeOK
    /\ dict.objects = Cardinality(Range(dict.entries) \cap Objects)
    /\ dict.dynamic = Cardinality(Range(dict.entries) \cap Dynamic)
    /\ RequiresPythonHashIndex(dict) => dict.index # <<>>
    /\ Range(LiveKeys(TableOf(dict))) = Range(dict.entries)
    /\ ProbeFindsEveryKey

(* A dict of strings that was emptied and then given another key while     *)
(* it has a journal: the size of its base table is set to 8, but what the  *)
(* journal has left of the entry array is still that of the old table.     *)
ConvertedEmpty(d) == d.journal # None /\ d.kind = "general" /\ d.kind0 = "unicode"

TableStep ==
    LET t == TableOf(dict)
        next == <<TableOf(dict'), dict'.kind>>
    IN next \in EagerSuccessors(t, dict.kind)

(* The table that a dict stands for, built or not, changes as one that     *)
(* every operation keeps up to date: the journal, its rebasing and the     *)
(* shortcuts of PyDict::clone cannot be told from eager maintenance.  The  *)
(* steps from a ConvertedEmpty dict are left out: there they can.          *)
TableIsEager == [][ConvertedEmpty(dict) \/ TableStep]_vars
=============================================================================
