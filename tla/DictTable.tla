----------------------------- MODULE DictTable -----------------------------
(***************************************************************************)
(* The key table that pyrust keeps in the shadow of a dict: CPython's      *)
(* combined table, an array of slots over an array of entries, probed with *)
(* a perturbed sequence (dict_probe_index.rs).  It decides in which order  *)
(* keys of equal hash are compared, which Python code can see because      *)
(* __eq__ may be any code.                                                 *)
(*                                                                         *)
(* A table is a value here.  The second half is the journal from which     *)
(* pyrust rebuilds the table of a dict that has deleted keys.              *)
(***************************************************************************)
EXTENDS Integers, SequencesExt

CONSTANTS
    Key,        \* dict keys
    Hash,       \* their Python hashes
    Strings,    \* exact strings
    None        \* no key, no table, no journal, no call

ASSUME DictTableAssumption ==
    /\ Hash \in [Key -> Nat]
    /\ Strings \subseteq Key
    /\ None \notin Key

Empty == -1
Dummy == -2

(* Bound: the largest table is 2^MaxLog slots.                             *)
MaxLog == 7

(* A hash of 64 bits is used up after 13 shifts by 5.                      *)
PerturbSteps == 13

(* What the entry array holds: a key, or, while a journal is replayed, a   *)
(* key that is known only by its hash and kind.  The id tells apart the    *)
(* items of a replay and is 0 outside one.                                 *)
Item(k) == [key |-> k, hash |-> Hash[k], str |-> k \in Strings, id |-> 0]

Hole == [key |-> None, hash |-> 0, str |-> FALSE, id |-> -1]

IsLive(item) == item # Hole

LiveItems(t) == SelectSeq(t.entries, IsLive)

LiveKeys(t) == [i \in 1 .. t.live |-> LiveItems(t)[i].key]

UsableFraction(size) == (2 * size) \div 3

PowerAbove(n) == 2 ^ (CHOOSE k \in 0 .. MaxLog : 2 ^ k > n /\ \A j \in 0 .. k - 1 : 2 ^ j <= n)

(* target | 8 sets one bit: a small target that is not 8 itself gets 16.   *)
TableSizeForTarget(target) ==
    LET or8 == IF (target \div 8) % 2 = 1 THEN target ELSE target + 8
    IN PowerAbove(or8 - 1)

(* The smallest table, of at least 8 slots, that holds n keys.             *)
TableSizeForCapacity(n) ==
    IF n = 0 THEN 0
    ELSE 2 ^ (CHOOSE k \in 3 .. MaxLog : /\ UsableFraction(2 ^ k) >= n
                                         /\ \A j \in 3 .. k - 1 : UsableFraction(2 ^ j) < n)

SparseCopyTableSize(live) == TableSizeForTarget((3 * live + 1) \div 2)

NewTable(size, unicode) ==
    [indices |-> [s \in 0 .. size - 1 |-> Empty], entries |-> <<>>,
     usable |-> UsableFraction(size), live |-> 0, unicode |-> unicode]

TableSize(t) == Cardinality(DOMAIN t.indices)

-----------------------------------------------------------------------------
(* The slots that a key of hash h is looked for in, first to last.         *)
ProbeSlots(t, h) ==
    LET size == TableSize(t)
        probe[i \in Nat] ==
            IF i = 0 THEN [slots |-> <<h % size>>, perturb |-> h]
            ELSE LET prev == probe[i - 1]
                     p == prev.perturb \div 32
                 IN [slots |-> Append(prev.slots, (5 * Last(prev.slots) + p + 1) % size),
                     perturb |-> p]
    IN probe[size + PerturbSteps].slots

InsertionSlot(t, h) ==
    LET slots == ProbeSlots(t, h)
    IN slots[SelectInSeq(slots, LAMBDA s : t.indices[s] < 0)]

(* Up to the first empty slot.                                             *)
Chain(t, h) ==
    IF TableSize(t) = 0 THEN <<>>
    ELSE LET slots == ProbeSlots(t, h)
         IN SubSeq(slots, 1, SelectInSeq(slots, LAMBDA s : t.indices[s] = Empty) - 1)

(* The entry that a slot refers to; entries are numbered from 0.           *)
At(t, slot) == IF t.indices[slot] < 0 THEN Hole ELSE t.entries[t.indices[slot] + 1]

SlotOf(t, item) == SelectSeq(Chain(t, item.hash), LAMBDA s : At(t, s) = item)

(* The keys of hash h in the order in which a lookup compares them.        *)
Candidates(t, h) ==
    LET slots == SelectSeq(Chain(t, h), LAMBDA s : IsLive(At(t, s)) /\ At(t, s).hash = h)
    IN [i \in 1 .. Len(slots) |-> At(t, slots[i]).key]

-----------------------------------------------------------------------------
Place(t, item) ==
    [t EXCEPT !.indices[InsertionSlot(t, item.hash)] = Len(t.entries),
              !.entries = Append(@, item),
              !.usable = @ - 1,
              !.live = @ + 1]

(* A table of another size holds the live entries and no dummy.            *)
Resize(t, target) ==
    FoldLeft(Place, NewTable(TableSizeForTarget(target), t.unicode), LiveItems(t))

(* A table of strings is converted before any other key is looked up.      *)
PrepareGeneralInsert(t) ==
    IF t.unicode THEN [Resize(t, 3 * t.live) EXCEPT !.unicode = FALSE] ELSE t

Grown(t) == IF t.usable = 0 THEN Resize(t, 3 * t.live) ELSE t

RecordInserted(t, item) ==
    Place(Grown(IF item.str THEN t ELSE PrepareGeneralInsert(t)), item)

\* mutant: the slot of a deleted key is free again
RecordRemovedEmpty(t, item) ==
    LET found == SlotOf(t, item)
    IN IF found = <<>> THEN t
       ELSE [t EXCEPT !.entries[t.indices[found[1]] + 1] = Hole,
                      !.indices[found[1]] = Empty,
                      !.live = @ - 1]

RecordRemoved(t, item) ==
    LET found == SlotOf(t, item)
    IN IF found = <<>> THEN t
       ELSE [t EXCEPT !.entries[t.indices[found[1]] + 1] = Hole,
                      !.indices[found[1]] = Dummy,
                      !.live = @ - 1]

(* popitem() also shortens the entry array past the holes at its end.      *)
TruncatePopped(t) ==
    [t EXCEPT !.entries = SubSeq(@, 1, SelectLastInSeq(@, IsLive))]

RecordPopped(t, item) == TruncatePopped(RecordRemoved(t, item))

(* The layout that the keys have chosen since the base table was made.     *)
OfKind(t, unicodeNow) == IF unicodeNow THEN t ELSE PrepareGeneralInsert(t)

FromEntries(keys, size, unicode, unicodeNow) ==
    LET InsertKey(t, k) == RecordInserted(t, Item(k))
    IN OfKind(FoldLeft(InsertKey, NewTable(size, unicode), keys), unicodeNow)

CopyPreservesLayout(t) == t.live >= (2 * Len(t.entries)) \div 3

CompactedCopy(t) ==
    FoldLeft(Place, NewTable(SparseCopyTableSize(t.live), t.unicode), LiveItems(t))

-----------------------------------------------------------------------------
(* The journal: one record per mutation since the last resize, and what is *)
(* left of the entry array.  An insertion is recorded by its position in   *)
(* the journal alone, a removal by the position, hash and kind of its key. *)
Inserted == [kind |-> "insert", hash |-> 0, str |-> FALSE, pos |-> 0]

Removed(pos, k, popped) ==
    [kind |-> IF popped THEN "pop" ELSE "remove", hash |-> Hash[k],
     str |-> k \in Strings, pos |-> pos]

(* What is left of the entry array after live insertions and no deletion.  *)
JournalFromCurrentEntries(size, live) ==
    LET usable[n \in 0 .. live] ==
            IF n = 0 THEN UsableFraction(size)
            ELSE LET room == usable[n - 1]
                 IN IF room = 0
                    THEN UsableFraction(TableSizeForTarget(3 * (n - 1))) - n
                    ELSE room - 1
    IN [mutations |-> <<>>, removals |-> 0, popped |-> FALSE, usable |-> usable[live]]

(* An insertion that finds no room resizes, which forgets every deletion:  *)
(* the journal starts again from a table of this size.                     *)
Rebases(j) == j.usable = 0

\* mutant: the journal starts again from a table that grew by a factor of 8
RebasedSizeTooLarge(liveBefore) == TableSizeForTarget(8 * (liveBefore + 2))

RebasedSize(liveBefore) == TableSizeForTarget(3 * liveBefore)

JournalInserted(j, liveBefore) ==
    IF Rebases(j)
    THEN [mutations |-> <<>>, removals |-> 0, popped |-> FALSE,
          usable |-> UsableFraction(RebasedSize(liveBefore)) - liveBefore - 1]
    ELSE [j EXCEPT !.mutations = Append(@, Inserted), !.usable = @ - 1]

JournalRemoved(j, pos, k, popped) ==
    [j EXCEPT !.mutations = Append(@, Removed(pos, k, popped)),
              !.removals = IF popped THEN @ ELSE @ + 1,
              !.popped = @ \/ popped]

CopyDefinitelyPreservesLayout(j, live) == live >= (2 * (live + j.removals)) \div 3

CopyDefinitelyCompactsLayout(j, live) ==
    ~j.popped /\ live < (2 * (live + j.removals)) \div 3

(* The table of the dict: undo the mutations from the keys of today back   *)
(* to the keys of the base table, then make them again on that table.      *)
UndoMutations(keys, mutations) ==
    LET n == Len(mutations)
        Named(i) == [Item(keys[i]) EXCEPT !.id = i]
        Undo(state, i) ==
            LET mut == mutations[n + 1 - i]
                gone == [key |-> None, hash |-> mut.hash, str |-> mut.str, id |-> Len(keys) + i]
            IN CASE mut.kind = "insert" ->
                        [live |-> Front(state.live), made |-> Cons(Last(state.live), state.made)]
                 [] mut.kind = "remove" ->
                        [live |-> InsertAt(state.live, mut.pos + 1, gone), made |-> Cons(gone, state.made)]
                 [] mut.kind = "pop" ->
                        [live |-> Append(state.live, gone), made |-> Cons(gone, state.made)]
    IN FoldLeft(Undo, [live |-> [i \in 1 .. Len(keys) |-> Named(i)], made |-> <<>>],
                [i \in 1 .. n |-> i])

ReplayMutations(base, undone, mutations) ==
    LET Redo(state, i) ==
            LET mut == mutations[i]
            IN CASE mut.kind = "insert" ->
                        [live |-> Append(state.live, undone.made[i]),
                         table |-> RecordInserted(state.table, undone.made[i])]
                 [] mut.kind = "remove" ->
                        [live |-> RemoveAt(state.live, mut.pos + 1),
                         table |-> RecordRemoved(state.table, state.live[mut.pos + 1])]
                 [] mut.kind = "pop" ->
                        [live |-> Front(state.live),
                         table |-> RecordPopped(state.table, Last(state.live))]
    IN FoldLeft(Redo, [live |-> undone.live, table |-> FoldLeft(RecordInserted, base, undone.live)],
                [i \in 1 .. Len(mutations) |-> i]).table

FinishReplay(t) ==
    [t EXCEPT !.entries = [i \in DOMAIN @ |-> IF IsLive(@[i]) THEN [@[i] EXCEPT !.id = 0] ELSE Hole]]

Materialize(j, keys, size, unicode, unicodeNow) ==
    FinishReplay(OfKind(ReplayMutations(NewTable(size, unicode), UndoMutations(keys, j.mutations),
                                        j.mutations), unicodeNow))
=============================================================================
