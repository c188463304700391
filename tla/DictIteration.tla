---------------------------- MODULE DictIteration ----------------------------
(***************************************************************************)
(* Live dict iterators over one dictionary that is mutated between steps.  *)
(*                                                                         *)
(* A dictionary carries no version of its own.  While at least one         *)
(* iterator is alive it has a registration (CollectionMutationState) that  *)
(* every mutation helper bumps; with no observer left the registration may *)
(* be kept for reuse, but mutations no longer touch it.  Each iterator     *)
(* (LiveKeyCursor) remembers where it is in one of three forms: a snapshot *)
(* of the key order, the history of the keys yielded so far, or, after the *)
(* first mutation it notices, the set of keys it must not yield again.     *)
(*                                                                         *)
(* Left out: values, sets (no quota), the reverse cursor, OrderedDict and  *)
(* containers whose backing dictionary can be replaced.  A frozen key      *)
(* order is a snapshot already converted to values and is modelled as one. *)
(* A further step of an iterator that has ended changes nothing and is a   *)
(* stuttering step: it repeats the size error, or reports exhaustion.      *)
(***************************************************************************)
EXTENDS Integers, Sequences, FiniteSets, SequencesExt

CONSTANTS
    Keys,           \* the keys a program may store
    Cursors,        \* iterator objects
    NoKey,          \* no last key yet
    Threshold,      \* ADAPTIVE_KEY_SNAPSHOT_THRESHOLD
    MaxVersion,     \* bound: mutations seen by one life of the registration
    MaxLeaks        \* bound: watches of dropped iterators per key

ASSUME ThresholdAssumption == Threshold \in Nat \ {0}
ASSUME NoKeyAssumption == NoKey \notin Keys
ASSUME BoundAssumption ==
    IsFiniteSet(Keys) /\ IsFiniteSet(Cursors) /\ MaxVersion \in Nat

VARIABLES
    dict,           \* the live keys in insertion order
    reg,            \* the registration (CollectionMutationStateInner)
    cursors,        \* the iterators
    probe,          \* {} or {p}: p is the throwaway copy being drained
    walk            \* history: what each iterator did and saw

vars == <<dict, reg, cursors, probe, walk>>

-----------------------------------------------------------------------------
(* Keys and positions (0-based, as in the code).                           *)

Live == Range(dict)

\* get_index_of, -1 when the key is absent.
IndexIn(d, k) == IF k \in Range(d) THEN (CHOOSE i \in DOMAIN d : d[i] = k) - 1 ELSE -1

\* What is left of d without the keys in K: the one order of the others in
\* which each pair stands as it does in d.
Without(d, K) ==
    {s \in SetToSeqs(Range(d) \ K) :
        \A i, j \in DOMAIN s : i < j => IndexIn(d, s[i]) < IndexIn(d, s[j])}

-----------------------------------------------------------------------------
(* The virtual compact table behind the registration.                      *)

UsableFraction(size) == (size * 2) \div 3

\* The sizes a table may have: 8, doubled up to once for every key, which is
\* more than the loops of for_len and insert can ask for.
TableSize[i \in 0..Cardinality(Keys)] == IF i = 0 THEN 8 ELSE 2 * TableSize[i - 1]

TableSizes == Range(TableSize)

LayoutForLen(n) ==
    IF n = 0
    THEN [live |-> 0, entries |-> 0, usable |-> 0]
    ELSE [live |-> n, entries |-> n,
          usable |-> UsableFraction(Min({s \in TableSizes : UsableFraction(s) >= n})) - n]

LayoutInsert(l) ==
    IF l.usable = 0
    THEN [live |-> l.live + 1, entries |-> l.live + 1,
          usable |-> UsableFraction(Min({s \in TableSizes : s >= 3 * l.live})) - (l.live + 1)]
    ELSE [live |-> l.live + 1, entries |-> l.entries + 1, usable |-> l.usable - 1]

\* The entry index the next LayoutInsert hands out.
InsertPosition(l) == IF l.usable = 0 THEN l.live ELSE l.entries

\* The layouts after 0, 1, ..., n insertions into l.
LayoutsAfter(l, n) ==
    LET at[i \in 0..n] == IF i = 0 THEN l ELSE LayoutInsert(at[i - 1]) IN at

-----------------------------------------------------------------------------
(* The registration.                                                       *)

NotReinserted == [at |-> -1, position |-> -1]

\* A registration created, or restarted, for a dictionary of n keys.  A kept
\* one goes on counting from its last version; no cursor outlives it, so only
\* the distance to the version a cursor observed matters and 0 stands for it.
FreshRegistration(n) ==
    [version    |-> 0,
     observers  |-> 0,
     watchers   |-> [k \in Keys |-> 0],
     pending    |-> {},
     reinserted |-> [k \in Keys |-> NotReinserted],
     layout     |-> LayoutForLen(n)]

\* What a tracked mutation from `before` to `after` does to registration r:
\* bump the version, note watched keys that disappeared, advance the layout
\* once per inserted entry and note where a watched key came back.
TrackedMutation(r, before, after, reset) ==
    LET b == Len(before)
        a == Len(after)
        removed  == IF reset THEN b ELSE IF b <= a THEN 0 ELSE b - a
        inserted == IF reset THEN a ELSE IF b <= a THEN a - b ELSE 0
        base     == b - removed
        watched  == {k \in Keys : r.watchers[k] > 0}
        gone     == {k \in watched : k \in Range(before) /\ k \notin Range(after)}
        back     == {k \in watched : /\ k \notin Range(before)
                                     /\ IndexIn(after, k) >= base}
        pending  == r.pending \union gone
        cleared  == IF reset THEN LayoutForLen(0)
                    ELSE [r.layout EXCEPT !.live = @ - removed]
        layoutAt == LayoutsAfter(cleared, inserted)
    IN  [r EXCEPT
            !.version    = @ + 1,
            !.pending    = pending \ back,
            !.reinserted =
                [k \in Keys |->
                    IF k \in back \intersect pending
                    THEN [at       |-> r.version + 1,
                          position |-> InsertPosition(layoutAt[IndexIn(after, k) - base])]
                    ELSE @[k]],
            !.layout     = [layoutAt[inserted] EXCEPT !.live = a]]

WatchKey(r, k) == [r EXCEPT !.watchers[k] = @ + 1]

\* Mutated UnwatchKey: the watch goes with the first iterator that lets go.
UnwatchKeyForAll(r, k) ==
    [r EXCEPT !.watchers[k] = 0, !.pending = @ \ {k}, !.reinserted[k] = NotReinserted]

\* The last watch of a key takes its follow-up entries with it.
UnwatchKey(r, k) ==
    CASE r.watchers[k] = 0 -> r
      [] r.watchers[k] > 1 -> [r EXCEPT !.watchers[k] = @ - 1]
      [] OTHER -> [r EXCEPT !.watchers[k]   = 0,
                            !.pending       = @ \ {k},
                            !.reinserted[k] = NotReinserted]

\* Mutated Attach: a reused registration is not marked observed again.
AttachFirstOnly(r) == [r EXCEPT !.observers = 1]

Attach(r) == [r EXCEPT !.observers = @ + 1]

\* With its last handle the registration falls idle.  Nothing reads an idle
\* one before a new observer restarts it, so its contents are forgotten here.
Detach(r) == IF r.observers = 1 THEN FreshRegistration(0)
             ELSE [r EXCEPT !.observers = @ - 1]

\* Mutated KeyReinserted: any return of the key counts.
KeyReinsertedEver(r, k, version, entryCursor) == r.reinserted[k].at >= 0

\* Whether k came back at or beyond the entry cursor after `version`.
KeyReinserted(r, k, version, entryCursor) ==
    /\ r.reinserted[k].at > version
    /\ r.reinserted[k].position >= entryCursor

-----------------------------------------------------------------------------
(* The iterators.                                                          *)

\* "free": no object; "walking": alive; the ended phases are "done" (plain
\* exhaustion), "resized" (size_changed) and "changed" (keys_changed).
Ended == {"done", "resized", "changed"}

FreeCursor ==
    [phase |-> "free", mode |-> "history", order |-> <<>>, pos |-> 0,
     seen |-> {}, next |-> 0, lastKey |-> NoKey, lastIndex |-> 0,
     observed |-> 0, recordedLen |-> 0, remaining |-> 0,
     watching |-> FALSE, entryCursor |-> 0, structural |-> FALSE]

\* What release() leaves of a cursor that ends in `phase`.
Released(phase) == [FreeCursor EXCEPT !.phase = phase]

\* What release() does to the registration: the watch, then the handle.
ReleaseFrom(r, c) ==
    Detach(IF c.watching THEN UnwatchKey(r, c.lastKey) ELSE r)

\* LiveKeyCursor::dict: small dictionaries are captured at once.
NewCursor(version) ==
    [FreeCursor EXCEPT
        !.phase       = "walking",
        !.mode        = IF Len(dict) > Threshold THEN "history" ELSE "snapshot",
        !.order       = IF Len(dict) > Threshold THEN <<>> ELSE dict,
        !.observed    = version,
        !.recordedLen = Len(dict),
        !.remaining   = Len(dict)]

\* adaptive_snapshot_trigger
SnapshotTrigger(n) ==
    IF n \div 8 < 1 THEN 1 ELSE IF n \div 8 > Threshold THEN Threshold ELSE n \div 8

\* A cursor that finds a new version: the terminal watch may report that its
\* last key was removed and put back, and the version is adopted.
Noticed(c) ==
    [c EXCEPT
        !.structural = @ \/ /\ c.watching
                            /\ KeyReinserted(reg, c.lastKey, c.observed, c.entryCursor),
        !.observed   = reg.version]

\* Mutated WithSeen: the recovered history misses the key yielded last.
WithSeenForgetsLast(c) ==
    CASE c.mode = "snapshot" ->
            [c EXCEPT !.mode = "seen", !.seen = {c.order[i] : i \in 1..c.pos - 1},
                      !.order = <<>>, !.pos = 0, !.next = c.pos,
                      !.remaining = c.recordedLen - c.pos,
                      !.lastIndex = IF c.pos # 0 THEN c.pos - 1 ELSE @,
                      !.lastKey = IF c.pos # 0 THEN c.order[c.pos] ELSE @]
      [] c.mode = "history" ->
            [c EXCEPT !.mode = "seen", !.seen = Range(c.order), !.order = <<>>]
      [] OTHER -> c

\* The first mutation turns a snapshot or a history into the set of keys seen.
WithSeen(c) ==
    CASE c.mode = "snapshot" ->
            [c EXCEPT !.mode      = "seen",
                      !.seen      = {c.order[i] : i \in 1..c.pos},
                      !.order     = <<>>,
                      !.pos       = 0,
                      !.next      = c.pos,
                      !.remaining = c.recordedLen - c.pos,
                      !.lastIndex = IF c.pos # 0 THEN c.pos - 1 ELSE @,
                      !.lastKey   = IF c.pos # 0 THEN c.order[c.pos] ELSE @]
      [] c.mode = "history" ->
            [c EXCEPT !.mode = "seen", !.seen = Range(c.order), !.order = <<>>]
      [] OTHER -> c

\* Mutated Restarted: a moved last key does not restart the walk.
RestartedInPlace(c) ==
    IF c.lastKey # NoKey /\ IndexIn(dict, c.lastKey) # c.lastIndex
    THEN [c EXCEPT !.structural = TRUE]
    ELSE c

\* A last key that moved or went restarts the index walk.
Restarted(c) ==
    IF c.lastKey # NoKey /\ IndexIn(dict, c.lastKey) # c.lastIndex
    THEN [c EXCEPT !.next = 0, !.structural = TRUE]
    ELSE c

Recovered(c) == Restarted(WithSeen(Noticed(c)))

\* A long mutation-free walk adopts a snapshot of the whole order.
Adapted(c) ==
    IF c.mode # "history" \/ Len(c.order) < SnapshotTrigger(c.recordedLen)
    THEN c
    ELSE IF IsPrefix(c.order, dict)
    THEN [c EXCEPT !.mode = "snapshot", !.pos = Len(c.order), !.order = dict]
    ELSE [c EXCEPT !.mode = "seen", !.seen = Range(c.order), !.order = <<>>,
                   !.next = 0, !.structural = TRUE]

\* The cursor after the version check, and when its form is settled.
Checked(c) == IF c.observed = reg.version THEN c ELSE Recovered(c)

Prepared(c) == Adapted(Checked(c))

\* The index walk's next position: the first key not seen from c.next on.
Candidates(c) == {i \in c.next..(Len(dict) - 1) :
                    c.mode = "seen" => dict[i + 1] \notin c.seen}

-----------------------------------------------------------------------------
(* History variable: the order at creation, the keys yielded, whether      *)
(* every step found that order again, whether the key yielded last was     *)
(* removed since, and whether a step found it put back at its old index.   *)

NoWalk == [start |-> <<>>, got |-> <<>>, steady |-> TRUE,
           lastGone |-> FALSE, relinked |-> FALSE]

Relinks(w, c) ==
    w.lastGone /\ IndexIn(dict, Last(w.got)) = c.lastIndex

Stepped(w, c) ==
    [w EXCEPT !.steady   = @ /\ dict = w.start,
              !.relinked = @ \/ Relinks(w, c),
              !.lastGone = FALSE]

Yielded(w, c, k) == [Stepped(w, c) EXCEPT !.got = Append(@, k)]

-----------------------------------------------------------------------------
Init ==
    /\ dict \in {s \in UNION {[1..n -> Keys] : n \in 0..Cardinality(Keys) - 1} :
                    IsInjective(s)}
    /\ reg = FreshRegistration(0)
    /\ cursors = [c \in Cursors |-> FreeCursor]
    /\ probe = {}
    /\ walk = [c \in Cursors |-> NoWalk]

\* iter(d), or the entry of a loop over d: the first observer restarts a
\* registration that was kept, or finds it evicted and builds a new one.
Iter(c) ==
    /\ probe = {}
    /\ cursors[c].phase = "free"
    /\ LET r == IF reg.observers = 0 THEN FreshRegistration(Len(dict)) ELSE reg
       IN  /\ reg' = Attach(r)
           /\ cursors' = [cursors EXCEPT ![c] = NewCursor(r.version)]
    /\ walk' = [walk EXCEPT ![c] = [NoWalk EXCEPT !.start = dict]]
    /\ UNCHANGED <<dict, probe>>

\* Watches of k that no iterator answers for any more.
Leaks(k) ==
    reg.watchers[k]
        - Cardinality({d \in Cursors : cursors[d].watching /\ cursors[d].lastKey = k})

\* The iterator object goes (a loop is left by break).  Nothing releases the
\* terminal watch on this path: it stays until the last observer is gone.
Drop(c) ==
    /\ probe = {}
    /\ cursors[c].phase # "free"
    /\ cursors[c].watching /\ reg.observers > 1 => Leaks(cursors[c].lastKey) < MaxLeaks
    /\ cursors' = [cursors EXCEPT ![c] = FreeCursor]
    /\ reg' = IF cursors[c].phase = "walking" THEN Detach(reg) ELSE reg
    /\ walk' = [walk EXCEPT ![c] = NoWalk]
    /\ UNCHANGED <<dict, probe>>

\* The walk ends: the cursor lets go of the registration.
End(c, phase) ==
    /\ cursors' = [cursors EXCEPT ![c] = Released(phase)]
    /\ walk' = [walk EXCEPT ![c] = NoWalk]

CanStep(c) ==
    /\ cursors[c].phase = "walking"
    /\ probe \subseteq {c}

SizeChanged(c) ==
    /\ cursors[c].observed # reg.version
    /\ Len(dict) # cursors[c].recordedLen

\* advance_live_key_cursor: the size guard.
StepSizeError(c) ==
    /\ CanStep(c)
    /\ SizeChanged(c)
    /\ reg' = ReleaseFrom(reg, cursors[c])
    /\ End(c, "resized")
    /\ UNCHANGED <<dict, probe>>

\* The quota is used up and the last key was relinked, or a further key is
\* there: the one-shot "keys changed" error.
QuotaViolated(c) ==
    LET p == Prepared(c)
    IN  /\ p.remaining = 0
        /\ \/ Checked(c).structural
           \/ p.mode # "snapshot" /\ Candidates(p) # {}

StepKeysError(c) ==
    LET p == Prepared(cursors[c])
    IN  /\ CanStep(c)
        /\ ~SizeChanged(c)
        /\ QuotaViolated(cursors[c])
        /\ reg' = ReleaseFrom(reg, p)
        /\ End(c, "changed")
        /\ UNCHANGED <<dict, probe>>

\* No key is left: plain exhaustion.
StepExhausted(c) ==
    LET p == Prepared(cursors[c])
    IN  /\ CanStep(c)
        /\ ~SizeChanged(c)
        /\ ~QuotaViolated(cursors[c])
        /\ IF p.mode = "snapshot" THEN p.pos >= Len(p.order) ELSE Candidates(p) = {}
        /\ reg' = ReleaseFrom(reg, p)
        /\ End(c, "done")
        /\ UNCHANGED <<dict, probe>>

\* advance_snapshot_key_cursor, advance_frozen_key_cursor and next_frozen_key:
\* the next key of the captured order; the last one installs the watch.
StepSnapshot(c) ==
    LET p == Prepared(cursors[c])
        k == p.order[p.pos + 1]
        last == p.pos + 1 = p.recordedLen /\ ~p.watching
    IN  /\ CanStep(c)
        /\ ~SizeChanged(c)
        /\ p.mode = "snapshot"
        /\ p.pos < Len(p.order)
        /\ cursors' = [cursors EXCEPT ![c] =
              IF last
              THEN [p EXCEPT !.pos = @ + 1, !.lastKey = k, !.lastIndex = p.pos,
                             !.watching = TRUE, !.entryCursor = reg.layout.entries]
              ELSE [p EXCEPT !.pos = @ + 1]]
        /\ reg' = IF last THEN WatchKey(reg, k) ELSE reg
        /\ walk' = [walk EXCEPT ![c] = Yielded(@, p, k)]
        /\ UNCHANGED <<dict, probe>>

\* emit_live_key_item: the next unseen key of the live order.
StepLive(c) ==
    LET p == Prepared(cursors[c])
        i == CHOOSE j \in Candidates(p) : \A m \in Candidates(p) : j <= m
        k == dict[i + 1]
        last == p.remaining = 1 /\ ~p.watching
        q == [p EXCEPT !.next = i + 1, !.lastKey = k, !.lastIndex = i,
                       !.remaining = @ - 1,
                       !.order = IF p.mode = "history" THEN Append(@, k) ELSE @,
                       !.seen = IF p.mode = "seen" THEN @ \union {k} ELSE @]
    IN  /\ CanStep(c)
        /\ ~SizeChanged(c)
        /\ p.mode # "snapshot"
        /\ ~QuotaViolated(cursors[c])
        /\ Candidates(p) # {}
        /\ cursors' = [cursors EXCEPT ![c] =
              IF last
              THEN [q EXCEPT !.watching = TRUE, !.entryCursor = reg.layout.entries]
              ELSE q]
        /\ reg' = IF last THEN WatchKey(reg, k) ELSE reg
        /\ walk' = [walk EXCEPT ![c] = Yielded(@, p, k)]
        /\ UNCHANGED <<dict, probe>>

\* copy.copy(it) and it.__reduce__(): a clone of the cursor, which takes its
\* own reference to the watch, is drained before anything else runs.
ReduceCopy(c, p) ==
    /\ probe = {}
    /\ cursors[c].phase = "walking"
    /\ cursors[p].phase = "free"
    /\ cursors' = [cursors EXCEPT ![p] = cursors[c]]
    /\ reg' = Attach(IF cursors[c].watching THEN WatchKey(reg, cursors[c].lastKey) ELSE reg)
    /\ walk' = [walk EXCEPT ![p] = walk[c]]
    /\ probe' = {p}
    /\ UNCHANGED dict

\* The drained clone is dropped.
ProbeDone(p) ==
    /\ probe = {p}
    /\ cursors[p].phase \in Ended
    /\ probe' = {}
    /\ cursors' = [cursors EXCEPT ![p] = FreeCursor]
    /\ walk' = [walk EXCEPT ![p] = NoWalk]
    /\ UNCHANGED <<dict, reg>>

-----------------------------------------------------------------------------
(* Mutations.  With no observer the registration is not touched.           *)

Mutate(after, reset) ==
    /\ probe = {}
    /\ reg.observers # 0 => reg.version < MaxVersion
    /\ Len(after) < Cardinality(Keys)
    /\ dict' = after
    /\ reg' = IF reg.observers = 0 THEN reg ELSE TrackedMutation(reg, dict, after, reset)
    /\ walk' = [c \in Cursors |->
                  [walk[c] EXCEPT
                      !.lastGone = @ \/ /\ cursors[c].phase = "walking"
                                        /\ walk[c].got # <<>>
                                        /\ Last(walk[c].got) \notin Range(after)]]
    /\ UNCHANGED <<cursors, probe>>

\* d[k] = v: a present key keeps its place.
Insert(k) == Mutate(IF k \in Live THEN dict ELSE Append(dict, k), FALSE)

\* del d[k] and d.pop(k)
ShiftRemove(k) ==
    k \in Live /\ \E after \in Without(dict, {k}) : Mutate(after, FALSE)

\* dict_shift_remove_many: several keys in one transaction.
ShiftRemoveMany(K) == \E after \in Without(dict, K) : Mutate(after, FALSE)

Clear == Mutate(<<>>, TRUE)

\* d.update(other): several new keys in one transaction.
Extend(s) == \E new \in Without(s, Live) : Mutate(dict \o new, FALSE)

Pairs == {s \in [1..2 -> Keys] : s[1] # s[2]}

Next ==
    \/ \E c \in Cursors :
          \/ Iter(c) \/ Drop(c) \/ ProbeDone(c)
          \/ StepSizeError(c) \/ StepKeysError(c) \/ StepExhausted(c)
          \/ StepSnapshot(c) \/ StepLive(c)
          \/ \E p \in Cursors : ReduceCopy(c, p)
    \/ \E k \in Keys : Insert(k) \/ ShiftRemove(k)
    \/ \E s \in Pairs : Extend(s) \/ ShiftRemoveMany(Range(s))
    \/ Clear

Spec == Init /\ [][Next]_vars

-----------------------------------------------------------------------------
TypeOK ==
    /\ dict \in UNION {[1..n -> Keys] : n \in 0..Cardinality(Keys)} /\ IsInjective(dict)
    /\ reg.version \in 0..MaxVersion
    /\ reg.observers \in 0..Cardinality(Cursors)
    /\ \A c \in Cursors :
          /\ cursors[c].phase \in Ended \union {"free", "walking"}
          /\ cursors[c].mode \in {"history", "snapshot", "seen"}
          /\ cursors[c].remaining \in 0..Cardinality(Keys)
          /\ cursors[c].lastKey \in Keys \union {NoKey}
          /\ cursors[c].mode # "snapshot" \/ cursors[c].pos <= Len(cursors[c].order)
    /\ probe \in {{}} \union {{p} : p \in Cursors}

\* No iterator hands out a key twice or more keys than the dictionary had when
\* it was created, whatever is removed, put back and replaced in between, and
\* whichever of its three forms holds the walk.
NoKeyTwice ==
    \A c \in Cursors :
        /\ IsInjective(walk[c].got)
        /\ Len(walk[c].got) <= Len(walk[c].start)

\* A cursor that sees the version it observed may read entries by position
\* (value_at, entry_at): its snapshot is the live order.  This is what lets
\* advance_snapshot_key_cursor skip the key lookup and the length check.
SnapshotIsCurrent ==
    \A c \in Cursors :
        cursors[c].phase = "walking" /\ cursors[c].observed = reg.version =>
            CASE cursors[c].mode = "snapshot" -> cursors[c].order = dict
              [] cursors[c].mode = "history"  -> IsPrefix(cursors[c].order, dict)
              [] OTHER -> Len(dict) = cursors[c].recordedLen

\* Every walking cursor holds the registration open, and every cursor that
\* has yielded its quota still has a watch on its last key, so that neither
\* another iterator's end nor a drained copy retires it.
WatchHeld ==
    /\ reg.observers = Cardinality({c \in Cursors : cursors[c].phase = "walking"})
    /\ \A k \in Keys :
          Cardinality({c \in Cursors : cursors[c].watching /\ cursors[c].lastKey = k})
              <= reg.watchers[k]

\* While anyone observes the dictionary the virtual table counts its keys,
\* and a key is noted as reinserted only while somebody watches it.
LayoutIsCurrent ==
    reg.observers # 0 =>
        /\ reg.layout.live = Len(dict)
        /\ reg.layout.entries >= reg.layout.live
        /\ reg.layout.usable >= 0
        /\ \A k \in reg.pending : reg.watchers[k] > 0 /\ k \notin Live
        /\ \A k \in Keys : reg.reinserted[k] # NotReinserted => reg.watchers[k] > 0

\* What the registration counts is there: its observers, their watches and
\* the keys of the dictionary (CollectionMutationState).
RegistrationSound == TypeOK /\ WatchHeld /\ LayoutIsCurrent

\* An iterator whose every step found the dictionary in its original order
\* yields that order, however often keys came and went between the steps.
InOrderWhileSteady ==
    \A c \in Cursors : walk[c].steady => IsPrefix(walk[c].got, walk[c].start)

\* What an iterator hands out is a walk: no key twice, and in order as long
\* as it meets no other order (advance_live_key_cursor).
YieldsSound == NoKeyTwice /\ InOrderWhileSteady

Ends(c, phase) == cursors[c].phase = "walking" /\ cursors'[c].phase = phase

\* Plain exhaustion means every live key was handed out.  The one exception
\* the code has: the key yielded last was removed and put back, and other
\* removals brought it to its old index again, so that no restart happens.
StopMeansComplete ==
    [][\A c \in Cursors :
          Ends(c, "done") => \/ Stepped(walk[c], Prepared(cursors[c])).relinked
                             \/ Live \subseteq Range(walk[c].got)]_vars

\* "dictionary keys changed" is raised only by an iterator that found another
\* order at some step, or whose last key was removed and put back since.
ErrorIsEarned ==
    [][\A c \in Cursors :
          Ends(c, "changed") => \/ ~Stepped(walk[c], Prepared(cursors[c])).steady
                                \/ walk[c].lastGone]_vars
=============================================================================
