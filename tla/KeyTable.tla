------------------------------ MODULE KeyTable ------------------------------
(***************************************************************************)
(* What the probe order of a dict must be: that of a key table which is    *)
(* kept up to date by every operation, as CPython keeps it.  A table comes *)
(* with its kind, the layout that its keys have chosen; an operation is a  *)
(* function from a table and its kind to such a pair, and                  *)
(* EagerSuccessors collects them.                                          *)
(***************************************************************************)
EXTENDS DictTable

KindOf(k) == IF k \in Strings THEN "unicode" ELSE "general"

KeysOf(t) == Range(LiveKeys(t))

(* To look a key up in order to store it: a presized empty table takes the *)
(* layout of its first key, a table of strings becomes general before any  *)
(* other key is looked up.                                                 *)
EagerPrepare(t, kd, k) ==
    CASE kd = "unknown" -> <<[t EXCEPT !.unicode = k \in Strings], KindOf(k)>>
      [] kd = "unicode" /\ k \notin Strings -> <<PrepareGeneralInsert(t), "general">>
      [] OTHER -> <<t, kd>>

EagerInsert(t, kd, k) ==
    LET p == EagerPrepare(t, kd, k)
    IN <<RecordInserted(p[1], Item(k)), p[2]>>

EagerDelete(t, kd, keys) ==
    LET DeleteKey(u, k) == RecordRemoved(u, Item(k))
    IN <<FoldLeft(DeleteKey, t, SetToSeq(keys)), kd>>

(* popitem() takes the last key in the order of the dict, which            *)
(* move_to_end() can have made another one than the last of the table.     *)
EagerPop(t, kd, k) == <<RecordPopped(t, Item(k)), kd>>

(* An emptied dict is a fresh one.                                         *)
EagerCleared == <<NewTable(0, TRUE), "unicode">>

(* A copy has the same layout, unless that is sparse.                      *)
EagerCopied(t, kd) ==
    CASE t.live = 0 -> EagerCleared
      [] t.live # 0 /\ CopyPreservesLayout(t) -> <<t, kd>>
      [] OTHER -> <<CompactedCopy(t), kd>>

EagerSuccessors(t, kd) ==
    {EagerPrepare(t, kd, k) : k \in Key}
        \cup {EagerInsert(t, kd, k) : k \in Key \ KeysOf(t)}
        \cup {EagerDelete(t, kd, keys) : keys \in SUBSET KeysOf(t)}
        \cup {EagerPop(t, kd, k) : k \in KeysOf(t)}
        \cup {EagerCleared, EagerCopied(t, kd)}
=============================================================================
