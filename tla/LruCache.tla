------------------------------ MODULE LruCache ------------------------------
(***************************************************************************)
(* functools.lru_cache: the wrapper object, its dict and the private       *)
(* doubly linked list that orders the keys by their last use (functools.rs *)
(* and functools/lru_*.inc.rs).                                            *)
(*                                                                         *)
(* The wrapped function is any code, and so is the __eq__ of a key that is *)
(* an instance: both may call the wrapper again or clear its cache.        *)
(* `stack` holds the calls of the wrapper that have not returned, the last *)
(* one running.  cache_clear() installs a new dict, so a call may still    *)
(* hold one that is no longer the cache.                                   *)
(***************************************************************************)
EXTENDS Integers, SequencesExt, FiniteSetsExt

CONSTANTS
    Key,        \* arguments, as build_key() makes keys of them
    Objects,    \* the ones that are or contain instances with an __eq__
    MaxSizes,   \* values of the maxsize parameter
    None,       \* no node; also the maxsize of an unbounded cache
    MaxCalls,   \* bound: calls of the wrapper
    MaxDepth,   \* bound: calls that have not returned
    MaxClears   \* bound: calls of cache_clear()

ASSUME LruAssumption ==
    /\ Objects \subseteq Key
    /\ MaxSizes \subseteq Nat \cup {None} /\ MaxSizes # {} /\ None \notin Nat
    /\ {MaxCalls, MaxDepth, MaxClears} \subseteq Nat
    /\ None \notin [key : Key, previous : Nat \cup {None}, next : Nat \cup {None}]

VARIABLES
    maxsize,   \* _maxsize
    dicts,     \* every dict that has been _cache; the last one is
    links,     \* _links: nodes, free, head and tail
    hits,      \* _hits
    misses,    \* _misses
    stack,     \* calls of the wrapper
    calls,     \* calls so far
    torn       \* the last clear came while insert_cache was looking its key up

vars == <<maxsize, dicts, links, hits, misses, stack, calls, torn>>

Bounded == maxsize # None

EmptyDict == [k \in {} |-> None]

EmptyLinks == [nodes |-> <<>>, free |-> <<>>, head |-> None, tail |-> None]

Top == Last(stack)

Returned == Front(stack)

Held == dicts[Top.held]

-----------------------------------------------------------------------------
(* The list.  A freed node is None until it is used again.                 *)
NodeAt(l, i) == IF i \in DOMAIN l.nodes THEN l.nodes[i] ELSE None

SetNext(l, i, next) ==
    IF NodeAt(l, i) # None THEN [l EXCEPT !.nodes[i].next = next] ELSE [l EXCEPT !.head = next]

SetPrevious(l, i, previous) ==
    IF NodeAt(l, i) # None THEN [l EXCEPT !.nodes[i].previous = previous] ELSE l

(* The node that insert_mru() takes.                                       *)
FreshNode(l) == IF l.free = <<>> THEN Len(l.nodes) + 1 ELSE Last(l.free)

InsertMru(l, k) ==
    LET i == FreshNode(l)
        node == [key |-> k, previous |-> l.tail, next |-> None]
        placed == IF l.free = <<>> THEN [l EXCEPT !.nodes = Append(@, node)]
                  ELSE [l EXCEPT !.nodes[i] = node, !.free = Front(@)]
    IN [SetNext(placed, l.tail, i) EXCEPT !.tail = i]

\* mutant: the node after the promoted one keeps its previous link
PromoteOneWay(l, i) ==
    IF l.tail = i \/ NodeAt(l, i) = None THEN l
    ELSE LET node == l.nodes[i]
             last == SetNext(SetNext(l, node.previous, node.next), l.tail, i)
         IN [last EXCEPT !.nodes[i].previous = l.tail, !.nodes[i].next = None, !.tail = i]

Promote(l, i) ==
    IF l.tail = i \/ NodeAt(l, i) = None THEN l
    ELSE LET node == l.nodes[i]
             out == SetPrevious(SetNext(l, node.previous, node.next), node.next, node.previous)
             last == IF NodeAt(out, l.tail) # None THEN [out EXCEPT !.nodes[l.tail].next = i] ELSE out
         IN [last EXCEPT !.nodes[i].previous = l.tail, !.nodes[i].next = None, !.tail = i]

RemoveNode(l, i) ==
    LET node == l.nodes[i]
        taken == [l EXCEPT !.nodes[i] = None]
        front == SetNext(taken, node.previous, node.next)
        out == IF NodeAt(front, node.next) # None THEN SetPrevious(front, node.next, node.previous)
               ELSE [front EXCEPT !.tail = node.previous]
    IN [out EXCEPT !.free = Append(@, i)]

-----------------------------------------------------------------------------
(* Any code may run outside the wrapper, in the wrapped function, and in   *)
(* an __eq__ that the lookup of a key calls: that of the key or that of a  *)
(* stored one, which may be the equal key the lookup is about to find.     *)
EqRuns ==
    /\ stack # <<>> /\ Top.pc \in {"lookup", "recheck"}
    /\ \E k \in DOMAIN Held : k \in Objects \/ Top.key \in Objects

UserCode == stack # <<>> => Top.pc = "function" \/ EqRuns

(* __call__, up to its lookup; a cache of size 0 has none.                 *)
Call(k) ==
    /\ UserCode
    /\ calls < MaxCalls /\ Len(stack) < MaxDepth
    /\ calls' = calls + 1
    /\ stack' = Append(stack, [key |-> k, held |-> Len(dicts),
                               pc |-> IF maxsize = 0 THEN "function" ELSE "lookup"])
    /\ misses' = IF maxsize = 0 THEN misses + 1 ELSE misses
    /\ UNCHANGED <<maxsize, dicts, links, hits, torn>>

\* mutant: a hit does not promote its key
HitForgetsPromotion ==
    /\ stack # <<>> /\ Top.pc = "lookup"
    /\ Top.key \in DOMAIN Held
    /\ hits' = hits + 1
    /\ stack' = Returned
    /\ UNCHANGED <<maxsize, dicts, links, misses, calls, torn>>

(* The lookup looks at the dict that the call holds.                       *)
Hit ==
    /\ stack # <<>> /\ Top.pc = "lookup"
    /\ Top.key \in DOMAIN Held
    /\ links' = IF Bounded /\ maxsize # 1 THEN Promote(links, Held[Top.key]) ELSE links
    /\ hits' = hits + 1
    /\ stack' = Returned
    /\ UNCHANGED <<maxsize, dicts, misses, calls, torn>>

Miss ==
    /\ stack # <<>> /\ Top.pc = "lookup"
    /\ Top.key \notin DOMAIN Held
    /\ misses' = misses + 1
    /\ stack' = Append(Returned, [Top EXCEPT !.pc = "function"])
    /\ UNCHANGED <<maxsize, dicts, links, hits, calls, torn>>

\* mutant: the entry is stored in the cache of the lookup
FunctionReturnsKeepsCache ==
    /\ stack # <<>> /\ Top.pc = "function"
    /\ stack' = IF maxsize = 0 THEN Returned ELSE Append(Returned, [Top EXCEPT !.pc = "recheck"])
    /\ UNCHANGED <<maxsize, dicts, links, hits, misses, calls, torn>>

(* The wrapped function returns: insert_cache fetches the cache again and  *)
(* looks the key up in it.                                                 *)
FunctionReturns ==
    /\ stack # <<>> /\ Top.pc = "function"
    /\ stack' = IF maxsize = 0 THEN Returned
                ELSE Append(Returned, [Top EXCEPT !.pc = "recheck", !.held = Len(dicts)])
    /\ UNCHANGED <<maxsize, dicts, links, hits, misses, calls, torn>>

(* The wrapped function or an __eq__ raises.                               *)
Raises ==
    /\ stack # <<>> /\ (Top.pc = "function" \/ EqRuns)
    /\ stack' = Returned
    /\ UNCHANGED <<maxsize, dicts, links, hits, misses, calls, torn>>

(* A call inside the function or inside __eq__ has stored the key.         *)
AlreadyThere ==
    /\ stack # <<>> /\ Top.pc = "recheck"
    /\ Top.key \in DOMAIN Held
    /\ stack' = Returned
    /\ UNCHANGED <<maxsize, dicts, links, hits, misses, calls, torn>>

Full == Bounded /\ Cardinality(DOMAIN Held) >= maxsize

(* pop_lru() and the removal of the key it returns.                        *)
Evicted ==
    IF Full /\ links.head # None
    THEN [links |-> RemoveNode(links, links.head),
          dict |-> Restrict(Held, DOMAIN Held \ {links.nodes[links.head].key})]
    ELSE [links |-> links, dict |-> Held]

Store ==
    /\ stack # <<>> /\ Top.pc = "recheck"
    /\ Top.key \notin DOMAIN Held
    /\ LET e == Evicted
           entry == IF Bounded THEN FreshNode(e.links) ELSE None
       IN /\ dicts' = [dicts EXCEPT ![Top.held] =
                [k \in DOMAIN e.dict \cup {Top.key} |-> IF k = Top.key THEN entry ELSE e.dict[k]]]
          /\ links' = IF Bounded THEN InsertMru(e.links, Top.key) ELSE links
    /\ stack' = Returned
    /\ UNCHANGED <<maxsize, hits, misses, calls, torn>>

CacheClear ==
    /\ UserCode
    /\ Len(dicts) <= MaxClears
    /\ dicts' = Append(dicts, EmptyDict)
    /\ links' = EmptyLinks
    /\ hits' = 0 /\ misses' = 0
    /\ torn' = \E f \in Range(stack) : f.pc = "recheck"
    /\ UNCHANGED <<maxsize, stack, calls>>

(* make_lru_wrapper.                                                       *)
Init ==
    /\ maxsize \in MaxSizes
    /\ dicts = <<EmptyDict>>
    /\ links = EmptyLinks
    /\ hits = 0 /\ misses = 0
    /\ stack = <<>>
    /\ calls = 0
    /\ torn = FALSE

Next ==
    \/ \E k \in Key : Call(k)
    \/ Hit
    \/ Miss
    \/ FunctionReturns
    \/ Raises
    \/ AlreadyThere
    \/ Store
    \/ CacheClear

Spec == Init /\ [][Next]_vars

-----------------------------------------------------------------------------
Cache == Last(dicts)

Links == 1 .. MaxCalls

TypeOK ==
    /\ maxsize \in MaxSizes
    /\ \A d \in Range(dicts) : DOMAIN d \subseteq Key /\ Range(d) \subseteq Links \cup {None}
    /\ {links.head, links.tail} \cup Range(links.free) \subseteq Links \cup {None}
    /\ \A f \in Range(stack) : f.pc \in {"lookup", "function", "recheck"} /\ f.held \in DOMAIN dicts
    /\ hits \in Nat /\ misses \in Nat

LiveIn(l) == {i \in DOMAIN l.nodes : l.nodes[i] # None}

Live == LiveIn(links)

(* The nodes that are not free, linked in both directions in the order s.  *)
InOrder(l, s) ==
    /\ l.head = IF s = <<>> THEN None ELSE Head(s)
    /\ l.tail = IF s = <<>> THEN None ELSE Last(s)
    /\ \A i \in DOMAIN s :
          /\ l.nodes[s[i]].previous = IF i = 1 THEN None ELSE s[i - 1]
          /\ l.nodes[s[i]].next = IF i = Len(s) THEN None ELSE s[i + 1]

(* The keys of the list, from the head.                                    *)
RecencyOf(l) ==
    LET s == CHOOSE s \in SetToSeqs(LiveIn(l)) : InOrder(l, s)
    IN [i \in DOMAIN s |-> l.nodes[s[i]].key]

Recency == RecencyOf(links)

(* The list is one doubly linked list: it runs from head to tail through   *)
(* every node that is not free, and each link has its converse (insert_mru, *)
(* promote and remove of LruLinks).                                        *)
ListIsSound ==
    /\ TypeOK
    /\ Range(links.free) = DOMAIN links.nodes \ Live /\ IsInjective(links.free)
    /\ \E s \in SetToSeqs(Live) : InOrder(links, s)

(* The list holds exactly the cached keys, every entry names the node of   *)
(* its own key, and there are never more than maxsize, through recursive   *)
(* calls, clears and exceptions.  Left out is what follows a cache_clear() *)
(* from an __eq__ that the second lookup of a miss calls: that call then   *)
(* stores its node in the list of the new cache and its entry in the old.  *)
ListIsCache ==
    Bounded /\ ~torn =>
        /\ Cardinality(Live) = Cardinality(DOMAIN Cache)
        /\ \A k \in DOMAIN Cache : Cache[k] \in Live /\ links.nodes[Cache[k]].key = k
        /\ Cardinality(DOMAIN Cache) <= maxsize

(* The orders that come from moving a key to the end.                      *)
MovedLast(old, k) == {Append(RemoveAt(old, i), k) : i \in {j \in DOMAIN old : old[j] = k}}

(* What a step does to the order of the keys.                              *)
LruStep ==
    LET old == Recency
        new == RecencyOf(links')
        clears == Len(dicts') > Len(dicts)
        hit == hits' > hits /\ Bounded
        stores == ~clears /\ dicts' # dicts /\ Bounded
    IN /\ clears => new = <<>>
       /\ hit => torn \/ Top.held # Len(dicts) \/ new \in MovedLast(old, Top.key)
       /\ stores =>
             torn \/ new = Append(IF Len(old) = maxsize THEN Tail(old) ELSE old, Top.key)
       /\ clears \/ hit \/ stores \/ new = old

(* A hit moves its own key to the end, and so it is with size one, where   *)
(* promotion is skipped; a stored result comes last and drives out the key *)
(* at the front and no other, and only from a full cache; a clear leaves   *)
(* nothing; no other step moves a key, whichever calls it interrupts.      *)
(* Left out are a hit in a dict that was replaced during its lookup, and   *)
(* what ListIsCache leaves out.                                            *)
LruOrder == [][LruStep]_vars
=============================================================================
