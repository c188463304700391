--------------------------- MODULE EventLoop_proofs ---------------------------
(***************************************************************************)
(* Proofs about EventLoop for any tasks, futures, gathers and delays.      *)
(*                                                                         *)
(* The right to resume a task, and the report of a child to its gather,    *)
(* are tokens: a callback left with a future, or a handle in the queue.    *)
(* The inductive invariant says where each token is.  Resolving a future   *)
(* moves its tokens to the queue, so that cancel() - however far it goes   *)
(* along the awaits - moves tokens and neither makes nor loses one.        *)
(***************************************************************************)
EXTENDS EventLoop, FiniteSetTheorems, SequenceTheorems, WellFoundedInduction, TLAPS

Tokens == {"step", "wakeup", "gather_done"}

\* done in the sense of Future.done(): cancelled or finished
Settled(h, f) == h.state[f] \in {"CANCELLED", "FINISHED"}

\* finished with a result
Good(h, f) == h.state[f] = "FINISHED" /\ ~ h.failed[f]

\* x is the token of the task o (k = 0), or of the k-th child of the gather o
IsToken(x, o, k) == x.call \in Tokens /\ x.of = o /\ x.index = k

SameToken(x, y) == x.call \in Tokens /\ IsToken(y, x.of, x.index)

Queued(h, o, k) == \E i \in 1 .. Len(h.ready) : IsToken(h.ready[i], o, k)

Left(h, o, k) ==
    \E f \in Awaitable : \E j \in 1 .. Len(h.callbacks[f]) :
        IsToken(h.callbacks[f][j], o, k)

Has(h, o, k) == Queued(h, o, k) \/ Left(h, o, k)

\* what a queued handle says about the task or gather it is for
HandleOK(h, gs, x) ==
    /\ x.call = "step" =>
          x.of \in Task /\ x.index = 0 /\ h.fut_waiter[x.of] = None
    /\ x.call = "wakeup" =>
          /\ x.of \in Task /\ x.index = 0 /\ x.arg \in Awaitable
          /\ h.fut_waiter[x.of] = x.arg /\ Settled(h, x.arg)
    /\ x.call = "gather_done" =>
          /\ x.of \in Gathering /\ h.state[x.of] # "UNBORN"
          /\ x.index \in 1 .. Len(gs[x.of].children)
          /\ x.arg \in Awaitable /\ x.arg = gs[x.of].children[x.index]
          /\ Settled(h, x.arg)
    /\ x.call = "stop" => Settled(h, Main)
    /\ x.call = "set_result" => x.of \in Future
    /\ x.call = "timeout" => x.of \in Task /\ x.arg \in Awaitable
    /\ x.cancelled => x.call = "timeout"

\* what a callback left with f says
CallbackOK(h, gs, f, c) ==
    /\ h.state[f] = "PENDING"
    /\ c.call = "wakeup" => c.of \in Task /\ c.index = 0 /\ h.fut_waiter[c.of] = f
    /\ c.call = "gather_done" =>
          /\ c.of \in Gathering /\ h.state[c.of] # "UNBORN"
          /\ c.index \in 1 .. Len(gs[c.of].children)
          /\ f = gs[c.of].children[c.index]
    /\ c.call = "stop" => f = Main

HandlesOK(h, gs) == \A i \in 1 .. Len(h.ready) : HandleOK(h, gs, h.ready[i])

CallbacksOK(h, gs) ==
    \A f \in Awaitable : \A j \in 1 .. Len(h.callbacks[f]) :
        CallbackOK(h, gs, f, h.callbacks[f][j])

\* no token is twice in the queue
OnceQueued(h) ==
    \A i, j \in 1 .. Len(h.ready) : SameToken(h.ready[i], h.ready[j]) => i = j

\* nor left with two futures
OnceLeft(h) ==
    \A e, f \in Awaitable :
        \A i \in 1 .. Len(h.callbacks[e]), j \in 1 .. Len(h.callbacks[f]) :
            SameToken(h.callbacks[e][i], h.callbacks[f][j]) => e = f /\ i = j

\* nor in both places
QueuedOrLeft(h) ==
    \A i \in 1 .. Len(h.ready), f \in Awaitable :
        \A j \in 1 .. Len(h.callbacks[f]) :
            ~ SameToken(h.ready[i], h.callbacks[f][j])

Body(h, gs) ==
    /\ h \in Heap
    /\ HandlesOK(h, gs)
    /\ CallbacksOK(h, gs)
    /\ OnceQueued(h)
    /\ OnceLeft(h)
    /\ QueuedOrLeft(h)

\* a pending task runs or has its token; rt is the running task
TasksOK(h, rt) ==
    \A t \in Task :
        /\ Has(h, t, 0) <=> h.state[t] = "PENDING" /\ rt # t
        /\ rt = t => h.state[t] = "PENDING"
        /\ rt = t \/ h.state[t] # "PENDING" => h.fut_waiter[t] = None

\* the children of g whose report has been taken
Reported(h, gs, g) == {k \in 1 .. Len(gs[g].children) : ~ Has(h, g, k)}

GatherOK(h, gs, g) ==
    /\ h.state[g] = "PENDING" =>
          /\ gs[g].nfinished = Cardinality(Reported(h, gs, g))
          /\ \A k \in Reported(h, gs, g) : Good(h, gs[g].children[k])
    /\ Good(h, g) =>
          \A k \in 1 .. Len(gs[g].children) : Good(h, gs[g].children[k])
    /\ h.state[g] = "UNBORN" => gs[g].nfinished = 0

GathersOK(h, gs) == \A g \in Gathering : GatherOK(h, gs, g)

GathersType == [Gathering -> [children : Seq(Awaitable), nfinished : Nat]]

HeapInv(h, gs, rt) == Body(h, gs) /\ TasksOK(h, rt) /\ GathersOK(h, gs)

-----------------------------------------------------------------------------
(* What an operation leaves as it was *)

Keeps(h, r) ==
    /\ r.state = h.state /\ r.failed = h.failed
    /\ r.callbacks = h.callbacks /\ r.fut_waiter = h.fut_waiter

\* the queue only grows at its end, and not by timeouts
QueueGrows(h, r) ==
    /\ Len(h.ready) <= Len(r.ready)
    /\ \A i \in 1 .. Len(h.ready) : r.ready[i] = h.ready[i]
    /\ \A i \in 1 .. Len(r.ready) : i > Len(h.ready) => r.ready[i].call # "timeout"

SameTokens(h, r) == \A o, k : Has(r, o, k) <=> Has(h, o, k)

\* the effect of _schedule_callbacks on the heap, position by position
ResolvedAs(h, r, f, st, fl) ==
    /\ r \in Heap
    /\ \A x \in Awaitable : r.state[x] = IF x = f THEN st ELSE h.state[x]
    /\ \A x \in Awaitable : r.failed[x] = IF x = f THEN fl ELSE h.failed[x]
    /\ \A x \in Awaitable : r.callbacks[x] = IF x = f THEN <<>> ELSE h.callbacks[x]
    /\ r.fut_waiter = h.fut_waiter
    /\ r.must_cancel = h.must_cancel
    /\ r.hidden = h.hidden
    /\ Len(r.ready) = Len(h.ready) + Len(h.callbacks[f])
    /\ \A i \in 1 .. Len(h.ready) : r.ready[i] = h.ready[i]
    /\ \A j \in 1 .. Len(h.callbacks[f]) :
          r.ready[Len(h.ready) + j] =
              NewHandle(h.callbacks[f][j].call, h.callbacks[f][j].of,
                        h.callbacks[f][j].index, f)

\* The fields of a heap have their types.
LEMMA HeapFields ==
    ASSUME NEW h \in Heap
    PROVE  /\ h.state \in [Awaitable -> {"UNBORN", "PENDING", "CANCELLED", "FINISHED"}]
           /\ h.failed \in [Awaitable -> BOOLEAN]
           /\ h.callbacks \in [Awaitable -> Seq(Callback)]
           /\ h.fut_waiter \in [Task -> Awaitable \cup {None}]
           /\ h.must_cancel \in [Task -> BOOLEAN]
           /\ h.hidden \in SUBSET Future
           /\ h.ready \in Seq(Handle)
BY DEF Heap

\* What stands where in a concatenation.
LEMMA ConcatPlaces ==
    ASSUME NEW S, NEW s \in Seq(S), NEW u \in Seq(S)
    PROVE  /\ s \o u \in Seq(S)
           /\ Len(s \o u) = Len(s) + Len(u)
           /\ \A i \in 1 .. Len(s) : (s \o u)[i] = s[i]
           /\ \A j \in 1 .. Len(u) : (s \o u)[Len(s) + j] = u[j]
OBVIOUS

\* A heap whose changed fields have their types is a heap.
LEMMA HeapWith ==
    ASSUME NEW h \in Heap,
           NEW st \in [Awaitable -> {"UNBORN", "PENDING", "CANCELLED", "FINISHED"}],
           NEW fl \in [Awaitable -> BOOLEAN],
           NEW cbs \in [Awaitable -> Seq(Callback)],
           NEW q \in Seq(Handle)
    PROVE  [h EXCEPT !.state = st, !.failed = fl, !.callbacks = cbs, !.ready = q] \in Heap
BY DEF Heap

\* A callback becomes a handle.
LEMMA NewHandleType ==
    ASSUME NEW c \in Callback, NEW f \in Awaitable
    PROVE  NewHandle(c.call, c.of, c.index, f) \in Handle
BY DEF Callback, Handle, NewHandle

\* The fields of a new handle.
LEMMA NewHandleFields ==
    ASSUME NEW call, NEW of, NEW index, NEW arg
    PROVE  LET x == NewHandle(call, of, index, arg)
           IN  /\ x.call = call /\ x.of = of /\ x.index = index
               /\ x.arg = arg /\ x.cancelled = FALSE
BY DEF NewHandle

\* Resolve is described position by position.
LEMMA ResolveIs ==
    ASSUME NEW h \in Heap, NEW f \in Awaitable,
           NEW st \in {"CANCELLED", "FINISHED"}, NEW fl \in BOOLEAN
    PROVE  ResolvedAs(h, Resolve(h, f, st, fl), f, st, fl)
<1> DEFINE cbs == h.callbacks[f]
           M == [i \in DOMAIN cbs |-> NewHandle(cbs[i].call, cbs[i].of, cbs[i].index, f)]
           r == Resolve(h, f, st, fl)
<1>1. cbs \in Seq(Callback) /\ h.ready \in Seq(Handle)
  BY HeapFields
<1>2. M \in Seq(Handle) /\ Len(M) = Len(cbs)
  <2>1. \A i \in 1 .. Len(cbs) : cbs[i] \in Callback
    BY <1>1
  <2>2. DOMAIN cbs = 1 .. Len(cbs) /\ Len(cbs) \in Nat
    BY <1>1
  <2> HIDE DEF cbs
  <2>3. \A i \in 1 .. Len(cbs) : NewHandle(cbs[i].call, cbs[i].of, cbs[i].index, f) \in Handle
    BY <2>1, NewHandleType
  <2> QED
    BY <2>2, <2>3
<1>3. \A j \in 1 .. Len(cbs) : M[j] = NewHandle(cbs[j].call, cbs[j].of, cbs[j].index, f)
  BY <1>1
<1>4. r = [h EXCEPT !.state[f] = st, !.failed[f] = fl, !.callbacks[f] = <<>>,
                    !.ready = h.ready \o M]
  BY HeapFields DEF Resolve
<1> HIDE DEF r, M
<1>5. /\ r.state = [h.state EXCEPT ![f] = st] /\ r.failed = [h.failed EXCEPT ![f] = fl]
      /\ r.callbacks = [h.callbacks EXCEPT ![f] = <<>>]
      /\ r.fut_waiter = h.fut_waiter /\ r.must_cancel = h.must_cancel
      /\ r.hidden = h.hidden /\ r.ready = h.ready \o M
  BY <1>4 DEF Heap
<1>6. r.ready \in Seq(Handle)
  BY <1>5, <1>1, <1>2
<1>7. r \in Heap
  <2> DEFINE S == [h.state EXCEPT ![f] = st]
             L == [h.failed EXCEPT ![f] = fl]
             C == [h.callbacks EXCEPT ![f] = <<>>]
             Q == h.ready \o M
  <2>1. /\ S \in [Awaitable -> {"UNBORN", "PENDING", "CANCELLED", "FINISHED"}]
        /\ L \in [Awaitable -> BOOLEAN]
        /\ C \in [Awaitable -> Seq(Callback)]
    BY HeapFields
  <2>2. Q \in Seq(Handle)
    BY <1>1, <1>2
  <2>3. r = [h EXCEPT !.state = S, !.failed = L, !.callbacks = C, !.ready = Q]
    BY <1>4
  <2> HIDE DEF S, L, C, Q
  <2> QED
    BY <2>1, <2>2, <2>3, HeapWith
<1>8. /\ Len(r.ready) = Len(h.ready) + Len(cbs)
      /\ \A i \in 1 .. Len(h.ready) : r.ready[i] = h.ready[i]
      /\ \A j \in 1 .. Len(cbs) : r.ready[Len(h.ready) + j] = M[j]
  <2>1. M \in Seq(Handle) /\ h.ready \in Seq(Handle) /\ r.ready = h.ready \o M
    BY <1>1, <1>2, <1>5
  <2>2. /\ Len(r.ready) = Len(h.ready) + Len(M)
        /\ \A i \in 1 .. Len(h.ready) : r.ready[i] = h.ready[i]
        /\ \A j \in 1 .. Len(M) : r.ready[Len(h.ready) + j] = M[j]
    BY <2>1, ConcatPlaces
  <2> HIDE DEF cbs
  <2> QED
    BY <1>2, <2>2
<1>9. /\ \A x \in Awaitable : r.state[x] = IF x = f THEN st ELSE h.state[x]
      /\ \A x \in Awaitable : r.failed[x] = IF x = f THEN fl ELSE h.failed[x]
      /\ \A x \in Awaitable : r.callbacks[x] = IF x = f THEN <<>> ELSE h.callbacks[x]
  BY <1>5, HeapFields
<1> QED
  BY <1>3, <1>5, <1>7, <1>8, <1>9 DEF ResolvedAs, r

-----------------------------------------------------------------------------
(* Resolving a future moves its tokens to the queue *)

\* x is the handle that the callback c of f becomes
MadeOf(x, c, f) ==
    x.call = c.call /\ x.of = c.of /\ x.index = c.index /\ x.arg = f /\ ~ x.cancelled

\* NewHandle makes it.
LEMMA NewHandleMade ==
    ASSUME NEW c, NEW f
    PROVE  MadeOf(NewHandle(c.call, c.of, c.index, f), c, f)
BY DEF NewHandle, MadeOf

\* A handle made of a callback is the same token.
LEMMA MadeIsSame ==
    ASSUME NEW x, NEW c, NEW f, MadeOf(x, c, f)
    PROVE  /\ \A o, k : IsToken(x, o, k) <=> IsToken(c, o, k)
           /\ \A z : SameToken(x, z) <=> SameToken(c, z)
           /\ \A z : SameToken(z, x) <=> SameToken(z, c)
BY DEF MadeOf, SameToken, IsToken

\* Being the same token is symmetric.
LEMMA SameSym ==
    ASSUME NEW x, NEW y, SameToken(x, y)
    PROVE  SameToken(y, x)
BY DEF SameToken, IsToken

\* The lengths of queues and callback lists are naturals.
LEMMA HeapLens ==
    ASSUME NEW h \in Heap
    PROVE  Len(h.ready) \in Nat /\ \A f \in Awaitable : Len(h.callbacks[f]) \in Nat
BY HeapFields

\* After _schedule_callbacks each place of the queue holds an old handle or
\* one made of a callback.
LEMMA ResolvedPlaces ==
    ASSUME NEW h \in Heap, NEW r, NEW f \in Awaitable, NEW st, NEW fl,
           ResolvedAs(h, r, f, st, fl)
    PROVE  /\ \A i \in 1 .. Len(h.ready) :
                 i \in 1 .. Len(r.ready) /\ r.ready[i] = h.ready[i]
           /\ \A j \in 1 .. Len(h.callbacks[f]) :
                 /\ Len(h.ready) + j \in 1 .. Len(r.ready)
                 /\ MadeOf(r.ready[Len(h.ready) + j], h.callbacks[f][j], f)
           /\ \A i \in 1 .. Len(r.ready) :
                 \/ i \in 1 .. Len(h.ready) /\ r.ready[i] = h.ready[i]
                 \/ \E j \in 1 .. Len(h.callbacks[f]) :
                       /\ i = Len(h.ready) + j
                       /\ MadeOf(r.ready[i], h.callbacks[f][j], f)
<1> DEFINE n == Len(h.ready)
           m == Len(h.callbacks[f])
           N == Len(r.ready)
<1>1. n \in Nat /\ m \in Nat /\ N = n + m
  BY HeapLens DEF ResolvedAs
<1>2. \A j \in 1 .. m : MadeOf(r.ready[n + j], h.callbacks[f][j], f)
  BY NewHandleMade DEF ResolvedAs
<1>3. \A i \in 1 .. n : r.ready[i] = h.ready[i]
  BY DEF ResolvedAs
<1> HIDE DEF n, m, N
<1>4. \A i \in 1 .. n : i \in 1 .. N
  BY <1>1
<1>5. \A j \in 1 .. m : n + j \in 1 .. N
  BY <1>1
<1>6. \A i \in 1 .. N : i \in 1 .. n \/ \E j \in 1 .. m : i = n + j
  <2> SUFFICES ASSUME NEW i \in 1 .. N, i \notin 1 .. n
               PROVE  \E j \in 1 .. m : i = n + j
    OBVIOUS
  <2>1. i - n \in 1 .. m /\ i = n + (i - n)
    BY <1>1
  <2> QED
    BY <2>1
<1> QED
  BY <1>2, <1>3, <1>4, <1>5, <1>6 DEF n, m, N

\* _schedule_callbacks neither makes nor loses a token.
LEMMA ResolvedTokens ==
    ASSUME NEW h \in Heap, NEW r, NEW f \in Awaitable, NEW st, NEW fl,
           ResolvedAs(h, r, f, st, fl)
    PROVE  SameTokens(h, r)
<1> SUFFICES ASSUME NEW o, NEW k
             PROVE  Has(r, o, k) <=> Has(h, o, k)
  BY DEF SameTokens
<1>2. \A e \in Awaitable : e # f => r.callbacks[e] = h.callbacks[e]
  BY DEF ResolvedAs
<1>3. Len(r.callbacks[f]) = 0
  BY DEF ResolvedAs
<1>4. ASSUME Queued(h, o, k) PROVE Queued(r, o, k)
  BY <1>4, ResolvedPlaces, SMTT(40) DEF Queued
<1>5. ASSUME Left(h, o, k) PROVE Has(r, o, k)
  <2> PICK e \in Awaitable : \E j \in 1 .. Len(h.callbacks[e]) :
                                 IsToken(h.callbacks[e][j], o, k)
    BY <1>5 DEF Left
  <2> PICK j \in 1 .. Len(h.callbacks[e]) : IsToken(h.callbacks[e][j], o, k)
    OBVIOUS
  <2>1. CASE e = f
    <3> DEFINE i == Len(h.ready) + j
    <3>1. i \in 1 .. Len(r.ready) /\ MadeOf(r.ready[i], h.callbacks[e][j], f)
      BY <2>1, ResolvedPlaces
    <3> HIDE DEF i
    <3> QED
      BY <3>1, MadeIsSame DEF Has, Queued
  <2>2. CASE e # f
    BY <2>2, <1>2 DEF Has, Left
  <2> QED
    BY <2>1, <2>2
<1>6. ASSUME Queued(r, o, k) PROVE Has(h, o, k)
  <2> PICK i \in 1 .. Len(r.ready) : IsToken(r.ready[i], o, k)
    BY <1>6 DEF Queued
  <2>1. CASE i \in 1 .. Len(h.ready) /\ r.ready[i] = h.ready[i]
    BY <2>1 DEF Has, Queued
  <2>2. ASSUME NEW j \in 1 .. Len(h.callbacks[f]), MadeOf(r.ready[i], h.callbacks[f][j], f)
        PROVE  Has(h, o, k)
    BY <2>2, MadeIsSame DEF Has, Left
  <2> QED
    BY <2>1, <2>2, ResolvedPlaces
<1>7. ASSUME Left(r, o, k) PROVE Left(h, o, k)
  <2> PICK e \in Awaitable : \E j \in 1 .. Len(r.callbacks[e]) :
                                 IsToken(r.callbacks[e][j], o, k)
    BY <1>7 DEF Left
  <2> PICK j \in 1 .. Len(r.callbacks[e]) : IsToken(r.callbacks[e][j], o, k)
    OBVIOUS
  <2>1. e # f
    BY <1>3
  <2> QED
    BY <2>1, <1>2 DEF Left
<1> QED
  BY <1>4, <1>5, <1>6, <1>7 DEF Has

\* _schedule_callbacks keeps what handles and callbacks say.
LEMMA ResolvedBody ==
    ASSUME NEW h, NEW gs, NEW r, NEW f \in Awaitable,
           NEW st \in {"CANCELLED", "FINISHED"}, NEW fl,
           Body(h, gs), h.state[f] = "PENDING", ResolvedAs(h, r, f, st, fl)
    PROVE  Body(r, gs) /\ QueueGrows(h, r)
<1>0. h \in Heap /\ r \in Heap
  BY DEF Body, ResolvedAs
<1>1. /\ \A x \in Awaitable : Settled(h, x) => Settled(r, x)
      /\ \A x \in Awaitable : h.state[x] # "UNBORN" => r.state[x] # "UNBORN"
      /\ Settled(r, f)
      /\ \A x \in Awaitable : x # f => r.state[x] = h.state[x]
      /\ r.fut_waiter = h.fut_waiter
  BY DEF ResolvedAs, Settled
<1>2. \A e \in Awaitable : e # f => r.callbacks[e] = h.callbacks[e]
  BY DEF ResolvedAs
<1>3. Len(r.callbacks[f]) = 0
  BY DEF ResolvedAs
<1>4. Gathering \subseteq Awaitable /\ Task \subseteq Awaitable /\ Main \in Awaitable
  BY LoopAssumption DEF Awaitable
<1>5. HandlesOK(r, gs)
  <2> SUFFICES ASSUME NEW i \in 1 .. Len(r.ready)
               PROVE  HandleOK(r, gs, r.ready[i])
    BY DEF HandlesOK
  <2>1. CASE i \in 1 .. Len(h.ready) /\ r.ready[i] = h.ready[i]
    <3>1. HandleOK(h, gs, r.ready[i])
      BY <2>1 DEF Body, HandlesOK
    <3>2. r.ready[i] \in Handle
      BY <1>0, HeapFields
    <3> QED
      BY <3>1, <3>2, <1>1, <1>4 DEF HandleOK
  <2>2. ASSUME NEW j \in 1 .. Len(h.callbacks[f]), MadeOf(r.ready[i], h.callbacks[f][j], f)
        PROVE  HandleOK(r, gs, r.ready[i])
    <3>1. CallbackOK(h, gs, f, h.callbacks[f][j])
      BY DEF Body, CallbacksOK
    <3>2. h.callbacks[f][j] \in Callback
      BY <1>0, HeapFields
    <3>3. h.callbacks[f][j].call \in {"wakeup", "gather_done", "stop"}
      BY <3>2 DEF Callback
    <3> QED
      BY <2>2, <3>1, <3>3, <1>1, <1>4 DEF HandleOK, CallbackOK, MadeOf
  <2> QED
    BY <2>1, <2>2, <1>0, ResolvedPlaces
<1>6. CallbacksOK(r, gs)
  <2> SUFFICES ASSUME NEW e \in Awaitable, NEW j \in 1 .. Len(r.callbacks[e])
               PROVE  CallbackOK(r, gs, e, r.callbacks[e][j])
    BY DEF CallbacksOK
  <2>1. e # f /\ r.callbacks[e] = h.callbacks[e]
    BY <1>2, <1>3
  <2>2. CallbackOK(h, gs, e, r.callbacks[e][j])
    BY <2>1 DEF Body, CallbacksOK
  <2> QED
    BY <2>1, <2>2, <1>1, <1>4 DEF CallbackOK
<1>7. OnceQueued(r)
  <2> SUFFICES ASSUME NEW i \in 1 .. Len(r.ready), NEW j \in 1 .. Len(r.ready),
                      SameToken(r.ready[i], r.ready[j])
               PROVE  i = j
    BY DEF OnceQueued
  <2>1. CASE /\ i \in 1 .. Len(h.ready) /\ r.ready[i] = h.ready[i]
             /\ j \in 1 .. Len(h.ready) /\ r.ready[j] = h.ready[j]
    BY <2>1 DEF Body, OnceQueued
  <2>2. ASSUME NEW c \in 1 .. Len(h.callbacks[f]), MadeOf(r.ready[i], h.callbacks[f][c], f),
               j \in 1 .. Len(h.ready), r.ready[j] = h.ready[j]
        PROVE  FALSE
    <3>1. SameToken(h.ready[j], h.callbacks[f][c])
      BY <2>2, MadeIsSame, SameSym
    <3> QED
      BY <2>2, <3>1 DEF Body, QueuedOrLeft
  <2>3. ASSUME NEW c \in 1 .. Len(h.callbacks[f]), MadeOf(r.ready[j], h.callbacks[f][c], f),
               i \in 1 .. Len(h.ready), r.ready[i] = h.ready[i]
        PROVE  FALSE
    <3>1. SameToken(h.ready[i], h.callbacks[f][c])
      BY <2>3, MadeIsSame
    <3> QED
      BY <2>3, <3>1 DEF Body, QueuedOrLeft
  <2>4. ASSUME NEW c \in 1 .. Len(h.callbacks[f]), MadeOf(r.ready[i], h.callbacks[f][c], f),
               NEW d \in 1 .. Len(h.callbacks[f]), MadeOf(r.ready[j], h.callbacks[f][d], f)
        PROVE  c = d
    <3>1. SameToken(h.callbacks[f][c], h.callbacks[f][d])
      BY <2>4, MadeIsSame
    <3> QED
      BY <3>1 DEF Body, OnceLeft
  <2>5. \/ i \in 1 .. Len(h.ready) /\ r.ready[i] = h.ready[i]
        \/ \E c \in 1 .. Len(h.callbacks[f]) :
              i = Len(h.ready) + c /\ MadeOf(r.ready[i], h.callbacks[f][c], f)
    BY <1>0, ResolvedPlaces
  <2>6. \/ j \in 1 .. Len(h.ready) /\ r.ready[j] = h.ready[j]
        \/ \E c \in 1 .. Len(h.callbacks[f]) :
              j = Len(h.ready) + c /\ MadeOf(r.ready[j], h.callbacks[f][c], f)
    BY <1>0, ResolvedPlaces
  <2> QED
    BY <2>1, <2>2, <2>3, <2>4, <2>5, <2>6
<1>8. OnceLeft(r)
  <2> SUFFICES ASSUME NEW e \in Awaitable, NEW g \in Awaitable,
                      NEW i \in 1 .. Len(r.callbacks[e]),
                      NEW j \in 1 .. Len(r.callbacks[g]),
                      SameToken(r.callbacks[e][i], r.callbacks[g][j])
               PROVE  e = g /\ i = j
    BY DEF OnceLeft
  <2>1. r.callbacks[e] = h.callbacks[e] /\ r.callbacks[g] = h.callbacks[g]
    BY <1>2, <1>3
  <2> QED
    BY <2>1 DEF Body, OnceLeft
<1>9. QueuedOrLeft(r)
  <2> SUFFICES ASSUME NEW i \in 1 .. Len(r.ready), NEW e \in Awaitable,
                      NEW j \in 1 .. Len(r.callbacks[e]),
                      SameToken(r.ready[i], r.callbacks[e][j])
               PROVE  FALSE
    BY DEF QueuedOrLeft
  <2>1. e # f /\ r.callbacks[e] = h.callbacks[e]
    BY <1>2, <1>3
  <2>2. CASE i \in 1 .. Len(h.ready) /\ r.ready[i] = h.ready[i]
    BY <2>1, <2>2 DEF Body, QueuedOrLeft
  <2>3. ASSUME NEW c \in 1 .. Len(h.callbacks[f]), MadeOf(r.ready[i], h.callbacks[f][c], f)
        PROVE  FALSE
    <3>1. SameToken(h.callbacks[f][c], h.callbacks[e][j])
      BY <2>1, <2>3, MadeIsSame
    <3> QED
      BY <2>1, <3>1 DEF Body, OnceLeft
  <2>4. \/ i \in 1 .. Len(h.ready) /\ r.ready[i] = h.ready[i]
        \/ \E c \in 1 .. Len(h.callbacks[f]) : MadeOf(r.ready[i], h.callbacks[f][c], f)
    BY <1>0, ResolvedPlaces
  <2> QED
    BY <2>2, <2>3, <2>4
<1>10. QueueGrows(h, r)
  <2>1. Len(h.ready) <= Len(r.ready)
    <3> DEFINE n == Len(h.ready)
               m == Len(h.callbacks[f])
    <3>1. n \in Nat /\ m \in Nat /\ Len(r.ready) = n + m
      BY <1>0, HeapLens DEF ResolvedAs
    <3> HIDE DEF n, m
    <3>2. n <= n + m
      BY <3>1
    <3> QED
      BY <3>1, <3>2 DEF n
  <2>2. \A i \in 1 .. Len(h.ready) : r.ready[i] = h.ready[i]
    BY DEF ResolvedAs
  <2>3. ASSUME NEW i \in 1 .. Len(r.ready), i > Len(h.ready)
        PROVE  r.ready[i].call # "timeout"
    <3>1. i \notin 1 .. Len(h.ready)
      BY <2>3, <1>0, HeapLens
    <3>2. PICK j \in 1 .. Len(h.callbacks[f]) : MadeOf(r.ready[i], h.callbacks[f][j], f)
      BY <3>1, <1>0, ResolvedPlaces
    <3>3. h.callbacks[f][j] \in Callback
      BY <1>0, HeapFields
    <3> QED
      BY <3>2, <3>3 DEF MadeOf, Callback
  <2> QED
    BY <2>1, <2>2, <2>3 DEF QueueGrows
<1> QED
  BY <1>0, <1>5, <1>6, <1>7, <1>8, <1>9, <1>10 DEF Body

-----------------------------------------------------------------------------
(* The other changes of a heap *)

\* the token (o, k) is new, all others are where they were
TokenAdded(h, r, o, k) == \A p, q : Has(r, p, q) <=> Has(h, p, q) \/ (p = o /\ q = k)

\* What the callbacks say does not depend on the queue.
LEMMA KeepsCallbacks ==
    ASSUME NEW h, NEW gs, NEW r, CallbacksOK(h, gs), Keeps(h, r)
    PROVE  CallbacksOK(r, gs)
<1> SUFFICES ASSUME NEW e \in Awaitable, NEW j \in 1 .. Len(h.callbacks[e])
             PROVE  CallbackOK(r, gs, e, h.callbacks[e][j])
  BY DEF CallbacksOK, Keeps
<1>1. CallbackOK(h, gs, e, h.callbacks[e][j])
  BY DEF CallbacksOK
<1> QED
  BY <1>1 DEF CallbackOK, Keeps

\* call_soon of a token nobody holds.
LEMMA AppendBody ==
    ASSUME NEW h, NEW gs, NEW r \in Heap, NEW x \in Handle,
           Body(h, gs), Keeps(h, r), r.ready = Append(h.ready, x),
           HandleOK(h, gs, x), x.call \in Tokens, ~ Has(h, x.of, x.index)
    PROVE  Body(r, gs) /\ TokenAdded(h, r, x.of, x.index) /\ QueueGrows(h, r)
<1> DEFINE n == Len(h.ready)
<1>0. h \in Heap /\ h.ready \in Seq(Handle) /\ n \in Nat
  BY HeapFields, HeapLens DEF Body
<1>1. Len(r.ready) = n + 1
  BY <1>0
<1>2. \A i \in 1 .. n : r.ready[i] = h.ready[i]
  BY <1>0
<1>3. r.ready[n + 1] = x
  BY <1>0
<1>4. \A i \in 1 .. Len(r.ready) : i \in 1 .. n \/ i = n + 1
  <2> HIDE DEF n
  <2> QED
    BY <1>0, <1>1
<1>5. (\A i \in 1 .. n : i \in 1 .. Len(r.ready)) /\ n + 1 \in 1 .. Len(r.ready)
  <2> HIDE DEF n
  <2> QED
    BY <1>0, <1>1
<1>6. \A y : HandleOK(h, gs, y) <=> HandleOK(r, gs, y)
  BY DEF Keeps, HandleOK, Settled
<1>7. HandlesOK(r, gs)
  BY <1>2, <1>3, <1>4, <1>6 DEF Body, HandlesOK
<1>8. CallbacksOK(r, gs)
  BY KeepsCallbacks DEF Body
<1>9. \A i \in 1 .. n : ~ SameToken(h.ready[i], x) /\ ~ SameToken(x, h.ready[i])
  BY DEF Has, Queued, SameToken, IsToken
<1>10. \A f \in Awaitable : \A j \in 1 .. Len(h.callbacks[f]) :
          ~ SameToken(x, h.callbacks[f][j])
  BY DEF Has, Left, SameToken
<1>11. OnceQueued(r)
  BY <1>2, <1>3, <1>4, <1>9 DEF Body, OnceQueued
<1>12. OnceLeft(r)
  BY DEF Body, OnceLeft, Keeps
<1>13. QueuedOrLeft(r)
  BY <1>2, <1>3, <1>4, <1>10 DEF Body, QueuedOrLeft, Keeps
<1>14. TokenAdded(h, r, x.of, x.index)
  <2> SUFFICES ASSUME NEW p, NEW q
               PROVE  Has(r, p, q) <=> Has(h, p, q) \/ (p = x.of /\ q = x.index)
    BY DEF TokenAdded
  <2>1. Left(r, p, q) <=> Left(h, p, q)
    BY DEF Left, Keeps
  <2>2. IsToken(x, p, q) <=> p = x.of /\ q = x.index
    BY DEF IsToken
  <2>3. Queued(r, p, q) <=> Queued(h, p, q) \/ IsToken(x, p, q)
    BY <1>2, <1>3, <1>4, <1>5 DEF Queued
  <2> QED
    BY <2>1, <2>2, <2>3 DEF Has
<1>15. QueueGrows(h, r)
  <2>1. n <= n + 1
    <3> HIDE DEF n
    <3> QED
      BY <1>0
  <2>2. x.call # "timeout"
    BY DEF Tokens
  <2>3. \A i \in 1 .. Len(r.ready) : i > n => i = n + 1
    <3> HIDE DEF n
    <3> QED
      BY <1>0, <1>4
  <2> QED
    BY <1>1, <1>2, <1>3, <2>1, <2>2, <2>3 DEF QueueGrows
<1> QED
  BY <1>7, <1>8, <1>11, <1>12, <1>13, <1>14, <1>15 DEF Body

\* add_done_callback on a pending future of a token nobody holds.
LEMMA RegisterBody ==
    ASSUME NEW h, NEW gs, NEW r \in Heap, NEW f \in Awaitable, NEW c,
           Body(h, gs), r.state = h.state, r.fut_waiter = h.fut_waiter,
           r.ready = h.ready,
           \A e \in Awaitable : e # f => r.callbacks[e] = h.callbacks[e],
           c \in Callback, r.callbacks[f] = Append(h.callbacks[f], c),
           CallbackOK(h, gs, f, c), c.call \in Tokens, ~ Has(h, c.of, c.index)
    PROVE  Body(r, gs) /\ TokenAdded(h, r, c.of, c.index) /\ QueueGrows(h, r)
<1> DEFINE n == Len(h.callbacks[f])
<1>0. h \in Heap /\ h.callbacks[f] \in Seq(Callback) /\ n \in Nat
  BY HeapFields, HeapLens DEF Body
<1>1. Len(r.callbacks[f]) = n + 1
  BY <1>0
<1>2. \A i \in 1 .. n : r.callbacks[f][i] = h.callbacks[f][i]
  BY <1>0
<1>3. r.callbacks[f][n + 1] = c
  BY <1>0
<1>4. \A i \in 1 .. Len(r.callbacks[f]) : i \in 1 .. n \/ i = n + 1
  <2> HIDE DEF n
  <2> QED
    BY <1>0, <1>1
<1>5. /\ \A i \in 1 .. n : i \in 1 .. Len(r.callbacks[f])
      /\ n + 1 \in 1 .. Len(r.callbacks[f])
  <2> HIDE DEF n
  <2> QED
    BY <1>0, <1>1
<1>6. \A e \in Awaitable : \A j \in 1 .. Len(r.callbacks[e]) :
         \/ j \in 1 .. Len(h.callbacks[e]) /\ r.callbacks[e][j] = h.callbacks[e][j]
         \/ e = f /\ j = n + 1 /\ r.callbacks[e][j] = c
  BY <1>2, <1>3, <1>4
<1>7. HandlesOK(r, gs)
  BY DEF Body, HandlesOK, HandleOK, Settled
<1>8. CallbacksOK(r, gs)
  <2> SUFFICES ASSUME NEW e \in Awaitable, NEW j \in 1 .. Len(r.callbacks[e])
               PROVE  CallbackOK(r, gs, e, r.callbacks[e][j])
    BY DEF CallbacksOK
  <2>1. CallbackOK(h, gs, e, r.callbacks[e][j])
    BY <1>6 DEF Body, CallbacksOK
  <2> QED
    BY <2>1 DEF CallbackOK
<1>9. \A i \in 1 .. Len(h.ready) : ~ SameToken(h.ready[i], c)
  BY DEF Has, Queued, SameToken, IsToken
<1>10. \A e \in Awaitable : \A j \in 1 .. Len(h.callbacks[e]) :
          ~ SameToken(c, h.callbacks[e][j]) /\ ~ SameToken(h.callbacks[e][j], c)
  BY DEF Has, Left, SameToken, IsToken
<1>11. OnceQueued(r)
  BY DEF Body, OnceQueued
<1>12. OnceLeft(r)
  <2> SUFFICES ASSUME NEW e \in Awaitable, NEW g \in Awaitable,
                      NEW i \in 1 .. Len(r.callbacks[e]),
                      NEW j \in 1 .. Len(r.callbacks[g]),
                      SameToken(r.callbacks[e][i], r.callbacks[g][j])
               PROVE  e = g /\ i = j
    BY DEF OnceLeft
  <2>1. CASE /\ i \in 1 .. Len(h.callbacks[e]) /\ r.callbacks[e][i] = h.callbacks[e][i]
             /\ j \in 1 .. Len(h.callbacks[g]) /\ r.callbacks[g][j] = h.callbacks[g][j]
    BY <2>1 DEF Body, OnceLeft
  <2> QED
    BY <2>1, <1>6, <1>10
<1>13. QueuedOrLeft(r)
  BY <1>6, <1>9 DEF Body, QueuedOrLeft
<1>14. TokenAdded(h, r, c.of, c.index)
  <2> SUFFICES ASSUME NEW p, NEW q
               PROVE  Has(r, p, q) <=> Has(h, p, q) \/ (p = c.of /\ q = c.index)
    BY DEF TokenAdded
  <2>1. Queued(r, p, q) <=> Queued(h, p, q)
    BY DEF Queued
  <2>2. IsToken(c, p, q) <=> p = c.of /\ q = c.index
    BY DEF IsToken
  <2>3. ASSUME Left(r, p, q) PROVE Left(h, p, q) \/ IsToken(c, p, q)
    BY <2>3, <1>6 DEF Left
  <2>4. ASSUME Left(h, p, q) PROVE Left(r, p, q)
    <3> PICK e \in Awaitable : \E j \in 1 .. Len(h.callbacks[e]) :
                                   IsToken(h.callbacks[e][j], p, q)
      BY <2>4 DEF Left
    <3> PICK j \in 1 .. Len(h.callbacks[e]) : IsToken(h.callbacks[e][j], p, q)
      OBVIOUS
    <3>1. j \in 1 .. Len(r.callbacks[e]) /\ r.callbacks[e][j] = h.callbacks[e][j]
      BY <1>2, <1>5
    <3> QED
      BY <3>1 DEF Left
  <2>5. ASSUME IsToken(c, p, q) PROVE Left(r, p, q)
    BY <2>5, <1>3, <1>5 DEF Left
  <2> QED
    BY <2>1, <2>2, <2>3, <2>4, <2>5 DEF Has
<1>15. QueueGrows(h, r)
  BY <1>0, HeapLens DEF QueueGrows
<1> QED
  BY <1>7, <1>8, <1>11, <1>12, <1>13, <1>14, <1>15 DEF Body

\* Handles that are no tokens are appended: the timers of _run_once.
LEMMA TimersBody ==
    ASSUME NEW h, NEW gs, NEW r \in Heap, NEW u \in Seq(Handle),
           Body(h, gs), Keeps(h, r), r.ready = h.ready \o u,
           \A i \in 1 .. Len(u) : u[i].call \notin Tokens /\ HandleOK(h, gs, u[i])
    PROVE  Body(r, gs) /\ SameTokens(h, r)
<1> DEFINE n == Len(h.ready)
           m == Len(u)
<1>0. h \in Heap /\ h.ready \in Seq(Handle) /\ n \in Nat /\ m \in Nat
  BY HeapFields, HeapLens DEF Body
<1>1. /\ Len(r.ready) = n + m
      /\ \A i \in 1 .. n : r.ready[i] = h.ready[i]
      /\ \A j \in 1 .. m : r.ready[n + j] = u[j]
  BY <1>0, ConcatPlaces
<1>2. \A i \in 1 .. n : i \in 1 .. Len(r.ready)
  <2> HIDE DEF n, m
  <2> QED
    BY <1>0, <1>1
<1>3. \A i \in 1 .. Len(r.ready) :
         \/ i \in 1 .. n /\ r.ready[i] = h.ready[i]
         \/ r.ready[i].call \notin Tokens /\ HandleOK(h, gs, r.ready[i])
  <2> SUFFICES ASSUME NEW i \in 1 .. Len(r.ready), i \notin 1 .. n
               PROVE  r.ready[i].call \notin Tokens /\ HandleOK(h, gs, r.ready[i])
    BY <1>1
  <2>1. i - n \in 1 .. m /\ i = n + (i - n)
    <3> HIDE DEF n, m
    <3> QED
      BY <1>0, <1>1
  <2>2. r.ready[i] = u[i - n]
    BY <2>1, <1>1
  <2> QED
    BY <2>1, <2>2
<1>4. \A y : HandleOK(h, gs, y) <=> HandleOK(r, gs, y)
  BY DEF Keeps, HandleOK, Settled
<1>5. HandlesOK(r, gs)
  BY <1>3, <1>4 DEF Body, HandlesOK
<1>6. CallbacksOK(r, gs)
  BY KeepsCallbacks DEF Body
<1>7. OnceQueued(r)
  BY <1>3 DEF Body, OnceQueued, SameToken, IsToken
<1>8. OnceLeft(r)
  BY DEF Body, OnceLeft, Keeps
<1>9. QueuedOrLeft(r)
  BY <1>3 DEF Body, QueuedOrLeft, Keeps, SameToken
<1>10. SameTokens(h, r)
  <2> SUFFICES ASSUME NEW p, NEW q
               PROVE  Has(r, p, q) <=> Has(h, p, q)
    BY DEF SameTokens
  <2>1. Left(r, p, q) <=> Left(h, p, q)
    BY DEF Left, Keeps
  <2>2. Queued(h, p, q) => Queued(r, p, q)
    BY <1>1, <1>2 DEF Queued
  <2>3. Queued(r, p, q) => Queued(h, p, q)
    BY <1>3 DEF Queued, IsToken
  <2> QED
    BY <2>1, <2>2, <2>3 DEF Has
<1> QED
  BY <1>5, <1>6, <1>7, <1>8, <1>9, <1>10 DEF Body

\* Handles are replaced in place by ones that differ only in being cancelled.
LEMMA DisarmBody ==
    ASSUME NEW h, NEW gs, NEW r \in Heap,
           Body(h, gs), Keeps(h, r), Len(r.ready) = Len(h.ready),
           \A i \in 1 .. Len(h.ready) :
              /\ r.ready[i].call = h.ready[i].call /\ r.ready[i].of = h.ready[i].of
              /\ r.ready[i].index = h.ready[i].index /\ r.ready[i].arg = h.ready[i].arg
              /\ r.ready[i].cancelled => h.ready[i].cancelled \/ h.ready[i].call = "timeout"
    PROVE  Body(r, gs) /\ SameTokens(h, r)
<1>1. \A i \in 1 .. Len(r.ready) : HandleOK(h, gs, h.ready[i])
  BY DEF Body, HandlesOK
<1>2. HandlesOK(r, gs)
  <2> SUFFICES ASSUME NEW i \in 1 .. Len(r.ready)
               PROVE  HandleOK(r, gs, r.ready[i])
    BY DEF HandlesOK
  <2> QED
    BY <1>1, SMTT(40) DEF HandleOK, Keeps, Settled
<1>3. CallbacksOK(r, gs)
  BY KeepsCallbacks DEF Body
<1>4. OnceQueued(r)
  BY DEF Body, OnceQueued, SameToken, IsToken
<1>5. OnceLeft(r)
  BY DEF Body, OnceLeft, Keeps
<1>6. QueuedOrLeft(r)
  BY DEF Body, QueuedOrLeft, Keeps, SameToken, IsToken
<1>7. SameTokens(h, r)
  <2> SUFFICES ASSUME NEW p, NEW q
               PROVE  Has(r, p, q) <=> Has(h, p, q)
    BY DEF SameTokens
  <2>1. Left(r, p, q) <=> Left(h, p, q)
    BY DEF Left, Keeps
  <2>2. Queued(h, p, q) <=> Queued(r, p, q)
    BY DEF Queued, IsToken
  <2> QED
    BY <2>1, <2>2 DEF Has
<1> QED
  BY <1>2, <1>3, <1>4, <1>5, <1>6, <1>7 DEF Body

\* The first handle is popped.
LEMMA PopBody ==
    ASSUME NEW h, NEW gs, NEW r \in Heap,
           Body(h, gs), Keeps(h, r), h.ready # <<>>, r.ready = Tail(h.ready)
    PROVE  /\ Body(r, gs)
           /\ \A o, k : Has(r, o, k) <=> Has(h, o, k) /\ ~ IsToken(Head(h.ready), o, k)
<1> DEFINE n == Len(h.ready)
<1>0. h \in Heap /\ h.ready \in Seq(Handle) /\ n \in Nat /\ n > 0
  BY HeapFields, HeapLens DEF Body
<1>1. Len(r.ready) = n - 1 /\ \A i \in 1 .. n - 1 : r.ready[i] = h.ready[i + 1]
  BY <1>0
<1>2. Head(h.ready) = h.ready[1]
  BY <1>0
<1>3. \A i \in 1 .. Len(r.ready) : i + 1 \in 1 .. n /\ r.ready[i] = h.ready[i + 1]
  <2> HIDE DEF n
  <2> QED
    BY <1>0, <1>1
<1>4. HandlesOK(r, gs)
  <2> SUFFICES ASSUME NEW i \in 1 .. Len(r.ready)
               PROVE  HandleOK(r, gs, r.ready[i])
    BY DEF HandlesOK
  <2>1. HandleOK(h, gs, r.ready[i])
    BY <1>3 DEF Body, HandlesOK
  <2> QED
    BY <2>1 DEF HandleOK, Keeps, Settled
<1>5. CallbacksOK(r, gs)
  BY KeepsCallbacks DEF Body
<1>6. OnceQueued(r)
  <2> SUFFICES ASSUME NEW i \in 1 .. Len(r.ready), NEW j \in 1 .. Len(r.ready),
                      SameToken(r.ready[i], r.ready[j])
               PROVE  i = j
    BY DEF OnceQueued
  <2>1. i + 1 = j + 1
    BY <1>3 DEF Body, OnceQueued
  <2> QED
    BY <2>1
<1>7. OnceLeft(r)
  BY DEF Body, OnceLeft, Keeps
<1>8. QueuedOrLeft(r)
  BY <1>3 DEF Body, QueuedOrLeft, Keeps
<1>9. ASSUME NEW o, NEW k
      PROVE  Has(r, o, k) <=> Has(h, o, k) /\ ~ IsToken(Head(h.ready), o, k)
  <2>1. Left(r, o, k) <=> Left(h, o, k)
    BY DEF Left, Keeps
  <2>2. Queued(r, o, k) => Queued(h, o, k)
    BY <1>3 DEF Queued
  <2>3. ASSUME Queued(r, o, k), IsToken(Head(h.ready), o, k) PROVE FALSE
    <3> PICK i \in 1 .. Len(r.ready) : IsToken(r.ready[i], o, k)
      BY <2>3 DEF Queued
    <3>1. i + 1 \in 1 .. n /\ IsToken(h.ready[i + 1], o, k)
      BY <1>3
    <3>2. SameToken(h.ready[1], h.ready[i + 1])
      BY <2>3, <3>1, <1>2 DEF SameToken, IsToken
    <3>3. 1 \in 1 .. n
      BY <1>0
    <3>4. 1 = i + 1
      BY <3>1, <3>2, <3>3 DEF Body, OnceQueued
    <3> QED
      BY <3>4
  <2>4. ASSUME Left(h, o, k), IsToken(Head(h.ready), o, k) PROVE FALSE
    <3>1. 1 \in 1 .. n
      BY <1>0
    <3> QED
      BY <2>4, <3>1, <1>2 DEF Body, QueuedOrLeft, Left, SameToken, IsToken
  <2>5. ASSUME Queued(h, o, k), ~ IsToken(Head(h.ready), o, k) PROVE Queued(r, o, k)
    <3> PICK i \in 1 .. n : IsToken(h.ready[i], o, k)
      BY <2>5 DEF Queued
    <3>1. i # 1
      BY <2>5, <1>2
    <3>2. i - 1 \in 1 .. Len(r.ready) /\ (i - 1) + 1 = i
      <4> HIDE DEF n
      <4> QED
        BY <3>1, <1>0, <1>1
    <3>3. r.ready[i - 1] = h.ready[i]
      BY <3>2, <1>3
    <3> QED
      BY <3>2, <3>3 DEF Queued
  <2> QED
    BY <2>1, <2>2, <2>3, <2>4, <2>5 DEF Has
<1> QED
  BY <1>4, <1>5, <1>6, <1>7, <1>8, <1>9 DEF Body

\* A future, task or gather is created.
LEMMA BornBody ==
    ASSUME NEW h, NEW gs, NEW r \in Heap, NEW f \in Awaitable,
           Body(h, gs), h.state[f] = "UNBORN",
           \A x \in Awaitable : r.state[x] = IF x = f THEN "PENDING" ELSE h.state[x],
           r.callbacks = h.callbacks, r.fut_waiter = h.fut_waiter, r.ready = h.ready
    PROVE  Body(r, gs) /\ SameTokens(h, r)
<1>1. /\ \A x \in Awaitable : Settled(h, x) => Settled(r, x)
      /\ \A x \in Awaitable : h.state[x] # "UNBORN" => r.state[x] = h.state[x]
  BY DEF Settled
<1>2. Gathering \subseteq Awaitable /\ Task \subseteq Awaitable /\ Main \in Awaitable
  BY LoopAssumption DEF Awaitable
<1>3. HandlesOK(r, gs)
  <2> SUFFICES ASSUME NEW i \in 1 .. Len(h.ready)
               PROVE  HandleOK(r, gs, h.ready[i])
    BY DEF HandlesOK
  <2>1. HandleOK(h, gs, h.ready[i])
    BY DEF Body, HandlesOK
  <2> QED
    BY <2>1, <1>1, <1>2 DEF HandleOK
<1>4. CallbacksOK(r, gs)
  <2> SUFFICES ASSUME NEW e \in Awaitable, NEW j \in 1 .. Len(h.callbacks[e])
               PROVE  CallbackOK(r, gs, e, h.callbacks[e][j])
    BY DEF CallbacksOK
  <2>1. CallbackOK(h, gs, e, h.callbacks[e][j])
    BY DEF Body, CallbacksOK
  <2> QED
    BY <2>1, <1>1, <1>2 DEF CallbackOK
<1>5. OnceQueued(r) /\ OnceLeft(r) /\ QueuedOrLeft(r)
  BY DEF Body, OnceQueued, OnceLeft, QueuedOrLeft
<1>6. SameTokens(h, r)
  BY DEF SameTokens, Has, Queued, Left
<1> QED
  BY <1>3, <1>4, <1>5, <1>6 DEF Body

\* _fut_waiter of a task without a token changes.
LEMMA WaiterBody ==
    ASSUME NEW h, NEW gs, NEW r \in Heap, NEW t \in Task,
           Body(h, gs), ~ Has(h, t, 0),
           \A x \in Task : x # t => r.fut_waiter[x] = h.fut_waiter[x],
           r.state = h.state, r.callbacks = h.callbacks, r.ready = h.ready
    PROVE  Body(r, gs) /\ SameTokens(h, r)
<1>1. HandlesOK(r, gs)
  <2> SUFFICES ASSUME NEW i \in 1 .. Len(h.ready)
               PROVE  HandleOK(r, gs, h.ready[i])
    BY DEF HandlesOK
  <2>1. HandleOK(h, gs, h.ready[i])
    BY DEF Body, HandlesOK
  <2>2. ~ IsToken(h.ready[i], t, 0)
    BY DEF Has, Queued
  <2>3. h.ready[i].call \in {"step", "wakeup"} => h.ready[i].of # t
    BY <2>1, <2>2 DEF HandleOK, IsToken, Tokens
  <2> QED
    BY <2>1, <2>3 DEF HandleOK, Settled
<1>2. CallbacksOK(r, gs)
  <2> SUFFICES ASSUME NEW e \in Awaitable, NEW j \in 1 .. Len(h.callbacks[e])
               PROVE  CallbackOK(r, gs, e, h.callbacks[e][j])
    BY DEF CallbacksOK
  <2>1. CallbackOK(h, gs, e, h.callbacks[e][j])
    BY DEF Body, CallbacksOK
  <2>2. ~ IsToken(h.callbacks[e][j], t, 0)
    BY DEF Has, Left
  <2>3. h.callbacks[e][j].call = "wakeup" => h.callbacks[e][j].of # t
    BY <2>1, <2>2 DEF CallbackOK, IsToken, Tokens
  <2> QED
    BY <2>1, <2>3 DEF CallbackOK
<1>3. OnceQueued(r) /\ OnceLeft(r) /\ QueuedOrLeft(r)
  BY DEF Body, OnceQueued, OnceLeft, QueuedOrLeft
<1>4. SameTokens(h, r)
  BY DEF SameTokens, Has, Queued, Left
<1> QED
  BY <1>1, <1>2, <1>3, <1>4 DEF Body

\* Only _must_cancel, or what the invariant does not speak of, changes.
LEMMA KeepsBody ==
    ASSUME NEW h, NEW gs, NEW r \in Heap,
           Body(h, gs), Keeps(h, r), r.ready = h.ready
    PROVE  Body(r, gs) /\ SameTokens(h, r)
<1>1. HandlesOK(r, gs)
  BY DEF Body, HandlesOK, HandleOK, Keeps, Settled
<1>2. CallbacksOK(r, gs)
  BY KeepsCallbacks DEF Body
<1>3. OnceQueued(r) /\ OnceLeft(r) /\ QueuedOrLeft(r)
  BY DEF Body, OnceQueued, OnceLeft, QueuedOrLeft, Keeps
<1>4. SameTokens(h, r)
  BY DEF SameTokens, Has, Queued, Left, Keeps
<1> QED
  BY <1>1, <1>2, <1>3, <1>4 DEF Body

\* The children of a gather that is not born, or further children, change
\* nothing for the tokens there are.
LEMMA ChildrenBody ==
    ASSUME NEW h, NEW gs, NEW gt, Body(h, gs),
           \A g \in Gathering : h.state[g] # "UNBORN" =>
              \A k \in 1 .. Len(gs[g].children) :
                 /\ k \in 1 .. Len(gt[g].children)
                 /\ gt[g].children[k] = gs[g].children[k]
    PROVE  Body(h, gt)
<1>1. HandlesOK(h, gt)
  <2> SUFFICES ASSUME NEW i \in 1 .. Len(h.ready)
               PROVE  HandleOK(h, gt, h.ready[i])
    BY DEF HandlesOK
  <2>1. HandleOK(h, gs, h.ready[i])
    BY DEF Body, HandlesOK
  <2> QED
    BY <2>1 DEF HandleOK
<1>2. CallbacksOK(h, gt)
  <2> SUFFICES ASSUME NEW e \in Awaitable, NEW j \in 1 .. Len(h.callbacks[e])
               PROVE  CallbackOK(h, gt, e, h.callbacks[e][j])
    BY DEF CallbacksOK
  <2>1. CallbackOK(h, gs, e, h.callbacks[e][j])
    BY DEF Body, CallbacksOK
  <2> QED
    BY <2>1 DEF CallbackOK
<1> QED
  BY <1>1, <1>2 DEF Body

-----------------------------------------------------------------------------
(* Tasks and gathers when the tokens stay as they are *)

\* The tasks' part of the invariant speaks of tokens, states and waiters.
LEMMA TasksKeep ==
    ASSUME NEW h, NEW r, NEW rt, TasksOK(h, rt), SameTokens(h, r),
           \A t \in Task : r.state[t] = h.state[t] /\ r.fut_waiter[t] = h.fut_waiter[t]
    PROVE  TasksOK(r, rt)
BY DEF TasksOK, SameTokens

\* The part of one gather is kept when its tokens and state are, and a child
\* that has a result keeps it.
LEMMA GatherKeeps ==
    ASSUME NEW h, NEW r, NEW gs, NEW g \in Gathering, gs \in GathersType, GatherOK(h, gs, g),
           \A k : Has(r, g, k) <=> Has(h, g, k),
           r.state[g] = h.state[g], r.state[g] = "FINISHED" => r.failed[g] = h.failed[g],
           \A x \in Awaitable : Good(h, x) => Good(r, x)
    PROVE  GatherOK(r, gs, g)
<1>1. Reported(r, gs, g) = Reported(h, gs, g)
  BY DEF Reported
<1>2. \A k \in 1 .. Len(gs[g].children) : gs[g].children[k] \in Awaitable
  BY DEF GathersType
<1>3. \A k \in Reported(h, gs, g) : k \in 1 .. Len(gs[g].children)
  BY DEF Reported
<1>4. Good(r, g) => Good(h, g)
  BY DEF Good
<1> QED
  BY <1>1, <1>2, <1>3, <1>4 DEF GatherOK

\* All gathers.
LEMMA GathersKeep ==
    ASSUME NEW h, NEW r, NEW gs, gs \in GathersType, GathersOK(h, gs),
           \A g \in Gathering : \A k : Has(r, g, k) <=> Has(h, g, k),
           \A g \in Gathering :
              /\ r.state[g] = h.state[g]
              /\ r.state[g] = "FINISHED" => r.failed[g] = h.failed[g],
           \A x \in Awaitable : Good(h, x) => Good(r, x)
    PROVE  GathersOK(r, gs)
<1> SUFFICES ASSUME NEW g \in Gathering
             PROVE  GatherOK(r, gs, g)
  BY DEF GathersOK
<1>1. GatherOK(h, gs, g)
  BY DEF GathersOK
<1> QED
  BY <1>1, GatherKeeps

-----------------------------------------------------------------------------
(* What a cancellation may reach *)

\* WaitsFor depends on the heap only through _fut_waiter.
LEMMA WaitsSame ==
    ASSUME NEW h, NEW r, r.fut_waiter = h.fut_waiter, NEW f
    PROVE  WaitsFor(r, f) = WaitsFor(h, f)
<1>1. \A x : Awaited(r, x) = Awaited(h, x)
  BY DEF Awaited
<1> QED
  BY <1>1 DEF WaitsFor

\* f reaches itself.
LEMMA WaitsSelf ==
    ASSUME NEW h, NEW f \in Awaitable
    PROVE  f \in WaitsFor(h, f)
BY DEF WaitsFor

\* f reaches what the awaitables it passes the request to reach.
LEMMA WaitsStep ==
    ASSUME NEW h, NEW f \in Awaitable, NEW x \in Awaited(h, f)
    PROVE  WaitsFor(h, x) \subseteq WaitsFor(h, f)
<1> SUFFICES ASSUME NEW g \in WaitsFor(h, x), NEW S \in SUBSET Awaitable,
                    f \in S, \A y \in S : Awaited(h, y) \subseteq S
             PROVE  g \in S
  BY DEF WaitsFor
<1>1. x \in S
  OBVIOUS
<1> QED
  BY <1>1 DEF WaitsFor

\* The effect of cancel(): only futures are resolved, a request is recorded
\* in _must_cancel and never withdrawn, tokens stay tokens.
CancelGrows(h, r) ==
    /\ r \in Heap
    /\ r.fut_waiter = h.fut_waiter /\ r.hidden = h.hidden
    /\ \A x \in Awaitable :
          \/ r.state[x] = h.state[x]
          \/ x \in Future /\ h.state[x] = "PENDING" /\ r.state[x] = "CANCELLED"
    /\ \A x \in Awaitable : h.state[x] # "PENDING" => r.failed[x] = h.failed[x]
    /\ \A t \in Task : h.must_cancel[t] => r.must_cancel[t]
    /\ QueueGrows(h, r)
    /\ SameTokens(h, r)

\* A queue that does not change grows.
LEMMA QueueRefl ==
    ASSUME NEW h \in Heap, NEW r, r.ready = h.ready
    PROVE  QueueGrows(h, r)
<1>1. Len(h.ready) \in Nat
  BY HeapLens
<1> QED
  BY <1>1 DEF QueueGrows

\* Growing is transitive.
LEMMA QueueTrans ==
    ASSUME NEW h \in Heap, NEW r \in Heap, NEW s \in Heap,
           QueueGrows(h, r), QueueGrows(r, s)
    PROVE  QueueGrows(h, s)
<1> DEFINE a == Len(h.ready)
           b == Len(r.ready)
           c == Len(s.ready)
<1>1. a \in Nat /\ b \in Nat /\ c \in Nat
  BY HeapLens
<1>2. a <= b /\ b <= c
  BY DEF QueueGrows
<1>3. /\ \A i \in 1 .. a : r.ready[i] = h.ready[i]
      /\ \A i \in 1 .. b : s.ready[i] = r.ready[i]
      /\ \A i \in 1 .. b : i > a => r.ready[i].call # "timeout"
      /\ \A i \in 1 .. c : i > b => s.ready[i].call # "timeout"
  BY DEF QueueGrows
<1> HIDE DEF a, b, c
<1>4. \A i \in 1 .. a : i \in 1 .. b
  BY <1>1, <1>2
<1>5. \A i \in 1 .. c : i > a => i > b \/ i \in 1 .. b
  BY <1>1, <1>2
<1>6. a <= c
  BY <1>1, <1>2
<1>7. \A i \in 1 .. a : s.ready[i] = h.ready[i]
  BY <1>3, <1>4
<1>8. \A i \in 1 .. c : i > a => s.ready[i].call # "timeout"
  BY <1>3, <1>5
<1> QED
  BY <1>6, <1>7, <1>8 DEF QueueGrows, a, b, c

\* A cancellation without effect.
LEMMA CancelRefl ==
    ASSUME NEW h \in Heap
    PROVE  CancelGrows(h, h)
BY QueueRefl DEF CancelGrows, SameTokens

\* One cancellation after the other.
LEMMA CancelTrans ==
    ASSUME NEW h \in Heap, NEW r \in Heap, NEW s \in Heap,
           CancelGrows(h, r), CancelGrows(r, s)
    PROVE  CancelGrows(h, s)
<1>1. QueueGrows(h, s)
  BY QueueTrans DEF CancelGrows
<1>2. SameTokens(h, s)
  BY DEF CancelGrows, SameTokens
<1>3. \A x \in Awaitable :
          \/ s.state[x] = h.state[x]
          \/ x \in Future /\ h.state[x] = "PENDING" /\ s.state[x] = "CANCELLED"
  BY DEF CancelGrows
<1>4. \A x \in Awaitable : h.state[x] # "PENDING" => s.failed[x] = h.failed[x]
  BY DEF CancelGrows
<1>5. \A t \in Task : h.must_cancel[t] => s.must_cancel[t]
  BY DEF CancelGrows
<1>6. s \in Heap /\ s.fut_waiter = h.fut_waiter /\ s.hidden = h.hidden
  BY DEF CancelGrows
<1> QED
  BY <1>1, <1>2, <1>3, <1>4, <1>5, <1>6 DEF CancelGrows

\* What a cancellation has reached stays reached.
LEMMA ReachedStays ==
    ASSUME NEW r \in Heap, NEW s \in Heap, NEW f, CancelGrows(r, s), CancelReached(r, f)
    PROVE  CancelReached(s, f)
<1>1. PICK g \in WaitsFor(r, f) :
          r.state[g] = "CANCELLED" \/ (g \in Task /\ r.must_cancel[g])
  BY DEF CancelReached
<1>2. g \in WaitsFor(s, f) /\ g \in Awaitable
  <2>1. g \in Awaitable
    BY DEF WaitsFor
  <2>2. s.fut_waiter = r.fut_waiter
    BY DEF CancelGrows
  <2>3. WaitsFor(s, f) = WaitsFor(r, f)
    BY <2>2, WaitsSame
  <2> QED
    BY <2>1, <2>3
<1>3. s.state[g] = "CANCELLED" \/ (g \in Task /\ s.must_cancel[g])
  BY <1>1, <1>2 DEF CancelGrows
<1> QED
  BY <1>2, <1>3 DEF CancelReached

\* What f passes its request to is reached, hence so is something f waits for.
LEMMA ReachedThrough ==
    ASSUME NEW r, NEW f \in Awaitable, NEW x \in Awaited(r, f), CancelReached(r, x)
    PROVE  CancelReached(r, f)
<1>1. WaitsFor(r, x) \subseteq WaitsFor(r, f)
  BY WaitsStep
<1> QED
  BY <1>1 DEF CancelReached

-----------------------------------------------------------------------------
(* cancel() *)

\* c is a result that cancel() of f may have in the heap h
CancelOK(h, f, c) ==
    /\ c.ret \in BOOLEAN
    /\ Body(c.heap, gathers)
    /\ CancelGrows(h, c.heap)
    /\ c.ret => CancelReached(c.heap, f)

\* F does what cancel() may do
CancelFn(F) ==
    \A h \in Heap, f \in Awaitable : Body(h, gathers) => CancelOK(h, f, F[<<h, f>>])

\* Future.cancel.
LEMMA CancelFutureOK ==
    ASSUME NEW h \in Heap, Body(h, gathers), NEW f \in Future, h.state[f] = "PENDING"
    PROVE  CancelOK(h, f, [heap |-> Resolve(h, f, "CANCELLED", FALSE), ret |-> TRUE])
<1> DEFINE r == Resolve(h, f, "CANCELLED", FALSE)
<1>0. f \in Awaitable
  BY DEF Awaitable
<1>1. ResolvedAs(h, r, f, "CANCELLED", FALSE)
  BY <1>0, ResolveIs
<1> HIDE DEF r
<1>2. Body(r, gathers) /\ QueueGrows(h, r)
  BY <1>0, <1>1, ResolvedBody
<1>3. SameTokens(h, r)
  BY <1>0, <1>1, ResolvedTokens
<1>4. CancelGrows(h, r)
  BY <1>1, <1>2, <1>3 DEF ResolvedAs, CancelGrows
<1>5. CancelReached(r, f)
  BY <1>0, <1>1, WaitsSelf DEF CancelReached, ResolvedAs
<1> QED
  BY <1>2, <1>4, <1>5 DEF CancelOK, r

\* _must_cancel is set.
LEMMA MustCancelOK ==
    ASSUME NEW h \in Heap, Body(h, gathers), NEW t \in Task
    PROVE  /\ [h EXCEPT !.must_cancel[t] = TRUE] \in Heap
           /\ Body([h EXCEPT !.must_cancel[t] = TRUE], gathers)
           /\ CancelGrows(h, [h EXCEPT !.must_cancel[t] = TRUE])
           /\ CancelReached([h EXCEPT !.must_cancel[t] = TRUE], t)
<1> DEFINE r == [h EXCEPT !.must_cancel[t] = TRUE]
<1>1. r \in Heap
  BY HeapFields DEF Heap
<1>2. Keeps(h, r) /\ r.ready = h.ready /\ r.hidden = h.hidden
  BY DEF Keeps, Heap
<1>3. r.must_cancel[t] = TRUE /\ \A x \in Task : h.must_cancel[x] => r.must_cancel[x]
  BY HeapFields DEF Heap
<1>4. t \in Awaitable
  BY DEF Awaitable
<1> HIDE DEF r
<1>5. Body(r, gathers) /\ SameTokens(h, r)
  BY <1>1, <1>2, KeepsBody
<1>6. CancelGrows(h, r)
  BY <1>1, <1>2, <1>3, <1>5, QueueRefl DEF CancelGrows, Keeps
<1>7. CancelReached(r, t)
  BY <1>3, <1>4, WaitsSelf DEF CancelReached
<1> QED
  BY <1>1, <1>5, <1>6, <1>7 DEF r

\* Task.cancel.
LEMMA CancelTaskOK ==
    ASSUME NEW F, CancelFn(F), NEW h \in Heap, Body(h, gathers), NEW t \in Task
    PROVE  CancelOK(h, t, CancelTask(F, h, t))
<1> DEFINE waiter == h.fut_waiter[t]
           inner == IF waiter = None THEN [heap |-> h, ret |-> FALSE] ELSE F[<<h, waiter>>]
           r == [inner.heap EXCEPT !.must_cancel[t] = TRUE]
<1>0. t \in Awaitable /\ waiter \in Awaitable \cup {None}
  BY HeapFields DEF Awaitable
<1>1. /\ inner.ret \in BOOLEAN /\ Body(inner.heap, gathers) /\ CancelGrows(h, inner.heap)
      /\ inner.ret => waiter # None /\ CancelReached(inner.heap, waiter)
  <2>1. CASE waiter = None
    <3>1. inner.heap = h /\ inner.ret = FALSE
      BY <2>1
    <3> HIDE DEF inner
    <3> QED
      BY <3>1, CancelRefl
  <2>2. CASE waiter # None
    <3>1. inner = F[<<h, waiter>>] /\ waiter \in Awaitable
      BY <2>2, <1>0
    <3> HIDE DEF inner, waiter
    <3>2. CancelOK(h, waiter, F[<<h, waiter>>])
      BY <3>1 DEF CancelFn
    <3> QED
      BY <2>2, <3>1, <3>2 DEF CancelOK
  <2> QED
    BY <2>1, <2>2
<1>2. CancelTask(F, h, t) = IF inner.ret THEN inner ELSE [heap |-> r, ret |-> TRUE]
  BY DEF CancelTask
<1>3. inner.heap \in Heap
  BY <1>1 DEF Body
<1> HIDE DEF inner
<1>4. CASE inner.ret
  <2>1. inner.heap.fut_waiter = h.fut_waiter
    BY <1>1 DEF CancelGrows
  <2>2. t \notin Gathering
    BY LoopAssumption
  <2>3. waiter \in Awaited(inner.heap, t)
    BY <1>1, <1>4, <2>1, <2>2 DEF Awaited
  <2> HIDE DEF waiter
  <2>4. CancelReached(inner.heap, t)
    BY <1>0, <1>1, <1>4, <2>3, ReachedThrough
  <2> QED
    BY <1>1, <1>2, <1>4, <2>4 DEF CancelOK
<1>5. CASE ~ inner.ret
  <2>1. r \in Heap /\ Body(r, gathers) /\ CancelGrows(inner.heap, r) /\ CancelReached(r, t)
    BY <1>1, <1>3, MustCancelOK
  <2> HIDE DEF r
  <2>2. CancelGrows(h, r)
    BY <1>1, <1>3, <2>1, CancelTrans
  <2> QED
    BY <1>2, <1>5, <2>1, <2>2 DEF CancelOK
<1> QED
  BY <1>1, <1>4, <1>5

\* A set of numbers that is not empty has a least element.
LEMMA LeastIn ==
    ASSUME NEW S \in SUBSET Nat, S # {}
    PROVE  \E i \in S : \A j \in S : i <= j
<1>1. PICK i \in S : \A j \in S : ~ (<<j, i>> \in OpToRel(<, Nat))
  BY NatLessThanWellFounded, WFMin
<1>2. \A j \in S : i <= j
  <2> SUFFICES ASSUME NEW j \in S, j < i PROVE FALSE
    BY SMT
  <2>1. j \in Nat /\ i \in Nat
    OBVIOUS
  <2>2. <<j, i>> \in OpToRel(<, Nat)
    BY <2>1 DEF OpToRel
  <2> QED
    BY <1>1, <2>2
<1> QED
  BY <1>2

\* f lists the results of cancelling the first 0, 1, ..., n children
ChildrenList(f, F, h, children, n) ==
    f = [i \in 0 .. n |-> IF i = 0 THEN [heap |-> h, ret |-> FALSE]
                          ELSE CancelChild(F, f[i - 1], children[i])]

\* There is such a list, by its least length: one more child extends it.
LEMMA ChildrenListExists ==
    ASSUME NEW F, NEW h, NEW children
    PROVE  \A n \in Nat : \E f : ChildrenList(f, F, h, children, n)
<1> DEFINE S == {n \in Nat : ~ \E f : ChildrenList(f, F, h, children, n)}
           Zero == [heap |-> h, ret |-> FALSE]
<1> SUFFICES ASSUME S # {} PROVE FALSE
  OBVIOUS
<1>1. PICK n \in S : \A j \in S : n <= j
  BY LeastIn
<1>2. n \in Nat /\ ~ \E f : ChildrenList(f, F, h, children, n)
  OBVIOUS
<1>3. CASE n = 0
  <2> DEFINE f == [i \in 0 .. 0 |-> Zero]
  <2>1. f = [i \in 0 .. 0 |-> IF i = 0 THEN Zero
                              ELSE CancelChild(F, f[i - 1], children[i])]
    <3> HIDE DEF Zero
    <3> QED
      OBVIOUS
  <2> HIDE DEF f
  <2> QED
    BY <1>2, <1>3, <2>1 DEF ChildrenList
<1>4. CASE n # 0
  <2>1. n - 1 \in Nat /\ n - 1 \notin S
    BY <1>1, <1>2, <1>4
  <2>2. PICK g : ChildrenList(g, F, h, children, n - 1)
    BY <2>1
  <2> DEFINE m == n - 1
             f == [i \in 0 .. n |-> IF i = n THEN CancelChild(F, g[m], children[n]) ELSE g[i]]
  <2>3. m \in Nat /\ n = m + 1 /\ ChildrenList(g, F, h, children, m)
    BY <1>2, <2>1, <2>2
  <2>4. \A i \in 0 .. m :
           g[i] = IF i = 0 THEN Zero ELSE CancelChild(F, g[i - 1], children[i])
    <3>1. g = [i \in 0 .. m |-> IF i = 0 THEN Zero
                                ELSE CancelChild(F, g[i - 1], children[i])]
      BY <2>3 DEF ChildrenList
    <3> HIDE DEF Zero
    <3> QED
      BY <3>1
  <2>5. f[n] = CancelChild(F, g[m], children[n]) /\ \A i \in 0 .. m : f[i] = g[i]
    BY <1>2, <2>3
  <2>6. f = [i \in 0 .. n |-> f[i]]
    OBVIOUS
  <2> HIDE DEF m, f, Zero
  <2>7. ASSUME NEW i \in 0 .. n
        PROVE  f[i] = IF i = 0 THEN Zero ELSE CancelChild(F, f[i - 1], children[i])
    <3>1. CASE i = n
      <4>1. i # 0 /\ i - 1 = m /\ m \in 0 .. m
        BY <3>1, <2>3
      <4> QED
        BY <4>1, <3>1, <2>5
    <3>2. CASE i # n
      <4>1. i \in 0 .. m /\ (i # 0 => i - 1 \in 0 .. m)
        BY <3>2, <2>3
      <4> QED
        BY <4>1, <2>4, <2>5
    <3> QED
      BY <3>1, <3>2
  <2>8. [i \in 0 .. n |-> f[i]] =
           [i \in 0 .. n |-> IF i = 0 THEN Zero ELSE CancelChild(F, f[i - 1], children[i])]
    BY <2>7
  <2>9. ChildrenList(f, F, h, children, n)
    BY <2>6, <2>8 DEF ChildrenList, Zero
  <2> QED
    BY <2>9, <1>2
<1> QED
  BY <1>3, <1>4

\* CancelChildren is the last entry of such a list.
LEMMA CancelChildrenIs ==
    ASSUME NEW F, NEW h, NEW children \in Seq(Awaitable)
    PROVE  \E f : /\ ChildrenList(f, F, h, children, Len(children))
                  /\ CancelChildren(F, h, children) = f[Len(children)]
<1> DEFINE n == Len(children)
           f == CHOOSE f : f = [i \in 0 .. n |-> IF i = 0 THEN [heap |-> h, ret |-> FALSE]
                                          ELSE CancelChild(F, f[i - 1], children[i])]
<1>1. n \in Nat
  OBVIOUS
<1>2. \E g : g = [i \in 0 .. n |-> IF i = 0 THEN [heap |-> h, ret |-> FALSE]
                                   ELSE CancelChild(F, g[i - 1], children[i])]
  <2> HIDE DEF n
  <2>1. PICK g : ChildrenList(g, F, h, children, n)
    BY <1>1, ChildrenListExists
  <2>2. g = [i \in 0 .. n |-> IF i = 0 THEN [heap |-> h, ret |-> FALSE]
                              ELSE CancelChild(F, g[i - 1], children[i])]
    BY <2>1 DEF ChildrenList
  <2> QED
    BY <2>2
<1>3. CancelChildren(F, h, children) = f[n]
  BY DEF CancelChildren
<1>4. ChildrenList(f, F, h, children, n)
  <2> HIDE DEF n
  <2> QED
    BY <1>2 DEF ChildrenList
<1> HIDE DEF f
<1> QED
  BY <1>3, <1>4

\* _GatheringFuture.cancel: each child in turn.
LEMMA CancelChildrenOK ==
    ASSUME NEW F, CancelFn(F), NEW h \in Heap, Body(h, gathers),
           gathers \in GathersType, NEW g \in Gathering
    PROVE  CancelOK(h, g, CancelChildren(F, h, gathers[g].children))
<1> DEFINE children == gathers[g].children
           n == Len(children)
<1>1. children \in Seq(Awaitable) /\ n \in Nat /\ g \in Awaitable
  BY DEF GathersType, Awaitable
<1>2. Range(children) = {children[i] : i \in 1 .. n}
  BY <1>1 DEF Range
<1>3. \A r : Awaited(r, g) = Range(children)
  BY LoopAssumption DEF Awaited
<1> HIDE DEF children
<1>4. PICK f : ChildrenList(f, F, h, children, n) /\ CancelChildren(F, h, children) = f[n]
  BY <1>1, CancelChildrenIs
<1>5. \A i \in 1 .. n : children[i] \in Awaitable
  BY <1>1
<1> HIDE DEF n
<1>6. \A i \in 0 .. n : f[i] = IF i = 0 THEN [heap |-> h, ret |-> FALSE]
                               ELSE CancelChild(F, f[i - 1], children[i])
  <2>1. f = [i \in 0 .. n |-> IF i = 0 THEN [heap |-> h, ret |-> FALSE]
                              ELSE CancelChild(F, f[i - 1], children[i])]
    BY <1>4 DEF ChildrenList
  <2> QED
    BY <2>1
<1> DEFINE S == {i \in 0 .. n : ~ CancelOK(h, g, f[i])}
<1> SUFFICES ASSUME S # {} PROVE FALSE
  <2>1. n \in 0 .. n
    BY <1>1
  <2>2. S = {} => CancelOK(h, g, f[n])
    BY <2>1
  <2>3. S = {} => CancelOK(h, g, CancelChildren(F, h, children))
    BY <1>4, <2>2
  <2> HIDE DEF S
  <2> QED
    BY <2>3 DEF children
<1>7. PICK i \in S : \A j \in S : i <= j
  <2>1. S \in SUBSET Nat
    BY <1>1
  <2> HIDE DEF S
  <2> QED
    BY <2>1, LeastIn
<1>8. i \in 0 .. n /\ ~ CancelOK(h, g, f[i])
  OBVIOUS
<1>9. i # 0
  <2>1. CancelOK(h, g, [heap |-> h, ret |-> FALSE])
    BY CancelRefl DEF CancelOK
  <2>2. 0 \in 0 .. n
    BY <1>1
  <2>3. f[0] = [heap |-> h, ret |-> FALSE]
    BY <2>2, <1>6
  <2> QED
    BY <1>8, <2>1, <2>3
<1>10. i - 1 \in 0 .. n /\ i \in 1 .. n /\ i - 1 \notin S
  BY <1>1, <1>7, <1>8, <1>9
<1> DEFINE a == f[i - 1]
           child == children[i]
           c == F[<<a.heap, child>>]
<1>11. CancelOK(h, g, a)
  BY <1>10
<1>12. f[i] = CancelChild(F, a, child)
  BY <1>6, <1>8, <1>9
<1>13. f[i].heap = c.heap /\ f[i].ret = (a.ret \/ c.ret)
  BY <1>12 DEF CancelChild
<1>14. child \in Awaitable /\ child \in Range(children)
  BY <1>2, <1>5, <1>10
<1> HIDE DEF S, a, child
<1>15. a.heap \in Heap /\ Body(a.heap, gathers) /\ CancelGrows(h, a.heap)
  BY <1>11 DEF CancelOK, Body
<1>16. CancelOK(a.heap, child, c)
  BY <1>14, <1>15 DEF CancelFn
<1> HIDE DEF c
<1>17. c.heap \in Heap /\ Body(c.heap, gathers) /\ CancelGrows(h, c.heap)
  <2>1. c.heap \in Heap /\ Body(c.heap, gathers) /\ CancelGrows(a.heap, c.heap)
    BY <1>16 DEF CancelOK, Body
  <2> QED
    BY <2>1, <1>15, CancelTrans
<1>18. ASSUME a.ret PROVE CancelReached(c.heap, g)
  <2>1. CancelReached(a.heap, g)
    BY <1>11, <1>18 DEF CancelOK
  <2>2. CancelGrows(a.heap, c.heap)
    BY <1>16 DEF CancelOK
  <2> QED
    BY <1>15, <1>17, <2>1, <2>2, ReachedStays
<1>19. ASSUME c.ret PROVE CancelReached(c.heap, g)
  <2>1. CancelReached(c.heap, child)
    BY <1>16, <1>19 DEF CancelOK
  <2>2. child \in Awaited(c.heap, g)
    BY <1>3, <1>14
  <2> QED
    BY <1>1, <2>1, <2>2, ReachedThrough
<1>20. a.ret \in BOOLEAN /\ c.ret \in BOOLEAN
  BY <1>11, <1>16 DEF CancelOK
<1>21. CancelOK(h, g, f[i])
  BY <1>13, <1>17, <1>18, <1>19, <1>20 DEF CancelOK
<1> QED
  BY <1>8, <1>21

\* cancel() that goes along no await
CancelNone == [x \in Heap \X Awaitable |-> [heap |-> x[1], ret |-> FALSE]]

\* f lists cancel() along at most 0, 1, ..., n awaits
CancelList(f, n) ==
    f = [i \in 0 .. n |-> IF i = 0 THEN CancelNone ELSE CancelOver(f[i - 1])]

\* There is such a list.
LEMMA CancelListExists == \A n \in Nat : \E f : CancelList(f, n)
<1> DEFINE S == {n \in Nat : ~ \E f : CancelList(f, n)}
<1> SUFFICES ASSUME S # {} PROVE FALSE
  OBVIOUS
<1>1. PICK n \in S : \A j \in S : n <= j
  BY LeastIn
<1>2. n \in Nat /\ ~ \E f : CancelList(f, n)
  OBVIOUS
<1>3. CASE n = 0
  <2> DEFINE f == [i \in 0 .. 0 |-> CancelNone]
  <2>1. f = [i \in 0 .. 0 |-> IF i = 0 THEN CancelNone ELSE CancelOver(f[i - 1])]
    OBVIOUS
  <2> HIDE DEF f
  <2> QED
    BY <1>2, <1>3, <2>1 DEF CancelList
<1>4. CASE n # 0
  <2>1. n - 1 \in Nat /\ n - 1 \notin S
    BY <1>1, <1>2, <1>4
  <2>2. PICK g : CancelList(g, n - 1)
    BY <2>1
  <2> DEFINE m == n - 1
             f == [i \in 0 .. n |-> IF i = n THEN CancelOver(g[m]) ELSE g[i]]
  <2>3. m \in Nat /\ n = m + 1 /\ CancelList(g, m)
    BY <1>2, <2>1, <2>2
  <2>4. \A i \in 0 .. m : g[i] = IF i = 0 THEN CancelNone ELSE CancelOver(g[i - 1])
    <3>1. g = [i \in 0 .. m |-> IF i = 0 THEN CancelNone ELSE CancelOver(g[i - 1])]
      BY <2>3 DEF CancelList
    <3> QED
      BY <3>1
  <2>5. f[n] = CancelOver(g[m]) /\ \A i \in 0 .. m : f[i] = g[i]
    BY <1>2, <2>3
  <2>6. f = [i \in 0 .. n |-> f[i]]
    OBVIOUS
  <2> HIDE DEF m, f
  <2>7. ASSUME NEW i \in 0 .. n
        PROVE  f[i] = IF i = 0 THEN CancelNone ELSE CancelOver(f[i - 1])
    <3>1. CASE i = n
      <4>1. i # 0 /\ i - 1 = m /\ m \in 0 .. m
        BY <3>1, <2>3
      <4> QED
        BY <4>1, <3>1, <2>5
    <3>2. CASE i # n
      <4>1. i \in 0 .. m /\ (i # 0 => i - 1 \in 0 .. m)
        BY <3>2, <2>3
      <4> QED
        BY <4>1, <2>4, <2>5
    <3> QED
      BY <3>1, <3>2
  <2>8. [i \in 0 .. n |-> f[i]] =
           [i \in 0 .. n |-> IF i = 0 THEN CancelNone ELSE CancelOver(f[i - 1])]
    BY <2>7
  <2>9. CancelList(f, n)
    BY <2>6, <2>8 DEF CancelList
  <2> QED
    BY <2>9, <1>2
<1> QED
  BY <1>3, <1>4

\* CancelTo is one.
LEMMA CancelToIs == Cardinality(Awaitable) \in Nat /\ CancelList(CancelTo, Cardinality(Awaitable))
<1> DEFINE n == Cardinality(Awaitable)
<1>1. n \in Nat
  BY LoopAssumption, FS_CardinalityType
<1>2. \E f : f = [i \in 0 .. n |-> IF i = 0 THEN CancelNone ELSE CancelOver(f[i - 1])]
  <2> HIDE DEF n
  <2>1. PICK f : CancelList(f, n)
    BY <1>1, CancelListExists
  <2>2. f = [i \in 0 .. n |-> IF i = 0 THEN CancelNone ELSE CancelOver(f[i - 1])]
    BY <2>1 DEF CancelList
  <2> QED
    BY <2>2
<1>3. CancelTo = CHOOSE f : f = [i \in 0 .. n |->
                     IF i = 0 THEN CancelNone ELSE CancelOver(f[i - 1])]
  BY DEF CancelTo, CancelNone
<1> HIDE DEF n
<1>4. CancelTo = [i \in 0 .. n |-> IF i = 0 THEN CancelNone ELSE CancelOver(CancelTo[i - 1])]
  BY <1>2, <1>3
<1> QED
  BY <1>1, <1>4 DEF CancelList, n

\* One more await keeps the promise of cancel().
LEMMA CancelOverOK ==
    ASSUME NEW F, CancelFn(F), gathers \in GathersType
    PROVE  CancelFn(CancelOver(F))
<1> SUFFICES ASSUME NEW h \in Heap, NEW f \in Awaitable, Body(h, gathers)
             PROVE  CancelOK(h, f, CancelOver(F)[<<h, f>>])
  BY DEF CancelFn
<1>1. CancelOver(F)[<<h, f>>] = CancelWith(F, h, f)
  BY DEF CancelOver
<1> SUFFICES CancelOK(h, f, CancelWith(F, h, f))
  BY <1>1
<1>2. CASE Done(h, f)
  <2>1. CancelOK(h, f, [heap |-> h, ret |-> FALSE])
    BY CancelRefl DEF CancelOK
  <2> QED
    BY <1>2, <2>1 DEF CancelWith
<1>3. CASE ~ Done(h, f) /\ f \in Future
  <2>1. h.state[f] = "PENDING" /\ f \notin Task /\ f \notin Gathering
    BY <1>3, LoopAssumption DEF Done
  <2>2. CancelWith(F, h, f) = [heap |-> Resolve(h, f, "CANCELLED", FALSE), ret |-> TRUE]
    BY <1>3, <2>1 DEF CancelWith
  <2> QED
    BY <1>3, <2>1, <2>2, CancelFutureOK
<1>4. CASE ~ Done(h, f) /\ f \in Task
  <2>1. f \notin Future /\ f \notin Gathering
    BY <1>4, LoopAssumption
  <2>2. CancelWith(F, h, f) = CancelTask(F, h, f)
    BY <1>4, <2>1 DEF CancelWith
  <2> QED
    BY <1>4, <2>2, CancelTaskOK
<1>5. CASE ~ Done(h, f) /\ f \in Gathering
  <2>1. f \notin Future /\ f \notin Task
    BY <1>5, LoopAssumption
  <2>2. CancelWith(F, h, f) = CancelChildren(F, h, gathers[f].children)
    BY <1>5, <2>1 DEF CancelWith
  <2> QED
    BY <1>5, <2>2, CancelChildrenOK
<1> QED
  BY <1>2, <1>3, <1>4, <1>5 DEF Awaitable

\* cancel(), for any heap that satisfies the invariant and however far it
\* goes along the awaits.
LEMMA CancelHolds ==
    ASSUME NEW h \in Heap, NEW f \in Awaitable, Body(h, gathers), gathers \in GathersType
    PROVE  CancelOK(h, f, Cancel(h, f))
<1> DEFINE n == Cardinality(Awaitable)
           S == {i \in 0 .. n : ~ CancelFn(CancelTo[i])}
<1>1. n \in Nat /\ CancelList(CancelTo, n)
  BY CancelToIs
<1>2. Cancel(h, f) = CancelTo[n][<<h, f>>]
  BY DEF Cancel
<1> HIDE DEF n
<1>3. \A i \in 0 .. n : CancelTo[i] = IF i = 0 THEN CancelNone ELSE CancelOver(CancelTo[i - 1])
  <2> DEFINE C == CancelTo
  <2>1. C = [i \in 0 .. n |-> IF i = 0 THEN CancelNone ELSE CancelOver(C[i - 1])]
    BY <1>1 DEF CancelList
  <2> HIDE DEF C
  <2>2. \A i \in 0 .. n : C[i] = IF i = 0 THEN CancelNone ELSE CancelOver(C[i - 1])
    BY <2>1
  <2> QED
    BY <2>2 DEF C
<1>4. S = {}
  <2> SUFFICES ASSUME S # {} PROVE FALSE
    OBVIOUS
  <2>1. PICK i \in S : \A j \in S : i <= j
    <3>1. S \in SUBSET Nat
      BY <1>1
    <3> HIDE DEF S
    <3> QED
      BY <3>1, LeastIn
  <2>2. i \in 0 .. n /\ ~ CancelFn(CancelTo[i])
    OBVIOUS
  <2>3. i # 0
    <3>1. CancelFn(CancelNone)
      <4> SUFFICES ASSUME NEW k \in Heap, NEW e \in Awaitable, Body(k, gathers)
                   PROVE  CancelOK(k, e, CancelNone[<<k, e>>])
        BY DEF CancelFn
      <4>1. CancelNone[<<k, e>>] = [heap |-> k, ret |-> FALSE]
        BY DEF CancelNone
      <4> QED
        BY <4>1, CancelRefl DEF CancelOK
    <3>2. 0 \in 0 .. n
      BY <1>1
    <3> QED
      BY <1>3, <2>2, <3>1, <3>2
  <2>4. i - 1 \in 0 .. n /\ i - 1 \notin S
    BY <1>1, <2>1, <2>2, <2>3
  <2>5. CancelFn(CancelTo[i - 1])
    BY <2>4
  <2>6. CancelTo[i] = CancelOver(CancelTo[i - 1])
    BY <1>3, <2>2, <2>3
  <2> QED
    BY <2>2, <2>5, <2>6, CancelOverOK
<1>5. CancelFn(CancelTo[n])
  <2>1. n \in 0 .. n
    BY <1>1
  <2> QED
    BY <1>4, <2>1
<1> QED
  BY <1>2, <1>5 DEF CancelFn

-----------------------------------------------------------------------------
(* The operations keep the invariant of the heap *)

\* the queue grows, what is done stays done, and no gather is created
Onward(h, r) ==
    /\ QueueGrows(h, r)
    /\ \A x \in Awaitable : Settled(h, x) => Settled(r, x)
    /\ \A g \in Gathering : r.state[g] = "PENDING" => h.state[g] = "PENDING"

\* One operation after the other.
LEMMA OnwardTrans ==
    ASSUME NEW h \in Heap, NEW r \in Heap, NEW s \in Heap, Onward(h, r), Onward(r, s)
    PROVE  Onward(h, s)
<1>1. QueueGrows(h, s)
  BY QueueTrans DEF Onward
<1> QED
  BY <1>1 DEF Onward

\* The sets of awaitables.
LEMMA AwaitableFacts ==
    /\ Task \subseteq Awaitable /\ Future \subseteq Awaitable /\ Gathering \subseteq Awaitable
    /\ Main \in Awaitable /\ Main \in Task /\ None \notin Awaitable
    /\ \A x \in Task : x \notin Gathering /\ x \notin Future /\ x # None
    /\ \A x \in Future : x \notin Gathering /\ x \notin Task
    /\ \A x \in Gathering : x \notin Task /\ x \notin Future
BY LoopAssumption DEF Awaitable

\* set_result, set_exception and Future.cancel, for any awaitable: the gathers
\* other than the one that is resolved keep their part, and a task that is
\* resolved no longer runs.
LEMMA ResolveKeeps ==
    ASSUME NEW h, NEW gs, gs \in GathersType, NEW f \in Awaitable, NEW rt,
           NEW st \in {"CANCELLED", "FINISHED"}, NEW fl \in BOOLEAN,
           Body(h, gs), h.state[f] = "PENDING", TasksOK(h, rt),
           f \in Task => rt = f
    PROVE  LET r == Resolve(h, f, st, fl)
           IN  /\ Body(r, gs) /\ Onward(h, r) /\ SameTokens(h, r)
               /\ f \notin Task => TasksOK(r, rt)
               /\ f \in Task => TasksOK(r, None)
               /\ \A g \in Gathering : g # f /\ GatherOK(h, gs, g) => GatherOK(r, gs, g)
               /\ \A x \in Awaitable : Good(h, x) => Good(r, x)
               /\ r.state[f] = st /\ r.failed[f] = fl /\ r.must_cancel = h.must_cancel
               /\ r.fut_waiter = h.fut_waiter
<1> DEFINE r == Resolve(h, f, st, fl)
<1>0. h \in Heap
  BY DEF Body
<1>1. ResolvedAs(h, r, f, st, fl)
  BY <1>0, ResolveIs
<1> HIDE DEF r
<1>2. Body(r, gs) /\ QueueGrows(h, r)
  BY <1>1, ResolvedBody
<1>3. SameTokens(h, r)
  BY <1>0, <1>1, ResolvedTokens
<1>4. /\ \A x \in Awaitable : x # f => r.state[x] = h.state[x] /\ r.failed[x] = h.failed[x]
      /\ r.state[f] = st /\ r.failed[f] = fl
      /\ r.fut_waiter = h.fut_waiter /\ r.must_cancel = h.must_cancel
  BY <1>1 DEF ResolvedAs
<1>5. \A x \in Awaitable : Good(h, x) => Good(r, x)
  BY <1>4 DEF Good
<1>6. Onward(h, r)
  BY <1>2, <1>4, AwaitableFacts DEF Onward, Settled
<1>7. ASSUME f \notin Task PROVE TasksOK(r, rt)
  <2>1. \A t \in Task : r.state[t] = h.state[t] /\ r.fut_waiter[t] = h.fut_waiter[t]
    BY <1>4, <1>7, AwaitableFacts
  <2> QED
    BY <1>3, <2>1, TasksKeep
<1>8. ASSUME f \in Task PROVE TasksOK(r, None)
  <2> SUFFICES ASSUME NEW t \in Task
               PROVE  /\ Has(r, t, 0) <=> r.state[t] = "PENDING" /\ None # t
                      /\ None = t => r.state[t] = "PENDING"
                      /\ None = t \/ r.state[t] # "PENDING" => r.fut_waiter[t] = None
    BY DEF TasksOK
  <2>1. Has(r, t, 0) <=> Has(h, t, 0)
    BY <1>3 DEF SameTokens
  <2>2. t # None /\ t \in Awaitable
    BY AwaitableFacts
  <2>3. CASE t = f
    BY <1>4, <1>8, <2>1, <2>2, <2>3 DEF TasksOK
  <2>4. CASE t # f
    <3>1. r.state[t] = h.state[t] /\ rt # t
      BY <1>4, <1>8, <2>2, <2>4
    <3> QED
      BY <1>4, <2>1, <2>2, <3>1 DEF TasksOK
  <2> QED
    BY <2>3, <2>4
<1>9. ASSUME NEW g \in Gathering, g # f, GatherOK(h, gs, g)
      PROVE  GatherOK(r, gs, g)
  <2>1. r.state[g] = h.state[g] /\ r.failed[g] = h.failed[g]
    BY <1>4, <1>9, AwaitableFacts
  <2>2. \A k : Has(r, g, k) <=> Has(h, g, k)
    BY <1>3 DEF SameTokens
  <2> QED
    BY <1>5, <1>9, <2>1, <2>2, GatherKeeps
<1> QED
  BY <1>2, <1>3, <1>4, <1>5, <1>6, <1>7, <1>8, <1>9 DEF r

\* A plain future is resolved.
LEMMA ResolveFutureInv ==
    ASSUME NEW h, NEW gs, gs \in GathersType, NEW rt, HeapInv(h, gs, rt),
           NEW f \in Future, h.state[f] = "PENDING",
           NEW st \in {"CANCELLED", "FINISHED"}, NEW fl \in BOOLEAN
    PROVE  /\ HeapInv(Resolve(h, f, st, fl), gs, rt)
           /\ Onward(h, Resolve(h, f, st, fl))
           /\ Resolve(h, f, st, fl).must_cancel = h.must_cancel
<1> DEFINE r == Resolve(h, f, st, fl)
<1>1. f \in Awaitable /\ f \notin Task /\ f \notin Gathering
  BY AwaitableFacts
<1>2. /\ Body(r, gs) /\ Onward(h, r) /\ TasksOK(r, rt) /\ r.must_cancel = h.must_cancel
      /\ \A g \in Gathering : g # f /\ GatherOK(h, gs, g) => GatherOK(r, gs, g)
  BY <1>1, ResolveKeeps DEF HeapInv
<1> HIDE DEF r
<1>3. GathersOK(r, gs)
  BY <1>1, <1>2 DEF HeapInv, GathersOK
<1> QED
  BY <1>2, <1>3 DEF HeapInv, r

\* The running task is resolved.
LEMMA ResolveTaskInv ==
    ASSUME NEW h, NEW gs, gs \in GathersType, NEW t \in Task, HeapInv(h, gs, t),
           NEW st \in {"CANCELLED", "FINISHED"}, NEW fl \in BOOLEAN
    PROVE  /\ HeapInv(Resolve(h, t, st, fl), gs, None)
           /\ Onward(h, Resolve(h, t, st, fl))
           /\ Resolve(h, t, st, fl).state[t] = st
           /\ Resolve(h, t, st, fl).must_cancel = h.must_cancel
<1> DEFINE r == Resolve(h, t, st, fl)
<1>1. t \in Awaitable /\ t \notin Gathering
  BY AwaitableFacts
<1>2. h.state[t] = "PENDING"
  BY DEF HeapInv, TasksOK
<1>3. /\ Body(r, gs) /\ Onward(h, r) /\ TasksOK(r, None) /\ r.state[t] = st
      /\ r.must_cancel = h.must_cancel
      /\ \A g \in Gathering : g # t /\ GatherOK(h, gs, g) => GatherOK(r, gs, g)
  BY <1>1, <1>2, ResolveKeeps DEF HeapInv
<1> HIDE DEF r
<1>4. GathersOK(r, gs)
  BY <1>1, <1>3 DEF HeapInv, GathersOK
<1> QED
  BY <1>3, <1>4 DEF HeapInv, r

\* cancel() keeps the invariant of the heap.
LEMMA CancelInv ==
    ASSUME NEW h, gathers \in GathersType, NEW rt, HeapInv(h, gathers, rt),
           NEW f \in Awaitable
    PROVE  /\ HeapInv(Cancel(h, f).heap, gathers, rt)
           /\ Onward(h, Cancel(h, f).heap)
           /\ CancelGrows(h, Cancel(h, f).heap)
           /\ Cancel(h, f).ret \in BOOLEAN
           /\ Cancel(h, f).ret => CancelReached(Cancel(h, f).heap, f)
<1> DEFINE r == Cancel(h, f).heap
<1>0. h \in Heap /\ Body(h, gathers)
  BY DEF HeapInv, Body
<1>1. CancelOK(h, f, Cancel(h, f))
  BY <1>0, CancelHolds
<1>2. Body(r, gathers) /\ CancelGrows(h, r)
  BY <1>1 DEF CancelOK
<1> HIDE DEF r
<1>3. \A x \in Awaitable : x \notin Future =>
         /\ r.state[x] = h.state[x]
         /\ r.state[x] # "PENDING" => r.failed[x] = h.failed[x]
  BY <1>2 DEF CancelGrows
<1>4. SameTokens(h, r) /\ QueueGrows(h, r) /\ r.fut_waiter = h.fut_waiter
  BY <1>2 DEF CancelGrows
<1>5. \A x \in Awaitable : Good(h, x) => Good(r, x)
  BY <1>2 DEF CancelGrows, Good
<1>6. TasksOK(r, rt)
  <2>1. \A t \in Task : r.state[t] = h.state[t] /\ r.fut_waiter[t] = h.fut_waiter[t]
    BY <1>3, <1>4, AwaitableFacts
  <2> QED
    BY <1>4, <2>1, TasksKeep DEF HeapInv
<1>7. GathersOK(r, gathers)
  <2>1. \A g \in Gathering :
              /\ r.state[g] = h.state[g]
              /\ r.state[g] = "FINISHED" => r.failed[g] = h.failed[g]
    BY <1>3, AwaitableFacts
  <2>2. \A g \in Gathering : \A k : Has(r, g, k) <=> Has(h, g, k)
    BY <1>4 DEF SameTokens
  <2> QED
    BY <1>5, <2>1, <2>2, GathersKeep DEF HeapInv
<1>8. Onward(h, r)
  <2>1. \A x \in Awaitable : Settled(h, x) => Settled(r, x)
    BY <1>2 DEF CancelGrows, Settled
  <2> QED
    BY <1>3, <1>4, <2>1, AwaitableFacts DEF Onward
<1> QED
  BY <1>1, <1>2, <1>6, <1>7, <1>8 DEF HeapInv, CancelOK, r

\* call_soon.
LEMMA CallSoonIs ==
    ASSUME NEW h \in Heap, NEW x \in Handle
    PROVE  /\ CallSoon(h, x) \in Heap /\ Keeps(h, CallSoon(h, x))
           /\ CallSoon(h, x).ready = Append(h.ready, x)
           /\ CallSoon(h, x).must_cancel = h.must_cancel
<1> DEFINE q == Append(h.ready, x)
<1>1. q \in Seq(Handle)
  BY HeapFields
<1>2. CallSoon(h, x) = [h EXCEPT !.ready = q]
  BY DEF CallSoon
<1> HIDE DEF q
<1>3. [h EXCEPT !.ready = q] \in Heap
  BY <1>1 DEF Heap
<1> QED
  BY <1>2, <1>3 DEF Heap, Keeps, q

\* The handle of a step of t.
LEMMA StepHandle ==
    ASSUME NEW t \in Task, NEW a \in {None, "RuntimeError"}
    PROVE  LET x == NewHandle("step", t, 0, a)
           IN  /\ x \in Handle /\ x.call = "step" /\ x.of = t /\ x.index = 0
               /\ x.call \in Tokens /\ ~ x.cancelled
BY AwaitableFacts DEF NewHandle, Handle, Tokens

\* The running task yields and is queued again: sleep(0), a bad yield.
LEMMA RequeueInv ==
    ASSUME NEW h, NEW gs, gs \in GathersType, NEW t \in Task, HeapInv(h, gs, t),
           NEW a \in {None, "RuntimeError"}
    PROVE  LET r == CallSoon(h, NewHandle("step", t, 0, a))
           IN  HeapInv(r, gs, None) /\ Onward(h, r) /\ r.must_cancel = h.must_cancel
<1> DEFINE x == NewHandle("step", t, 0, a)
           r == CallSoon(h, x)
<1>0. h \in Heap /\ Body(h, gs)
  BY DEF HeapInv, Body
<1>1. /\ x \in Handle /\ x.call = "step" /\ x.of = t /\ x.index = 0
      /\ x.call \in Tokens /\ ~ x.cancelled
  BY StepHandle
<1> HIDE DEF x
<1>2. r \in Heap /\ Keeps(h, r) /\ r.ready = Append(h.ready, x) /\ r.must_cancel = h.must_cancel
  BY <1>0, <1>1, CallSoonIs
<1> HIDE DEF r
<1>3. ~ Has(h, t, 0) /\ h.fut_waiter[t] = None /\ h.state[t] = "PENDING"
  BY DEF HeapInv, TasksOK
<1>4. HandleOK(h, gs, x)
  BY <1>1, <1>3 DEF HandleOK
<1>5. Body(r, gs) /\ TokenAdded(h, r, t, 0) /\ QueueGrows(h, r)
  BY <1>0, <1>1, <1>2, <1>3, <1>4, AppendBody
<1>6. TasksOK(r, None)
  <2> SUFFICES ASSUME NEW u \in Task
               PROVE  /\ Has(r, u, 0) <=> r.state[u] = "PENDING" /\ None # u
                      /\ None = u => r.state[u] = "PENDING"
                      /\ None = u \/ r.state[u] # "PENDING" => r.fut_waiter[u] = None
    BY DEF TasksOK
  <2>1. Has(r, u, 0) <=> Has(h, u, 0) \/ u = t
    BY <1>5 DEF TokenAdded
  <2>2. u # None
    BY AwaitableFacts
  <2> QED
    BY <1>2, <1>3, <2>1, <2>2 DEF HeapInv, TasksOK, Keeps
<1>7. GathersOK(r, gs)
  <2>1. \A g \in Gathering : \A k : Has(r, g, k) <=> Has(h, g, k)
    BY <1>5, AwaitableFacts DEF TokenAdded
  <2>2. \A y \in Awaitable : Good(h, y) => Good(r, y)
    BY <1>2 DEF Good, Keeps
  <2> QED
    BY <1>2, <2>1, <2>2, GathersKeep DEF HeapInv, Keeps
<1>8. Onward(h, r)
  BY <1>2, <1>5 DEF Onward, Keeps, Settled
<1> QED
  BY <1>2, <1>5, <1>6, <1>7, <1>8 DEF HeapInv, r, x

\* An awaitable is created, in the state PENDING.
LEMMA BornIs ==
    ASSUME NEW h \in Heap, NEW f \in Awaitable
    PROVE  LET r == [h EXCEPT !.state[f] = "PENDING"]
           IN  /\ r \in Heap
               /\ \A x \in Awaitable : r.state[x] = IF x = f THEN "PENDING" ELSE h.state[x]
               /\ r.failed = h.failed /\ r.callbacks = h.callbacks
               /\ r.fut_waiter = h.fut_waiter /\ r.ready = h.ready
               /\ r.must_cancel = h.must_cancel /\ r.hidden = h.hidden
<1> DEFINE s == [h.state EXCEPT ![f] = "PENDING"]
           r == [h EXCEPT !.state[f] = "PENDING"]
<1>1. /\ s \in [Awaitable -> {"UNBORN", "PENDING", "CANCELLED", "FINISHED"}]
      /\ \A x \in Awaitable : s[x] = IF x = f THEN "PENDING" ELSE h.state[x]
  BY HeapFields
<1>2. r = [h EXCEPT !.state = s]
  OBVIOUS
<1> HIDE DEF s, r
<1>3. r \in Heap
  BY <1>1, <1>2 DEF Heap
<1>4. /\ r.state = s
      /\ r.failed = h.failed /\ r.callbacks = h.callbacks
      /\ r.fut_waiter = h.fut_waiter /\ r.ready = h.ready
      /\ r.must_cancel = h.must_cancel /\ r.hidden = h.hidden
  BY <1>2 DEF Heap
<1> QED
  BY <1>1, <1>3, <1>4 DEF r

\* A future is created; it may be one that sleep() hides.
LEMMA CreateFutureInv ==
    ASSUME NEW h, NEW gs, gs \in GathersType, NEW rt, HeapInv(h, gs, rt),
           NEW f \in Future, h.state[f] = "UNBORN", NEW r \in Heap,
           \A x \in Awaitable : r.state[x] = IF x = f THEN "PENDING" ELSE h.state[x],
           r.failed = h.failed, r.callbacks = h.callbacks,
           r.fut_waiter = h.fut_waiter, r.ready = h.ready
    PROVE  HeapInv(r, gs, rt) /\ Onward(h, r)
<1>0. h \in Heap /\ Body(h, gs)
  BY DEF HeapInv, Body
<1>1. f \in Awaitable /\ f \notin Task /\ f \notin Gathering
  BY AwaitableFacts
<1>2. Body(r, gs) /\ SameTokens(h, r)
  BY <1>0, <1>1, BornBody
<1>3. TasksOK(r, rt)
  <2>1. \A t \in Task : r.state[t] = h.state[t] /\ r.fut_waiter[t] = h.fut_waiter[t]
    BY <1>1, AwaitableFacts
  <2> QED
    BY <1>2, <2>1, TasksKeep DEF HeapInv
<1>4. GathersOK(r, gs)
  <2>1. \A g \in Gathering : \A k : Has(r, g, k) <=> Has(h, g, k)
    BY <1>2 DEF SameTokens
  <2>2. \A y \in Awaitable : Good(h, y) => Good(r, y)
    BY DEF Good
  <2>3. \A g \in Gathering : r.state[g] = h.state[g] /\ r.failed[g] = h.failed[g]
    BY <1>1, AwaitableFacts
  <2> QED
    BY <2>1, <2>2, <2>3, GathersKeep DEF HeapInv
<1>5. Onward(h, r)
  <2>1. QueueGrows(h, r)
    BY <1>0, QueueRefl
  <2>2. \A g \in Gathering : r.state[g] = h.state[g]
    BY <1>1, AwaitableFacts
  <2> QED
    BY <2>1, <2>2 DEF Onward, Settled
<1> QED
  BY <1>2, <1>3, <1>4, <1>5 DEF HeapInv

\* A task is created and its first step queued.
LEMMA CreateTaskInv ==
    ASSUME NEW h, NEW gs, gs \in GathersType, NEW rt, HeapInv(h, gs, rt),
           NEW t \in Task, h.state[t] = "UNBORN"
    PROVE  LET r == CallSoon([h EXCEPT !.state[t] = "PENDING"], NewHandle("step", t, 0, None))
           IN  HeapInv(r, gs, rt) /\ Onward(h, r) /\ r.must_cancel = h.must_cancel
<1> DEFINE x == NewHandle("step", t, 0, None)
           b == [h EXCEPT !.state[t] = "PENDING"]
           r == CallSoon(b, x)
<1>0. h \in Heap /\ Body(h, gs) /\ t \in Awaitable
  BY AwaitableFacts DEF HeapInv, Body
<1>1. /\ x \in Handle /\ x.call = "step" /\ x.of = t /\ x.index = 0
      /\ x.call \in Tokens /\ ~ x.cancelled
  BY StepHandle
<1>2. /\ b \in Heap
      /\ \A y \in Awaitable : b.state[y] = IF y = t THEN "PENDING" ELSE h.state[y]
      /\ b.failed = h.failed /\ b.callbacks = h.callbacks
      /\ b.fut_waiter = h.fut_waiter /\ b.ready = h.ready /\ b.must_cancel = h.must_cancel
  BY <1>0, BornIs
<1> HIDE DEF x, b
<1>3. r \in Heap /\ Keeps(b, r) /\ r.ready = Append(b.ready, x) /\ r.must_cancel = b.must_cancel
  BY <1>1, <1>2, CallSoonIs
<1> HIDE DEF r
<1>4. ~ Has(h, t, 0) /\ h.fut_waiter[t] = None /\ rt # t
  BY DEF HeapInv, TasksOK
<1>5. Body(b, gs) /\ SameTokens(h, b)
  BY <1>0, <1>2, BornBody
<1>6. HandleOK(b, gs, x) /\ ~ Has(b, t, 0)
  BY <1>1, <1>2, <1>4, <1>5 DEF HandleOK, SameTokens
<1>7. Body(r, gs) /\ TokenAdded(b, r, t, 0) /\ QueueGrows(b, r)
  BY <1>1, <1>3, <1>5, <1>6, AppendBody
<1>8. \A p, q : Has(r, p, q) <=> Has(h, p, q) \/ (p = t /\ q = 0)
  BY <1>5, <1>7 DEF TokenAdded, SameTokens
<1>9. /\ \A y \in Awaitable : r.state[y] = IF y = t THEN "PENDING" ELSE h.state[y]
      /\ r.failed = h.failed /\ r.fut_waiter = h.fut_waiter
  BY <1>2, <1>3 DEF Keeps
<1>10. TasksOK(r, rt)
  <2> SUFFICES ASSUME NEW u \in Task
               PROVE  /\ Has(r, u, 0) <=> r.state[u] = "PENDING" /\ rt # u
                      /\ rt = u => r.state[u] = "PENDING"
                      /\ rt = u \/ r.state[u] # "PENDING" => r.fut_waiter[u] = None
    BY DEF TasksOK
  <2>1. Has(r, u, 0) <=> Has(h, u, 0) \/ u = t
    BY <1>8
  <2>2. r.state[u] = IF u = t THEN "PENDING" ELSE h.state[u]
    BY <1>9, AwaitableFacts
  <2> QED
    BY <1>4, <1>9, <2>1, <2>2 DEF HeapInv, TasksOK
<1>11. GathersOK(r, gs)
  <2>1. \A g \in Gathering : \A k : Has(r, g, k) <=> Has(h, g, k)
    BY <1>8, AwaitableFacts
  <2>2. \A y \in Awaitable : Good(h, y) => Good(r, y)
    BY <1>9 DEF Good
  <2>3. \A g \in Gathering : r.state[g] = h.state[g] /\ r.failed[g] = h.failed[g]
    BY <1>9, AwaitableFacts
  <2> QED
    BY <2>1, <2>2, <2>3, GathersKeep DEF HeapInv
<1>12. Onward(h, r)
  <2>1. QueueGrows(h, r)
    BY <1>2, <1>7 DEF QueueGrows
  <2>2. \A g \in Gathering : r.state[g] = h.state[g]
    BY <1>9, AwaitableFacts
  <2> QED
    BY <1>9, <2>1, <2>2 DEF Onward, Settled
<1> QED
  BY <1>2, <1>3, <1>7, <1>10, <1>11, <1>12 DEF HeapInv, r, b, x

\* What the invariant does not speak of may change.
LEMMA KeepsInv ==
    ASSUME NEW h, NEW gs, gs \in GathersType, NEW rt, HeapInv(h, gs, rt),
           NEW r \in Heap, Keeps(h, r), r.ready = h.ready
    PROVE  HeapInv(r, gs, rt) /\ Onward(h, r)
<1>0. h \in Heap /\ Body(h, gs)
  BY DEF HeapInv, Body
<1>1. Body(r, gs) /\ SameTokens(h, r)
  BY <1>0, KeepsBody
<1>2. TasksOK(r, rt)
  BY <1>1, TasksKeep DEF HeapInv, Keeps
<1>3. GathersOK(r, gs)
  <2>1. \A g \in Gathering : \A k : Has(r, g, k) <=> Has(h, g, k)
    BY <1>1 DEF SameTokens
  <2>2. \A y \in Awaitable : Good(h, y) => Good(r, y)
    BY DEF Good, Keeps
  <2> QED
    BY <2>1, <2>2, GathersKeep DEF HeapInv, Keeps
<1>4. Onward(h, r)
  BY <1>0, QueueRefl DEF Onward, Keeps, Settled
<1> QED
  BY <1>1, <1>2, <1>3, <1>4 DEF HeapInv

\* What a task passes a request to is reached with it.
LEMMA WaitsNext ==
    ASSUME NEW h, NEW f, NEW g \in WaitsFor(h, f), NEW y \in Awaited(h, g), y \in Awaitable
    PROVE  y \in WaitsFor(h, f)
<1> SUFFICES ASSUME NEW S \in SUBSET Awaitable,
                    f \in S, \A x \in S : Awaited(h, x) \subseteq S
             PROVE  y \in S
  BY DEF WaitsFor
<1>1. g \in S
  BY DEF WaitsFor
<1> QED
  BY <1>1

\* What a request is passed to is an awaitable.
LEMMA AwaitedType ==
    ASSUME NEW h \in Heap, gathers \in GathersType, NEW x
    PROVE  Awaited(h, x) \subseteq Awaitable
<1>1. CASE x \in Gathering
  <2> DEFINE children == gathers[x].children
  <2>1. Awaited(h, x) = Range(children) /\ children \in Seq(Awaitable)
    BY <1>1, LoopAssumption DEF Awaited, GathersType
  <2> HIDE DEF children
  <2> QED
    BY <2>1 DEF Range
<1>2. CASE x \notin Gathering /\ x \in Task /\ h.fut_waiter[x] # None
  BY <1>2, HeapFields DEF Awaited
<1>3. CASE x \notin Gathering /\ ~ (x \in Task /\ h.fut_waiter[x] # None)
  BY <1>3 DEF Awaited
<1> QED
  BY <1>1, <1>2, <1>3

\* A task that f does not wait for begins to await f: f does not wait for it.
LEMMA StillApart ==
    ASSUME NEW h \in Heap, gathers \in GathersType, NEW f \in Awaitable, NEW t \in Task,
           t \notin WaitsFor(h, f), NEW r,
           \A x \in Task : x # t => r.fut_waiter[x] = h.fut_waiter[x]
    PROVE  t \notin WaitsFor(r, f)
<1> DEFINE S == WaitsFor(h, f)
<1>1. S \in SUBSET Awaitable /\ f \in S
  BY WaitsSelf DEF WaitsFor
<1>2. ASSUME NEW x \in S PROVE Awaited(r, x) \subseteq S
  <2>1. x # t
    OBVIOUS
  <2>2. Awaited(r, x) = Awaited(h, x)
    BY <2>1, LoopAssumption DEF Awaited
  <2>3. Awaited(h, x) \subseteq Awaitable
    BY AwaitedType
  <2> HIDE DEF S
  <2> QED
    BY <1>2, <2>2, <2>3, WaitsNext DEF S
<1> HIDE DEF S
<1>3. WaitsFor(r, f) \subseteq S
  <2> SUFFICES ASSUME NEW g \in WaitsFor(r, f) PROVE g \in S
    OBVIOUS
  <2>1. \A T \in SUBSET Awaitable :
           f \in T /\ (\A x \in T : Awaited(r, x) \subseteq T) => g \in T
    BY DEF WaitsFor
  <2> QED
    BY <1>1, <1>2, <2>1
<1> QED
  BY <1>3 DEF S

\* The wake-up of t is left with the pending f, and _fut_waiter set.
LEMMA AwaitInv ==
    ASSUME NEW h, NEW gs, gs \in GathersType, NEW t \in Task, HeapInv(h, gs, t),
           NEW f \in Awaitable, h.state[f] = "PENDING"
    PROVE  LET r == AddDoneCallback([h EXCEPT !.fut_waiter[t] = f], f, WakeupOf(t))
           IN  /\ HeapInv(r, gs, None) /\ Onward(h, r)
               /\ r.must_cancel = h.must_cancel
               /\ r.fut_waiter[t] = f
               /\ \A x \in Task : x # t => r.fut_waiter[x] = h.fut_waiter[x]
<1> DEFINE w == [h.fut_waiter EXCEPT ![t] = f]
           b == [h EXCEPT !.fut_waiter[t] = f]
           c == WakeupOf(t)
           q == [h.callbacks EXCEPT ![f] = Append(h.callbacks[f], c)]
           r == AddDoneCallback(b, f, c)
<1>0. h \in Heap /\ Body(h, gs) /\ t \in Awaitable /\ t # None
  BY AwaitableFacts DEF HeapInv, Body
<1>1. /\ c \in Callback /\ c.call = "wakeup" /\ c.of = t /\ c.index = 0 /\ c.call \in Tokens
  BY <1>0 DEF WakeupOf, Callback, Tokens
<1>2. /\ w \in [Task -> Awaitable \cup {None}] /\ w[t] = f
      /\ \A x \in Task : x # t => w[x] = h.fut_waiter[x]
  BY <1>0, HeapFields
<1>3. b = [h EXCEPT !.fut_waiter = w]
  OBVIOUS
<1> HIDE DEF c, w, b
<1>4. b \in Heap
  BY <1>0, <1>2, <1>3 DEF Heap
<1>5. /\ b.fut_waiter = w /\ b.state = h.state /\ b.failed = h.failed
      /\ b.callbacks = h.callbacks /\ b.must_cancel = h.must_cancel
      /\ b.hidden = h.hidden /\ b.ready = h.ready
  BY <1>0, <1>3 DEF Heap
<1>6. /\ q \in [Awaitable -> Seq(Callback)] /\ q[f] = Append(h.callbacks[f], c)
      /\ \A e \in Awaitable : e # f => q[e] = h.callbacks[e]
  BY <1>0, <1>1, HeapFields
<1>7. r = [b EXCEPT !.callbacks = q]
  <2>1. ~ Done(b, f)
    BY <1>5 DEF Done
  <2>2. r = [b EXCEPT !.callbacks[f] = Append(@, c)]
    BY <2>1 DEF AddDoneCallback
  <2> QED
    BY <2>2, <1>5
<1> HIDE DEF q, r
<1>8. r \in Heap
  BY <1>4, <1>6, <1>7 DEF Heap
<1>9. /\ r.callbacks = q /\ r.fut_waiter = w /\ r.state = h.state /\ r.failed = h.failed
      /\ r.must_cancel = h.must_cancel /\ r.ready = h.ready
  BY <1>4, <1>5, <1>7 DEF Heap
<1>10. ~ Has(h, t, 0) /\ h.state[t] = "PENDING"
  BY DEF HeapInv, TasksOK
<1>11. Body(b, gs) /\ SameTokens(h, b)
  BY <1>0, <1>2, <1>4, <1>5, <1>10, WaiterBody
<1>12. CallbackOK(b, gs, f, c) /\ ~ Has(b, t, 0)
  <2>1. ~ Has(b, t, 0)
    BY <1>10, <1>11 DEF SameTokens
  <2> QED
    BY <1>1, <1>2, <1>5, <2>1 DEF CallbackOK
<1>13. Body(r, gs) /\ TokenAdded(b, r, t, 0) /\ QueueGrows(b, r)
  <2>1. /\ r.state = b.state /\ r.fut_waiter = b.fut_waiter /\ r.ready = b.ready
        /\ \A e \in Awaitable : e # f => r.callbacks[e] = b.callbacks[e]
        /\ r.callbacks[f] = Append(b.callbacks[f], c)
    BY <1>5, <1>6, <1>9
  <2>2. ~ Has(b, c.of, c.index)
    BY <1>1, <1>12
  <2>3. Body(r, gs) /\ TokenAdded(b, r, c.of, c.index) /\ QueueGrows(b, r)
    BY <1>1, <1>8, <1>11, <1>12, <2>1, <2>2, RegisterBody
  <2> QED
    BY <1>1, <2>3
<1>14. \A p, k : Has(r, p, k) <=> Has(h, p, k) \/ (p = t /\ k = 0)
  BY <1>11, <1>13 DEF TokenAdded, SameTokens
<1>15. TasksOK(r, None)
  <2> SUFFICES ASSUME NEW u \in Task
               PROVE  /\ Has(r, u, 0) <=> r.state[u] = "PENDING" /\ None # u
                      /\ None = u => r.state[u] = "PENDING"
                      /\ None = u \/ r.state[u] # "PENDING" => r.fut_waiter[u] = None
    BY DEF TasksOK
  <2>1. Has(r, u, 0) <=> Has(h, u, 0) \/ u = t
    BY <1>14
  <2>2. u # None
    BY AwaitableFacts
  <2>3. /\ Has(h, u, 0) <=> h.state[u] = "PENDING" /\ t # u
        /\ h.state[u] # "PENDING" => h.fut_waiter[u] = None
    BY DEF HeapInv, TasksOK
  <2>4. r.state[u] = h.state[u] /\ (u # t => r.fut_waiter[u] = h.fut_waiter[u])
    BY <1>2, <1>9
  <2> QED
    BY <1>10, <2>1, <2>2, <2>3, <2>4
<1>16. GathersOK(r, gs)
  <2>1. \A g \in Gathering : \A k : Has(r, g, k) <=> Has(h, g, k)
    BY <1>14, AwaitableFacts
  <2>2. \A y \in Awaitable : Good(h, y) => Good(r, y)
    BY <1>9 DEF Good
  <2> QED
    BY <1>9, <2>1, <2>2, GathersKeep DEF HeapInv
<1>17. Onward(h, r)
  BY <1>0, <1>9, QueueRefl DEF Onward, Settled
<1> QED
  BY <1>2, <1>9, <1>13, <1>15, <1>16, <1>17 DEF HeapInv, r, b, c

\* The running task suspends.  A cancellation that had been requested is
\* recorded still, or has reached something f waits for.
LEMMA SuspendInv ==
    ASSUME NEW h, gathers \in GathersType, NEW t \in Task, HeapInv(h, gathers, t),
           NEW f \in Awaitable, h.state[f] = "PENDING", t \notin WaitsFor(h, f)
    PROVE  LET r == Suspend(h, t, f)
           IN  /\ HeapInv(r, gathers, None) /\ Onward(h, r)
               /\ r.fut_waiter[t] = f
               /\ \A u \in Task : h.must_cancel[u] =>
                     r.must_cancel[u] \/ (u = t /\ CancelReached(r, f))
<1> DEFINE b == AddDoneCallback([h EXCEPT !.fut_waiter[t] = f], f, WakeupOf(t))
           c == Cancel(b, f)
           r == Suspend(h, t, f)
<1>1. /\ HeapInv(b, gathers, None) /\ Onward(h, b)
      /\ b.must_cancel = h.must_cancel
      /\ b.fut_waiter[t] = f
      /\ \A x \in Task : x # t => b.fut_waiter[x] = h.fut_waiter[x]
  BY AwaitInv
<1>2. r = CASE b.must_cancel[t] /\ c.ret -> [c.heap EXCEPT !.must_cancel[t] = FALSE]
            [] b.must_cancel[t] /\ ~ c.ret -> c.heap
            [] OTHER -> b
  BY DEF Suspend
<1>3. h \in Heap /\ b \in Heap
  BY <1>1 DEF HeapInv, Body
<1> HIDE DEF b, r
<1>4. /\ HeapInv(c.heap, gathers, None) /\ Onward(b, c.heap) /\ CancelGrows(b, c.heap)
      /\ c.ret \in BOOLEAN /\ (c.ret => CancelReached(c.heap, f))
  BY <1>1, CancelInv
<1>5. c.heap \in Heap
  BY <1>4 DEF HeapInv, Body
<1>6. Onward(h, c.heap)
  BY <1>1, <1>3, <1>4, <1>5, OnwardTrans
<1> HIDE DEF c
<1>7. c.heap.fut_waiter[t] = f
  BY <1>1, <1>4 DEF CancelGrows
<1>8. CASE ~ b.must_cancel[t]
  <2>1. r = b
    BY <1>2, <1>8
  <2> QED
    BY <1>1, <2>1 DEF r
<1>9. CASE b.must_cancel[t] /\ ~ c.ret
  <2>1. r = c.heap
    BY <1>2, <1>9
  <2>2. \A u \in Task : h.must_cancel[u] => c.heap.must_cancel[u]
    BY <1>1, <1>4 DEF CancelGrows
  <2> QED
    BY <1>4, <1>6, <1>7, <2>1, <2>2 DEF r
<1>10. CASE b.must_cancel[t] /\ c.ret
  <2> DEFINE m == [c.heap.must_cancel EXCEPT ![t] = FALSE]
  <2>1. r = [c.heap EXCEPT !.must_cancel = m]
    BY <1>2, <1>10
  <2>2. m \in [Task -> BOOLEAN] /\ \A u \in Task : u # t => m[u] = c.heap.must_cancel[u]
    BY <1>5, HeapFields
  <2> HIDE DEF m
  <2>3. r \in Heap
    BY <1>5, <2>1, <2>2 DEF Heap
  <2>4. /\ Keeps(c.heap, r) /\ r.ready = c.heap.ready /\ r.must_cancel = m
        /\ r.fut_waiter = c.heap.fut_waiter /\ r.state = c.heap.state
    BY <1>5, <2>1 DEF Heap, Keeps
  <2>5. HeapInv(r, gathers, None) /\ Onward(c.heap, r)
    BY <1>4, <2>3, <2>4, KeepsInv
  <2>6. Onward(h, r)
    BY <1>3, <1>5, <1>6, <2>3, <2>5, OnwardTrans
  <2>7. \A u \in Task : u # t => (h.must_cancel[u] => r.must_cancel[u])
    BY <1>1, <1>4, <2>2, <2>4 DEF CancelGrows
  <2>8. CancelReached(r, f)
    <3>1. PICK g \in WaitsFor(c.heap, f) :
             c.heap.state[g] = "CANCELLED" \/ (g \in Task /\ c.heap.must_cancel[g])
      BY <1>4, <1>10 DEF CancelReached
    <3>2. WaitsFor(c.heap, f) = WaitsFor(r, f)
      BY <2>4, WaitsSame
    <3>3. t \notin WaitsFor(b, f)
      BY <1>1, <1>3, StillApart
    <3>4. WaitsFor(c.heap, f) = WaitsFor(b, f)
      BY <1>4, WaitsSame DEF CancelGrows
    <3>5. g # t /\ g \in WaitsFor(r, f)
      BY <3>1, <3>2, <3>3, <3>4
    <3>6. r.state[g] = "CANCELLED" \/ (g \in Task /\ r.must_cancel[g])
      BY <2>2, <2>4, <3>1, <3>5
    <3> QED
      BY <3>5, <3>6 DEF CancelReached
  <2> QED
    BY <1>7, <2>4, <2>5, <2>6, <2>7, <2>8 DEF r
<1> QED
  BY <1>4, <1>8, <1>9, <1>10 DEF r

\* The queue without its first handle.
LEMMA PopIs ==
    ASSUME NEW h \in Heap, h.ready # <<>>
    PROVE  LET r == [h EXCEPT !.ready = Tail(@)]
           IN  /\ r \in Heap /\ Keeps(h, r) /\ r.ready = Tail(h.ready)
               /\ r.must_cancel = h.must_cancel /\ r.hidden = h.hidden
<1> DEFINE q == Tail(h.ready)
           r == [h EXCEPT !.ready = Tail(@)]
<1>1. q \in Seq(Handle)
  BY HeapFields
<1>2. r = [h EXCEPT !.ready = q]
  OBVIOUS
<1> HIDE DEF q, r
<1>3. r \in Heap
  BY <1>1, <1>2 DEF Heap
<1>4. /\ Keeps(h, r) /\ r.ready = q /\ r.must_cancel = h.must_cancel /\ r.hidden = h.hidden
  BY <1>2 DEF Heap, Keeps
<1> QED
  BY <1>3, <1>4 DEF q, r

\* Where the handles of the rest of the queue were.
LEMMA TailPlaces ==
    ASSUME NEW h \in Heap, h.ready # <<>>, NEW q, q = Tail(h.ready)
    PROVE  /\ Len(q) = Len(h.ready) - 1 /\ Len(h.ready) \in Nat /\ Len(h.ready) > 0
           /\ \A i \in 1 .. Len(q) : i + 1 \in 1 .. Len(h.ready) /\ q[i] = h.ready[i + 1]
           /\ Head(h.ready) = h.ready[1] /\ h.ready[1] \in Handle
<1> DEFINE n == Len(h.ready)
<1>0. h.ready \in Seq(Handle) /\ n \in Nat /\ n > 0
  BY HeapFields, HeapLens
<1>1. Len(q) = n - 1 /\ \A i \in 1 .. n - 1 : q[i] = h.ready[i + 1]
  BY <1>0
<1>2. Head(h.ready) = h.ready[1] /\ h.ready[1] \in Handle
  BY <1>0
<1>3. \A i \in 1 .. Len(q) : i + 1 \in 1 .. n /\ q[i] = h.ready[i + 1]
  <2> HIDE DEF n
  <2> QED
    BY <1>0, <1>1
<1> QED
  BY <1>0, <1>1, <1>2, <1>3

\* A step or wake-up of t is popped: t runs, and awaits nothing.
LEMMA PopTaskInv ==
    ASSUME NEW h, NEW gs, gs \in GathersType, HeapInv(h, gs, None), h.ready # <<>>,
           Head(h.ready).call \in {"step", "wakeup"}, NEW t, t = Head(h.ready).of,
           NEW r \in Heap, r.state = h.state, r.failed = h.failed,
           r.callbacks = h.callbacks, r.ready = Tail(h.ready),
           r.fut_waiter[t] = None,
           \A x \in Task : x # t => r.fut_waiter[x] = h.fut_waiter[x]
    PROVE  HeapInv(r, gs, t) /\ t \in Task /\ h.state[t] = "PENDING"
<1> DEFINE p == [h EXCEPT !.ready = Tail(@)]
           x == Head(h.ready)
<1>0. h \in Heap /\ Body(h, gs)
  BY DEF HeapInv, Body
<1>1. p \in Heap /\ Keeps(h, p) /\ p.ready = Tail(h.ready)
  BY <1>0, PopIs
<1> HIDE DEF p
<1>2. /\ Body(p, gs)
      /\ \A o, k : Has(p, o, k) <=> Has(h, o, k) /\ ~ IsToken(x, o, k)
  BY <1>0, <1>1, PopBody
<1>3. x = h.ready[1] /\ 1 \in 1 .. Len(h.ready)
  BY <1>0, TailPlaces
<1> HIDE DEF x
<1>4. HandleOK(h, gs, x)
  BY <1>0, <1>3 DEF Body, HandlesOK
<1>5. t \in Task /\ x.index = 0 /\ x.of = t /\ x.call \in Tokens
  BY <1>4 DEF HandleOK, x, Tokens
<1>6. IsToken(x, t, 0) /\ \A o, k : IsToken(x, o, k) => o = t
  BY <1>5 DEF IsToken
<1>7. Has(h, t, 0)
  BY <1>3, <1>6 DEF Has, Queued
<1>8. h.state[t] = "PENDING" /\ t # None
  BY <1>5, <1>7, AwaitableFacts DEF HeapInv, TasksOK
<1>9. ~ Has(p, t, 0)
  BY <1>2, <1>6
<1>10. Body(r, gs) /\ SameTokens(p, r)
  <2>1. /\ \A y \in Task : y # t => r.fut_waiter[y] = p.fut_waiter[y]
        /\ r.state = p.state /\ r.callbacks = p.callbacks /\ r.ready = p.ready
    BY <1>1 DEF Keeps
  <2> QED
    BY <1>2, <1>5, <1>9, <2>1, WaiterBody
<1>11. \A o, k : o # t => (Has(r, o, k) <=> Has(h, o, k))
  BY <1>2, <1>6, <1>10 DEF SameTokens
<1>12. ~ Has(r, t, 0)
  BY <1>9, <1>10 DEF SameTokens
<1>13. TasksOK(r, t)
  <2> SUFFICES ASSUME NEW u \in Task
               PROVE  /\ Has(r, u, 0) <=> r.state[u] = "PENDING" /\ t # u
                      /\ t = u => r.state[u] = "PENDING"
                      /\ t = u \/ r.state[u] # "PENDING" => r.fut_waiter[u] = None
    BY DEF TasksOK
  <2>1. CASE u = t
    BY <1>8, <1>12, <2>1
  <2>2. CASE u # t
    <3>1. Has(r, u, 0) <=> Has(h, u, 0)
      BY <1>11, <2>2
    <3>2. u # None
      BY AwaitableFacts
    <3> QED
      BY <2>2, <3>1, <3>2 DEF HeapInv, TasksOK
  <2> QED
    BY <2>1, <2>2
<1>14. GathersOK(r, gs)
  <2>1. \A g \in Gathering : \A k : Has(r, g, k) <=> Has(h, g, k)
    BY <1>5, <1>11, AwaitableFacts
  <2>2. \A y \in Awaitable : Good(h, y) => Good(r, y)
    BY DEF Good
  <2> QED
    BY <2>1, <2>2, GathersKeep DEF HeapInv
<1> QED
  BY <1>5, <1>8, <1>10, <1>13, <1>14 DEF HeapInv

\* A handle that is no token is popped.
LEMMA PopOtherInv ==
    ASSUME NEW h, NEW gs, gs \in GathersType, NEW rt, HeapInv(h, gs, rt), h.ready # <<>>,
           Head(h.ready).call \notin Tokens, NEW r \in Heap, Keeps(h, r),
           r.ready = Tail(h.ready)
    PROVE  HeapInv(r, gs, rt)
<1>0. h \in Heap /\ Body(h, gs)
  BY DEF HeapInv, Body
<1>1. /\ Body(r, gs)
      /\ \A o, k : Has(r, o, k) <=> Has(h, o, k) /\ ~ IsToken(Head(h.ready), o, k)
  BY <1>0, PopBody
<1>2. SameTokens(h, r)
  BY <1>1 DEF SameTokens, IsToken
<1>3. TasksOK(r, rt)
  BY <1>2, TasksKeep DEF HeapInv, Keeps
<1>4. GathersOK(r, gs)
  <2>1. \A g \in Gathering : \A k : Has(r, g, k) <=> Has(h, g, k)
    BY <1>2 DEF SameTokens
  <2>2. \A y \in Awaitable : Good(h, y) => Good(r, y)
    BY DEF Good, Keeps
  <2> QED
    BY <2>1, <2>2, GathersKeep DEF HeapInv, Keeps
<1> QED
  BY <1>1, <1>3, <1>4 DEF HeapInv

\* timer.cancel() changes a handle only in being cancelled.
LEMMA DisarmedIs ==
    ASSUME NEW x \in Handle, NEW t
    PROVE  LET y == Disarmed(x, t)
           IN  /\ y \in Handle /\ y.call = x.call /\ y.of = x.of /\ y.index = x.index
               /\ y.arg = x.arg
               /\ y.cancelled => x.cancelled \/ x.call = "timeout"
               /\ x.cancelled => y.cancelled
               /\ x.call = "timeout" /\ x.of = t => y.cancelled
BY DEF Disarmed, Handle

\* r is h after timer.cancel() of t reached the queue
QueueOff(h, r, gs, rt, t) ==
    /\ HeapInv(r, gs, rt) /\ Keeps(h, r) /\ r.must_cancel = h.must_cancel
    /\ Len(r.ready) = Len(h.ready)
    /\ \A i \in 1 .. Len(h.ready) : r.ready[i] = Disarmed(h.ready[i], t)

\* The timers of t in the queue are disarmed.
LEMMA DisarmInv ==
    ASSUME NEW h, NEW gs, gs \in GathersType, NEW rt, HeapInv(h, gs, rt), NEW t
    PROVE  QueueOff(h, [h EXCEPT !.ready = [i \in DOMAIN @ |-> Disarmed(@[i], t)]], gs, rt, t)
<1> DEFINE q == [i \in DOMAIN h.ready |-> Disarmed(h.ready[i], t)]
           r == [h EXCEPT !.ready = [i \in DOMAIN @ |-> Disarmed(@[i], t)]]
<1>0. h \in Heap /\ Body(h, gs) /\ h.ready \in Seq(Handle)
  BY HeapFields DEF HeapInv, Body
<1>1. /\ q \in Seq(Handle) /\ Len(q) = Len(h.ready)
      /\ \A i \in 1 .. Len(h.ready) : q[i] = Disarmed(h.ready[i], t)
  <2>1. \A i \in 1 .. Len(h.ready) : Disarmed(h.ready[i], t) \in Handle
    BY <1>0, DisarmedIs
  <2> QED
    BY <1>0, <2>1
<1>2. r = [h EXCEPT !.ready = q]
  OBVIOUS
<1> HIDE DEF q, r
<1>3. r \in Heap
  BY <1>0, <1>1, <1>2 DEF Heap
<1>4. Keeps(h, r) /\ r.ready = q /\ r.must_cancel = h.must_cancel
  BY <1>0, <1>2 DEF Heap, Keeps
<1>5. \A i \in 1 .. Len(h.ready) :
         /\ r.ready[i].call = h.ready[i].call /\ r.ready[i].of = h.ready[i].of
         /\ r.ready[i].index = h.ready[i].index /\ r.ready[i].arg = h.ready[i].arg
         /\ r.ready[i].cancelled => h.ready[i].cancelled \/ h.ready[i].call = "timeout"
  <2> SUFFICES ASSUME NEW i \in 1 .. Len(h.ready)
               PROVE  /\ r.ready[i].call = h.ready[i].call /\ r.ready[i].of = h.ready[i].of
                      /\ r.ready[i].index = h.ready[i].index
                      /\ r.ready[i].arg = h.ready[i].arg
                      /\ r.ready[i].cancelled =>
                            h.ready[i].cancelled \/ h.ready[i].call = "timeout"
    OBVIOUS
  <2>1. r.ready[i] = Disarmed(h.ready[i], t) /\ h.ready[i] \in Handle
    BY <1>0, <1>1, <1>4
  <2> QED
    BY <2>1, DisarmedIs
<1>6. Body(r, gs) /\ SameTokens(h, r)
  BY <1>0, <1>1, <1>3, <1>4, <1>5, DisarmBody
<1>7. TasksOK(r, rt)
  BY <1>4, <1>6, TasksKeep DEF HeapInv, Keeps
<1>8. GathersOK(r, gs)
  <2>1. \A g \in Gathering : \A k : Has(r, g, k) <=> Has(h, g, k)
    BY <1>6 DEF SameTokens
  <2>2. \A y \in Awaitable : Good(h, y) => Good(r, y)
    BY <1>4 DEF Good, Keeps
  <2> QED
    BY <1>4, <2>1, <2>2, GathersKeep DEF HeapInv, Keeps
<1> QED
  BY <1>1, <1>4, <1>6, <1>7, <1>8 DEF HeapInv, r, QueueOff

-----------------------------------------------------------------------------
(* gather *)

\* A part of 1 .. n with n members is all of it.
LEMMA AllReported ==
    ASSUME NEW n \in Nat, NEW S \in SUBSET (1 .. n), Cardinality(S) = n
    PROVE  S = 1 .. n
<1>1. IsFiniteSet(1 .. n) /\ Cardinality(1 .. n) = n
  BY FS_Interval
<1> QED
  BY <1>1, FS_Subset

\* r is h with the report of c, the k-th child of g, popped
TakesReport(h, r, g, k, c) ==
    /\ r \in Heap /\ Keeps(h, r)
    /\ h.ready # <<>> /\ r.ready = Tail(h.ready)
    /\ Head(h.ready).call = "gather_done" /\ Head(h.ready).of = g
    /\ Head(h.ready).index = k /\ Head(h.ready).arg = c

\* the other gathers and the tasks are as before; of g one child more is
\* reported
ReportTaken(h, gs, rt, r, g, k, c) ==
    /\ Body(r, gs) /\ TasksOK(r, rt) /\ g \in Gathering /\ h.state[g] # "UNBORN"
    /\ \A e \in Gathering : e # g => GatherOK(r, gs, e)
    /\ Reported(r, gs, g) = Reported(h, gs, g) \cup {k}
    /\ k \notin Reported(h, gs, g) /\ k \in 1 .. Len(gs[g].children)
    /\ c = gs[g].children[k] /\ c \in Awaitable /\ Settled(h, c)

\* The report of the k-th child of g is popped.
LEMMA PopReport ==
    ASSUME NEW h, NEW gs, gs \in GathersType, NEW rt, HeapInv(h, gs, rt),
           NEW r, NEW g, NEW k, NEW c, TakesReport(h, r, g, k, c)
    PROVE  ReportTaken(h, gs, rt, r, g, k, c)
<1> DEFINE x == Head(h.ready)
<1>0. h \in Heap /\ Body(h, gs)
  BY DEF HeapInv, Body
<1>0b. /\ r \in Heap /\ Keeps(h, r) /\ h.ready # <<>> /\ r.ready = Tail(h.ready)
       /\ x.call = "gather_done" /\ x.of = g /\ x.index = k /\ x.arg = c
  BY DEF TakesReport
<1>1. /\ Body(r, gs)
      /\ \A o, i : Has(r, o, i) <=> Has(h, o, i) /\ ~ IsToken(x, o, i)
  BY <1>0, <1>0b, PopBody
<1>2. x = h.ready[1] /\ 1 \in 1 .. Len(h.ready)
  BY <1>0, <1>0b, TailPlaces
<1>3. x.call = "gather_done" /\ x.of = g /\ x.index = k /\ x.arg = c
  BY <1>0b
<1> HIDE DEF x
<1>4. HandleOK(h, gs, x)
  BY <1>0, <1>2 DEF Body, HandlesOK
<1>5. /\ g \in Gathering /\ k \in 1 .. Len(gs[g].children) /\ h.state[g] # "UNBORN"
      /\ c \in Awaitable /\ c = gs[g].children[k] /\ Settled(h, c)
  BY <1>3, <1>4 DEF HandleOK
<1>6. \A o, i : IsToken(x, o, i) <=> o = g /\ i = k
  BY <1>3 DEF IsToken, Tokens
<1>7. Has(h, g, k)
  <2>1. IsToken(x, g, k)
    BY <1>6
  <2> QED
    BY <1>2, <2>1 DEF Has, Queued
<1>8. \A o, i : Has(r, o, i) <=> Has(h, o, i) /\ ~ (o = g /\ i = k)
  BY <1>1, <1>6
<1>9. TasksOK(r, rt)
  <2> SUFFICES ASSUME NEW u \in Task
               PROVE  /\ Has(r, u, 0) <=> r.state[u] = "PENDING" /\ rt # u
                      /\ rt = u => r.state[u] = "PENDING"
                      /\ rt = u \/ r.state[u] # "PENDING" => r.fut_waiter[u] = None
    BY DEF TasksOK
  <2>1. u # g
    BY <1>5, AwaitableFacts
  <2>2. Has(r, u, 0) <=> Has(h, u, 0)
    BY <1>8, <2>1
  <2> QED
    BY <1>0b, <2>2 DEF HeapInv, TasksOK, Keeps
<1>10. ASSUME NEW e \in Gathering, e # g PROVE GatherOK(r, gs, e)
  <2>1. \A i : Has(r, e, i) <=> Has(h, e, i)
    BY <1>8, <1>10
  <2>2. GatherOK(h, gs, e)
    BY DEF HeapInv, GathersOK
  <2>3. \A y \in Awaitable : Good(h, y) => Good(r, y)
    BY <1>0b DEF Good, Keeps
  <2>4. r.state[e] = h.state[e] /\ r.failed[e] = h.failed[e]
    BY <1>0b DEF Keeps
  <2> QED
    BY <2>1, <2>2, <2>3, <2>4, GatherKeeps
<1>11. Reported(r, gs, g) = Reported(h, gs, g) \cup {k} /\ k \notin Reported(h, gs, g)
  BY <1>5, <1>7, <1>8 DEF Reported
<1> QED
  BY <1>1, <1>5, <1>9, <1>10, <1>11 DEF ReportTaken

\* The part of g when its report is popped and g is done already.
LEMMA LateReport ==
    ASSUME NEW h, NEW r, NEW gs, NEW g \in Gathering, GatherOK(h, gs, g), Keeps(h, r),
           h.state[g] # "PENDING"
    PROVE  GatherOK(r, gs, g)
BY DEF GatherOK, Good, Keeps

\* The part of g when a child with a result has been reported and counted.
LEMMA CountedReport ==
    ASSUME NEW h, NEW r, NEW gs, gs \in GathersType, NEW g \in Gathering,
           GatherOK(h, gs, g), Keeps(h, r), h.state[g] = "PENDING", NEW k,
           k \in 1 .. Len(gs[g].children), k \notin Reported(h, gs, g),
           Reported(r, gs, g) = Reported(h, gs, g) \cup {k},
           Good(h, gs[g].children[k])
    PROVE  /\ Cardinality(Reported(r, gs, g)) = gs[g].nfinished + 1
           /\ \A i \in Reported(r, gs, g) : Good(r, gs[g].children[i])
           /\ gs[g].nfinished + 1 = Len(gs[g].children) =>
                 \A i \in 1 .. Len(gs[g].children) : Good(r, gs[g].children[i])
<1> DEFINE n == Len(gs[g].children)
           R == Reported(h, gs, g)
<1>1. n \in Nat
  BY DEF GathersType
<1>2. IsFiniteSet(R) /\ R \subseteq 1 .. n
  <2>1. R \subseteq 1 .. n
    BY DEF Reported
  <2>2. IsFiniteSet(1 .. n)
    BY <1>1, FS_Interval
  <2> HIDE DEF R, n
  <2> QED
    BY <2>1, <2>2, FS_Subset
<1>3. gs[g].nfinished = Cardinality(R) /\ \A i \in R : Good(h, gs[g].children[i])
  BY DEF GatherOK
<1> HIDE DEF n, R
<1>4. Cardinality(R \cup {k}) = Cardinality(R) + 1
  BY <1>2, FS_AddElement DEF R
<1>5. \A x : Good(h, x) <=> Good(r, x)
  BY DEF Good, Keeps
<1>6. \A i \in R \cup {k} : Good(r, gs[g].children[i])
  BY <1>3, <1>5
<1>7. ASSUME gs[g].nfinished + 1 = n PROVE R \cup {k} = 1 .. n
  <2>1. R \cup {k} \in SUBSET (1 .. n)
    BY <1>2 DEF n
  <2>2. Cardinality(R \cup {k}) = n
    BY <1>3, <1>4, <1>7
  <2> QED
    BY <1>1, <2>1, <2>2, AllReported
<1> QED
  BY <1>3, <1>4, <1>6, <1>7 DEF R, n

\* One callback of gather is registered.
LEMMA AddReport ==
    ASSUME NEW h, NEW gs, Body(h, gs), NEW g \in Gathering, h.state[g] # "UNBORN",
           NEW i \in 1 .. Len(gs[g].children), NEW c \in Awaitable,
           c = gs[g].children[i], h.state[c] # "UNBORN", i \in Nat, ~ Has(h, g, i)
    PROVE  LET r == AddDoneCallback(h, c, [call |-> "gather_done", of |-> g, index |-> i])
           IN  /\ Body(r, gs) /\ TokenAdded(h, r, g, i) /\ QueueGrows(h, r)
               /\ r.state = h.state /\ r.failed = h.failed /\ r.fut_waiter = h.fut_waiter
               /\ r.must_cancel = h.must_cancel
<1> DEFINE cb == [call |-> "gather_done", of |-> g, index |-> i]
           x == NewHandle(cb.call, cb.of, cb.index, c)
           r == AddDoneCallback(h, c, cb)
<1>0. h \in Heap /\ g \in Awaitable
  BY AwaitableFacts DEF Body
<1>1. /\ cb \in Callback /\ cb.call = "gather_done" /\ cb.of = g /\ cb.index = i
      /\ cb.call \in Tokens
  BY <1>0 DEF Callback, Tokens
<1> HIDE DEF cb
<1>2. CASE Done(h, c)
  <2>1. x \in Handle /\ MadeOf(x, cb, c)
    BY <1>1, NewHandleType, NewHandleMade
  <2>2. r = CallSoon(h, x)
    BY <1>2 DEF AddDoneCallback
  <2>3. Settled(h, c)
    BY <1>0, <1>2, HeapFields DEF Done, Settled
  <2> HIDE DEF x, r
  <2>4. HandleOK(h, gs, x)
    BY <1>1, <2>1, <2>3 DEF HandleOK, MadeOf
  <2>5. /\ r \in Heap /\ Keeps(h, r) /\ r.ready = Append(h.ready, x)
        /\ r.must_cancel = h.must_cancel
    BY <1>0, <2>1, <2>2, CallSoonIs
  <2>6. x.call \in Tokens /\ x.of = g /\ x.index = i
    BY <1>1, <2>1 DEF MadeOf
  <2>7. Body(r, gs) /\ TokenAdded(h, r, x.of, x.index) /\ QueueGrows(h, r)
    BY <2>1, <2>4, <2>5, <2>6, AppendBody
  <2> QED
    BY <2>5, <2>6, <2>7 DEF Keeps, r, cb
<1>3. CASE ~ Done(h, c)
  <2> DEFINE q == [h.callbacks EXCEPT ![c] = Append(h.callbacks[c], cb)]
  <2>1. h.state[c] = "PENDING"
    BY <1>3 DEF Done
  <2>2. r = [h EXCEPT !.callbacks = q]
    BY <1>3 DEF AddDoneCallback
  <2>3. /\ q \in [Awaitable -> Seq(Callback)] /\ q[c] = Append(h.callbacks[c], cb)
        /\ \A e \in Awaitable : e # c => q[e] = h.callbacks[e]
    BY <1>0, <1>1, HeapFields, SMTT(40)
  <2> HIDE DEF q, r
  <2>4. r \in Heap
    BY <1>0, <2>2, <2>3 DEF Heap
  <2>5. /\ r.callbacks = q /\ r.fut_waiter = h.fut_waiter /\ r.state = h.state
        /\ r.failed = h.failed /\ r.must_cancel = h.must_cancel /\ r.ready = h.ready
    BY <1>0, <2>2 DEF Heap
  <2>6. CallbackOK(h, gs, c, cb)
    BY <1>1, <2>1 DEF CallbackOK
  <2>7. /\ \A e \in Awaitable : e # c => r.callbacks[e] = h.callbacks[e]
        /\ r.callbacks[c] = Append(h.callbacks[c], cb)
        /\ ~ Has(h, cb.of, cb.index)
    BY <1>1, <2>3, <2>5
  <2>8. Body(r, gs) /\ TokenAdded(h, r, cb.of, cb.index) /\ QueueGrows(h, r)
    BY <1>1, <2>4, <2>5, <2>6, <2>7, RegisterBody
  <2> QED
    BY <1>1, <2>5, <2>8 DEF r, cb
<1> QED
  BY <1>2, <1>3

-----------------------------------------------------------------------------
(* gather: a report is registered with each child *)

\* the heap with the report of the i-th child registered
ReportAdded(h, g, children, i) ==
    AddDoneCallback(h, children[i], [call |-> "gather_done", of |-> g, index |-> i])

\* f lists the heaps after the first 0, 1, ..., n registrations
RegisterList(f, h, g, children, n) ==
    f = [i \in 0 .. n |-> IF i = 0 THEN h ELSE ReportAdded(f[i - 1], g, children, i)]

\* There is such a list, by its least length: one more child extends it.
LEMMA RegisterListExists ==
    ASSUME NEW h, NEW g, NEW children
    PROVE  \A n \in Nat : \E f : RegisterList(f, h, g, children, n)
<1> DEFINE S == {n \in Nat : ~ \E f : RegisterList(f, h, g, children, n)}
<1> SUFFICES ASSUME S # {} PROVE FALSE
  OBVIOUS
<1>1. PICK n \in S : \A j \in S : n <= j
  BY LeastIn
<1>2. n \in Nat /\ ~ \E f : RegisterList(f, h, g, children, n)
  OBVIOUS
<1>3. CASE n = 0
  <2> DEFINE f == [i \in 0 .. 0 |-> h]
  <2>1. f = [i \in 0 .. 0 |-> IF i = 0 THEN h ELSE ReportAdded(f[i - 1], g, children, i)]
    OBVIOUS
  <2> HIDE DEF f
  <2> QED
    BY <1>2, <1>3, <2>1 DEF RegisterList
<1>4. CASE n # 0
  <2>1. n - 1 \in Nat /\ n - 1 \notin S
    BY <1>1, <1>2, <1>4
  <2>2. PICK e : RegisterList(e, h, g, children, n - 1)
    BY <2>1
  <2> DEFINE m == n - 1
             f == [i \in 0 .. n |-> IF i = n THEN ReportAdded(e[m], g, children, n) ELSE e[i]]
  <2>3. m \in Nat /\ n = m + 1 /\ RegisterList(e, h, g, children, m)
    BY <1>2, <2>1, <2>2
  <2>4. \A i \in 0 .. m :
           e[i] = IF i = 0 THEN h ELSE ReportAdded(e[i - 1], g, children, i)
    <3>1. e = [i \in 0 .. m |-> IF i = 0 THEN h ELSE ReportAdded(e[i - 1], g, children, i)]
      BY <2>3 DEF RegisterList
    <3> QED
      BY <3>1
  <2>5. f[n] = ReportAdded(e[m], g, children, n) /\ \A i \in 0 .. m : f[i] = e[i]
    BY <1>2, <2>3
  <2>6. f = [i \in 0 .. n |-> f[i]]
    OBVIOUS
  <2> HIDE DEF m, f
  <2>7. ASSUME NEW i \in 0 .. n
        PROVE  f[i] = IF i = 0 THEN h ELSE ReportAdded(f[i - 1], g, children, i)
    <3>1. CASE i = n
      <4>1. i # 0 /\ i - 1 = m /\ m \in 0 .. m
        BY <3>1, <2>3
      <4> QED
        BY <4>1, <3>1, <2>5
    <3>2. CASE i # n
      <4>1. i \in 0 .. m /\ (i # 0 => i - 1 \in 0 .. m)
        BY <3>2, <2>3
      <4> QED
        BY <4>1, <2>4, <2>5
    <3> QED
      BY <3>1, <3>2
  <2>8. [i \in 0 .. n |-> f[i]] =
           [i \in 0 .. n |-> IF i = 0 THEN h ELSE ReportAdded(f[i - 1], g, children, i)]
    BY <2>7
  <2>9. RegisterList(f, h, g, children, n)
    BY <2>6, <2>8 DEF RegisterList
  <2> QED
    BY <2>9, <1>2
<1> QED
  BY <1>3, <1>4

\* Register is the last entry of such a list.
LEMMA RegisterIs ==
    ASSUME NEW h, NEW g, NEW children \in Seq(Awaitable)
    PROVE  \E f : /\ RegisterList(f, h, g, children, Len(children))
                  /\ Register(h, g, children) = f[Len(children)]
<1> DEFINE n == Len(children)
           f == CHOOSE f : f = [i \in 0 .. n |->
                                   IF i = 0 THEN h
                                   ELSE AddDoneCallback(f[i - 1], children[i],
                                          [call |-> "gather_done", of |-> g, index |-> i])]
<1>1. n \in Nat
  OBVIOUS
<1>2. \E e : e = [i \in 0 .. n |->
                     IF i = 0 THEN h
                     ELSE AddDoneCallback(e[i - 1], children[i],
                            [call |-> "gather_done", of |-> g, index |-> i])]
  <2> HIDE DEF n
  <2>1. PICK e : RegisterList(e, h, g, children, n)
    BY <1>1, RegisterListExists
  <2>2. e = [i \in 0 .. n |->
                IF i = 0 THEN h
                ELSE AddDoneCallback(e[i - 1], children[i],
                       [call |-> "gather_done", of |-> g, index |-> i])]
    BY <2>1 DEF RegisterList, ReportAdded
  <2> QED
    BY <2>2
<1>3. Register(h, g, children) = f[n]
  BY DEF Register
<1>4. RegisterList(f, h, g, children, n)
  <2> HIDE DEF n
  <2> QED
    BY <1>2 DEF RegisterList, ReportAdded
<1> HIDE DEF f
<1> QED
  BY <1>3, <1>4

\* the heap r after the first i of the registrations that start from b
Registered(b, r, gt, g, i) ==
    /\ Body(r, gt) /\ QueueGrows(b, r)
    /\ r.state = b.state /\ r.failed = b.failed /\ r.fut_waiter = b.fut_waiter
    /\ r.must_cancel = b.must_cancel
    /\ \A o, k : Has(r, o, k) <=> Has(b, o, k) \/ (o = g /\ k \in 1 .. i)

\* One more registration.
LEMMA RegisterNext ==
    ASSUME NEW b \in Heap, NEW r, NEW gt, NEW g \in Gathering, NEW i \in Nat,
           gt \in GathersType, Registered(b, r, gt, g, i), b.state[g] # "UNBORN",
           \A k : ~ Has(b, g, k), i + 1 \in 1 .. Len(gt[g].children),
           \A k \in 1 .. Len(gt[g].children) : b.state[gt[g].children[k]] # "UNBORN"
    PROVE  Registered(b, ReportAdded(r, g, gt[g].children, i + 1), gt, g, i + 1)
<1> DEFINE n == i + 1
           c == gt[g].children[n]
           s == ReportAdded(r, g, gt[g].children, n)
<1>1. n \in 1 .. Len(gt[g].children) /\ n \in Nat /\ n \notin 1 .. i
      /\ \A k : k \in 1 .. n <=> k \in 1 .. i \/ k = n
  OBVIOUS
<1>2. c \in Awaitable
  <2>1. gt[g].children \in Seq(Awaitable)
    BY DEF GathersType
  <2> QED
    BY <1>1, <2>1
<1>3. s = AddDoneCallback(r, c, [call |-> "gather_done", of |-> g, index |-> n])
  BY DEF ReportAdded
<1>4. r.state[c] # "UNBORN" /\ r.state[g] # "UNBORN"
  BY <1>1 DEF Registered
<1>4b. c = gt[g].children[n]
  OBVIOUS
<1> HIDE DEF n, c, s
<1>5. ~ Has(r, g, n) /\ Body(r, gt)
  BY <1>1 DEF Registered
<1>6. /\ Body(s, gt) /\ TokenAdded(r, s, g, n) /\ QueueGrows(r, s)
      /\ s.state = r.state /\ s.failed = r.failed /\ s.fut_waiter = r.fut_waiter
      /\ s.must_cancel = r.must_cancel
  BY <1>1, <1>2, <1>3, <1>4, <1>4b, <1>5, AddReport
<1>7. QueueGrows(b, s)
  <2>1. r \in Heap /\ s \in Heap /\ QueueGrows(b, r)
    BY <1>6 DEF Registered, Body
  <2> QED
    BY <1>6, <2>1, QueueTrans
<1>8. \A o, k : Has(s, o, k) <=> Has(b, o, k) \/ (o = g /\ k \in 1 .. n)
  BY <1>1, <1>6 DEF Registered, TokenAdded
<1>9. Registered(b, s, gt, g, n)
  BY <1>6, <1>7, <1>8 DEF Registered
<1> QED
  BY <1>9 DEF n, s

\* All of them.
LEMMA RegisterAll ==
    ASSUME NEW b \in Heap, NEW gt, NEW g \in Gathering,
           gt \in GathersType, Body(b, gt), b.state[g] # "UNBORN", \A k : ~ Has(b, g, k),
           \A k \in 1 .. Len(gt[g].children) : b.state[gt[g].children[k]] # "UNBORN"
    PROVE  Registered(b, Register(b, g, gt[g].children), gt, g, Len(gt[g].children))
<1> DEFINE children == gt[g].children
           n == Len(children)
<1>1. children \in Seq(Awaitable) /\ n \in Nat
  BY DEF GathersType
<1>2. PICK f : RegisterList(f, b, g, children, n) /\ Register(b, g, children) = f[n]
  BY <1>1, RegisterIs
<1>3. \A i \in 0 .. n : f[i] = IF i = 0 THEN b ELSE ReportAdded(f[i - 1], g, children, i)
  <2>1. f = [i \in 0 .. n |-> IF i = 0 THEN b ELSE ReportAdded(f[i - 1], g, children, i)]
    BY <1>2 DEF RegisterList
  <2> HIDE DEF n, children
  <2> QED
    BY <2>1
<1> DEFINE S == {i \in 0 .. n : ~ Registered(b, f[i], gt, g, i)}
<1>4. S = {}
  <2> SUFFICES ASSUME S # {} PROVE FALSE
    OBVIOUS
  <2>1. S \in SUBSET Nat
    BY <1>1
  <2>2. PICK m \in S : \A j \in S : m <= j
    <3> HIDE DEF S
    <3> QED
      BY <2>1, LeastIn
  <2>3. m \in 0 .. n /\ ~ Registered(b, f[m], gt, g, m)
    OBVIOUS
  <2>4. CASE m = 0
    <3>1. f[0] = b
      BY <1>1, <1>3
    <3>2. \A k : k \notin 1 .. 0
      OBVIOUS
    <3>3. QueueGrows(b, b)
      BY QueueRefl
    <3> QED
      BY <2>3, <2>4, <3>1, <3>2, <3>3 DEF Registered
  <2>5. CASE m # 0
    <3> DEFINE p == m - 1
    <3>1. p \in Nat /\ p \in 0 .. n /\ p \notin S /\ p + 1 = m /\ m \in 1 .. n
      BY <1>1, <2>2, <2>3, <2>5
    <3>2. Registered(b, f[p], gt, g, p)
      BY <3>1
    <3>3. f[m] = ReportAdded(f[p], g, children, m)
      BY <1>3, <2>3, <2>5
    <3> HIDE DEF p, S
    <3>4. Registered(b, ReportAdded(f[p], g, gt[g].children, p + 1), gt, g, p + 1)
      BY <3>1, <3>2, RegisterNext
    <3> QED
      BY <3>1, <3>3, <3>4, <2>3
  <2> QED
    BY <2>4, <2>5
<1>5. n \in 0 .. n
  BY <1>1
<1>6. Registered(b, f[n], gt, g, n)
  BY <1>4, <1>5
<1> QED
  BY <1>2, <1>6

\* A gather that was not created has no reports.
LEMMA UnbornHasNone ==
    ASSUME NEW h, NEW gs, Body(h, gs), NEW g \in Gathering, h.state[g] = "UNBORN"
    PROVE  \A k : ~ Has(h, g, k)
<1> SUFFICES ASSUME NEW k, Has(h, g, k) PROVE FALSE
  OBVIOUS
<1>1. ASSUME Queued(h, g, k) PROVE FALSE
  <2> PICK i \in 1 .. Len(h.ready) : IsToken(h.ready[i], g, k)
    BY <1>1 DEF Queued
  <2>1. HandleOK(h, gs, h.ready[i])
    BY DEF Body, HandlesOK
  <2> QED
    BY <2>1, AwaitableFacts DEF HandleOK, IsToken, Tokens
<1>2. ASSUME Left(h, g, k) PROVE FALSE
  <2> PICK f \in Awaitable : \E j \in 1 .. Len(h.callbacks[f]) :
                                 IsToken(h.callbacks[f][j], g, k)
    BY <1>2 DEF Left
  <2> PICK j \in 1 .. Len(h.callbacks[f]) : IsToken(h.callbacks[f][j], g, k)
    OBVIOUS
  <2>1. CallbackOK(h, gs, f, h.callbacks[f][j])
    BY DEF Body, CallbacksOK
  <2>2. h.callbacks[f][j].call \in {"wakeup", "gather_done", "stop"}
    <3>1. h.callbacks[f] \in Seq(Callback)
      BY HeapFields DEF Body
    <3>2. h.callbacks[f][j] \in Callback
      BY <3>1
    <3> QED
      BY <3>2 DEF Callback
  <2> QED
    BY <2>1, <2>2, AwaitableFacts DEF CallbackOK, IsToken, Tokens
<1> QED
  BY <1>1, <1>2 DEF Has

\* gt is gs with the children of g set
GathersWith(gs, gt, g, children) ==
    /\ gt \in GathersType
    /\ \A e \in Gathering : e # g => gt[e] = gs[e]
    /\ gt[g].children = children /\ gt[g].nfinished = gs[g].nfinished

AllBorn(h, children) == \A k \in 1 .. Len(children) : h.state[children[k]] # "UNBORN"

\* what gather() does to the heap
GatherMade(h, r, gt, rt, g) ==
    /\ HeapInv(r, gt, rt) /\ QueueGrows(h, r)
    /\ r.must_cancel = h.must_cancel
    /\ \A x \in Awaitable : Settled(h, x) => Settled(r, x)
    /\ \A e \in Gathering : e # g => r.state[e] = h.state[e]
    /\ gt[g].nfinished = 0

\* gather(): every child has a report to deliver, and none is counted yet.
LEMMA GatherInv ==
    ASSUME NEW h, NEW gs, gs \in GathersType, NEW rt, HeapInv(h, gs, rt),
           NEW g \in Gathering, h.state[g] = "UNBORN", NEW children \in Seq(Awaitable),
           AllBorn(h, children), NEW gt, GathersWith(gs, gt, g, children)
    PROVE  GatherMade(h, Register([h EXCEPT !.state[g] = "PENDING"], g, children), gt, rt, g)
<1> DEFINE b == [h EXCEPT !.state[g] = "PENDING"]
           r == Register(b, g, children)
<1>0. h \in Heap /\ Body(h, gs) /\ g \in Awaitable
  BY AwaitableFacts DEF HeapInv, Body
<1>1. /\ b \in Heap
      /\ \A y \in Awaitable : b.state[y] = IF y = g THEN "PENDING" ELSE h.state[y]
      /\ b.failed = h.failed /\ b.callbacks = h.callbacks
      /\ b.fut_waiter = h.fut_waiter /\ b.ready = h.ready /\ b.must_cancel = h.must_cancel
  BY <1>0, BornIs
<1>2. /\ gt \in GathersType
      /\ \A e \in Gathering : e # g => gt[e] = gs[e]
      /\ gt[g].children = children /\ gt[g].nfinished = gs[g].nfinished
  BY DEF GathersWith
<1>3. gs[g].nfinished = 0
  BY DEF HeapInv, GathersOK, GatherOK
<1> HIDE DEF b
<1>4. \A k : ~ Has(h, g, k)
  BY <1>0, UnbornHasNone
<1>5. Body(b, gt) /\ SameTokens(h, b)
  <2>1. Body(h, gt)
    <3>1. \A e \in Gathering : h.state[e] # "UNBORN" => gt[e] = gs[e]
      BY <1>2
    <3> QED
      BY <1>0, <3>1, ChildrenBody
  <2> QED
    BY <1>0, <1>1, <2>1, BornBody
<1>6. Registered(b, r, gt, g, Len(children))
  <2>1. \A k : ~ Has(b, g, k)
    BY <1>4, <1>5 DEF SameTokens
  <2>2. \A k \in 1 .. Len(gt[g].children) : b.state[gt[g].children[k]] # "UNBORN"
    <3>1. \A k \in 1 .. Len(children) : children[k] \in Awaitable
      OBVIOUS
    <3> QED
      BY <1>1, <1>2, <3>1 DEF AllBorn
  <2>3. b.state[g] # "UNBORN"
    BY <1>0, <1>1
  <2>4. Registered(b, Register(b, g, gt[g].children), gt, g, Len(gt[g].children))
    BY <1>1, <1>2, <1>5, <2>1, <2>2, <2>3, RegisterAll
  <2> QED
    BY <1>2, <2>4
<1> HIDE DEF r
<1>7. /\ Body(r, gt) /\ QueueGrows(b, r)
      /\ r.state = b.state /\ r.failed = b.failed /\ r.fut_waiter = b.fut_waiter
      /\ r.must_cancel = b.must_cancel
  BY <1>6 DEF Registered
<1>8. \A o, k : Has(r, o, k) <=> Has(h, o, k) \/ (o = g /\ k \in 1 .. Len(children))
  BY <1>5, <1>6 DEF SameTokens, Registered
<1>9. TasksOK(r, rt)
  <2> SUFFICES ASSUME NEW u \in Task
               PROVE  /\ Has(r, u, 0) <=> r.state[u] = "PENDING" /\ rt # u
                      /\ rt = u => r.state[u] = "PENDING"
                      /\ rt = u \/ r.state[u] # "PENDING" => r.fut_waiter[u] = None
    BY DEF TasksOK
  <2>1. u # g /\ u \in Awaitable
    BY AwaitableFacts
  <2>2. Has(r, u, 0) <=> Has(h, u, 0)
    BY <1>8, <2>1
  <2>3. r.state[u] = h.state[u] /\ r.fut_waiter = h.fut_waiter
    BY <1>1, <1>7, <2>1
  <2> QED
    BY <2>2, <2>3 DEF HeapInv, TasksOK
<1>10. \A x \in Awaitable : Good(h, x) => Good(r, x)
  BY <1>1, <1>7 DEF Good
<1>11. ASSUME NEW e \in Gathering, e # g PROVE GatherOK(r, gt, e)
  <2>1. GatherOK(h, gt, e)
    BY <1>2, <1>11 DEF HeapInv, GathersOK, GatherOK, Reported
  <2>2. \A k : Has(r, e, k) <=> Has(h, e, k)
    BY <1>8, <1>11
  <2>3. r.state[e] = h.state[e] /\ r.failed[e] = h.failed[e]
    BY <1>1, <1>7, <1>11, AwaitableFacts
  <2> QED
    BY <1>2, <1>10, <2>1, <2>2, <2>3, GatherKeeps
<1>12. GatherOK(r, gt, g)
  <2>1. Reported(r, gt, g) = {}
    BY <1>2, <1>8 DEF Reported
  <2>2. Cardinality({}) = 0
    BY FS_EmptySet
  <2>3. r.state[g] = "PENDING"
    BY <1>0, <1>1, <1>7
  <2> QED
    BY <1>2, <1>3, <2>1, <2>2, <2>3 DEF GatherOK, Good
<1>13. HeapInv(r, gt, rt)
  BY <1>7, <1>9, <1>11, <1>12 DEF HeapInv, GathersOK
<1>14. QueueGrows(h, r)
  BY <1>1, <1>7 DEF QueueGrows
<1>15. \A x \in Awaitable : Settled(h, x) => Settled(r, x)
  BY <1>1, <1>7 DEF Settled
<1>16. \A e \in Gathering : e # g => r.state[e] = h.state[e]
  BY <1>1, <1>7, AwaitableFacts
<1> QED
  BY <1>1, <1>2, <1>3, <1>7, <1>13, <1>14, <1>15, <1>16 DEF r, b, GatherMade

-----------------------------------------------------------------------------
(* _GatheringFuture._done *)

\* The gather is done already.
LEMMA DoneLate ==
    ASSUME NEW h, NEW gs, gs \in GathersType, NEW rt, HeapInv(h, gs, rt),
           NEW r, NEW g, NEW k, NEW c, TakesReport(h, r, g, k, c), h.state[g] # "PENDING"
    PROVE  HeapInv(r, gs, rt)
<1>0. ReportTaken(h, gs, rt, r, g, k, c)
  BY PopReport
<1>1. /\ Body(r, gs) /\ TasksOK(r, rt) /\ g \in Gathering
      /\ \A e \in Gathering : e # g => GatherOK(r, gs, e)
  BY <1>0 DEF ReportTaken
<1>2. GatherOK(h, gs, g) /\ Keeps(h, r)
  BY <1>1 DEF HeapInv, GathersOK, TakesReport
<1>3. GatherOK(r, gs, g)
  BY <1>1, <1>2, LateReport
<1> QED
  BY <1>1, <1>3 DEF HeapInv, GathersOK

\* A child that was cancelled or failed ends the gather.
LEMMA DoneBad ==
    ASSUME NEW h, NEW gs, gs \in GathersType, NEW rt, HeapInv(h, gs, rt),
           NEW p, NEW g, NEW k, NEW c, TakesReport(h, p, g, k, c), h.state[g] = "PENDING",
           NEW st \in {"CANCELLED", "FINISHED"}, NEW fl \in BOOLEAN,
           st = "CANCELLED" \/ fl
    PROVE  HeapInv(Resolve(p, g, st, fl), gs, rt) /\ Onward(p, Resolve(p, g, st, fl))
           /\ Resolve(p, g, st, fl).must_cancel = p.must_cancel
<1> DEFINE r == Resolve(p, g, st, fl)
<1>0. ReportTaken(h, gs, rt, p, g, k, c)
  BY PopReport
<1>1. /\ Body(p, gs) /\ TasksOK(p, rt) /\ g \in Gathering
      /\ \A e \in Gathering : e # g => GatherOK(p, gs, e)
  BY <1>0 DEF ReportTaken
<1>2. g \in Awaitable /\ g \notin Task /\ p.state[g] = "PENDING"
  BY <1>1, AwaitableFacts DEF Keeps, TakesReport
<1>3. /\ Body(r, gs) /\ Onward(p, r) /\ TasksOK(r, rt)
      /\ \A e \in Gathering : e # g /\ GatherOK(p, gs, e) => GatherOK(r, gs, e)
      /\ r.state[g] = st /\ r.failed[g] = fl /\ r.must_cancel = p.must_cancel
  BY <1>1, <1>2, ResolveKeeps
<1> HIDE DEF r
<1>4. GatherOK(r, gs, g)
  BY <1>3 DEF GatherOK, Good
<1>5. HeapInv(r, gs, rt)
  BY <1>1, <1>3, <1>4 DEF HeapInv, GathersOK
<1> QED
  BY <1>3, <1>5 DEF r

\* gt is gs with one report more of g counted
Counts(gs, gt, g) ==
    /\ gt \in GathersType
    /\ \A e \in Gathering : e # g => gt[e] = gs[e]
    /\ gt[g].children = gs[g].children
    /\ gt[g].nfinished = gs[g].nfinished + 1

\* The record of the gathers with one report more.
LEMMA CountIs ==
    ASSUME NEW gs, gs \in GathersType, NEW g \in Gathering
    PROVE  Counts(gs, [gs EXCEPT ![g].nfinished = gs[g].nfinished + 1], g)
<1> DEFINE n == gs[g].nfinished + 1
           w == [gs[g] EXCEPT !.nfinished = n]
           gt == [gs EXCEPT ![g].nfinished = n]
<1>1. gs[g] \in [children : Seq(Awaitable), nfinished : Nat] /\ n \in Nat
  BY DEF GathersType
<1> HIDE DEF n
<1>2. /\ w \in [children : Seq(Awaitable), nfinished : Nat]
      /\ w.children = gs[g].children /\ w.nfinished = n
  BY <1>1
<1>3. gt = [gs EXCEPT ![g] = w]
  BY DEF GathersType
<1> HIDE DEF w, gt
<1>4. gt \in GathersType /\ gt[g] = w /\ \A e \in Gathering : e # g => gt[e] = gs[e]
  BY <1>2, <1>3 DEF GathersType
<1>5. Counts(gs, gt, g)
  BY <1>2, <1>4 DEF Counts, n
<1> QED
  BY <1>5 DEF gt, n

\* A child that has a result is counted.
LEMMA DoneGood ==
    ASSUME NEW h, NEW gs, gs \in GathersType, NEW rt, HeapInv(h, gs, rt),
           NEW p, NEW g, NEW k, NEW c, TakesReport(h, p, g, k, c), h.state[g] = "PENDING",
           Good(h, c), NEW gt, Counts(gs, gt, g), NEW fl \in BOOLEAN, ~ fl
    PROVE  /\ HeapInv(p, gt, rt)
           /\ gs[g].nfinished + 1 = Len(gs[g].children) =>
                 /\ HeapInv(Resolve(p, g, "FINISHED", fl), gt, rt)
                 /\ Onward(p, Resolve(p, g, "FINISHED", fl))
                 /\ Resolve(p, g, "FINISHED", fl).must_cancel = p.must_cancel
                 /\ Resolve(p, g, "FINISHED", fl).state[g] = "FINISHED"
<1>0. ReportTaken(h, gs, rt, p, g, k, c)
  BY PopReport
<1>1. /\ Body(p, gs) /\ TasksOK(p, rt) /\ g \in Gathering
      /\ \A e \in Gathering : e # g => GatherOK(p, gs, e)
      /\ Reported(p, gs, g) = Reported(h, gs, g) \cup {k}
      /\ k \notin Reported(h, gs, g) /\ k \in 1 .. Len(gs[g].children)
      /\ c = gs[g].children[k] /\ c \in Awaitable
  BY <1>0 DEF ReportTaken
<1>2. /\ gt \in GathersType
      /\ \A e \in Gathering : e # g => gt[e] = gs[e]
      /\ gt[g].children = gs[g].children
      /\ gt[g].nfinished = gs[g].nfinished + 1
  BY DEF Counts
<1>3. Good(h, gs[g].children[k]) /\ GatherOK(h, gs, g) /\ Keeps(h, p)
  BY <1>1 DEF HeapInv, GathersOK, TakesReport
<1>4. /\ Cardinality(Reported(p, gs, g)) = gs[g].nfinished + 1
      /\ \A i \in Reported(p, gs, g) : Good(p, gs[g].children[i])
      /\ gs[g].nfinished + 1 = Len(gs[g].children) =>
            \A i \in 1 .. Len(gs[g].children) : Good(p, gs[g].children[i])
  BY <1>1, <1>3, CountedReport
<1>5. Body(p, gt)
  <2>1. \A e \in Gathering : gt[e].children = gs[e].children
    BY <1>2
  <2> QED
    BY <1>1, <2>1, ChildrenBody
<1>6. \A e \in Gathering : e # g => GatherOK(p, gt, e)
  BY <1>1, <1>2 DEF GatherOK, Reported
<1>7. Reported(p, gt, g) = Reported(p, gs, g)
  BY <1>1, <1>2 DEF Reported
<1>8. p.state[g] = "PENDING" /\ g \in Awaitable /\ g \notin Task
  BY <1>1, <1>3, AwaitableFacts DEF Keeps
<1>9. GatherOK(p, gt, g)
  <2>1. ~ Good(p, g) /\ p.state[g] # "UNBORN"
    BY <1>8 DEF Good
  <2>2. gt[g].nfinished = Cardinality(Reported(p, gt, g))
    BY <1>2, <1>4, <1>7
  <2>3. \A i \in Reported(p, gt, g) : Good(p, gt[g].children[i])
    BY <1>2, <1>4, <1>7
  <2> QED
    BY <2>1, <2>2, <2>3 DEF GatherOK
<1>10. HeapInv(p, gt, rt)
  BY <1>1, <1>5, <1>6, <1>9 DEF HeapInv, GathersOK
<1>11. ASSUME gs[g].nfinished + 1 = Len(gs[g].children)
       PROVE  /\ HeapInv(Resolve(p, g, "FINISHED", fl), gt, rt)
              /\ Onward(p, Resolve(p, g, "FINISHED", fl))
              /\ Resolve(p, g, "FINISHED", fl).must_cancel = p.must_cancel
              /\ Resolve(p, g, "FINISHED", fl).state[g] = "FINISHED"
  <2> DEFINE st == "FINISHED"
             r == Resolve(p, g, st, fl)
  <2>0. st \in {"CANCELLED", "FINISHED"} /\ fl \in BOOLEAN /\ st = "FINISHED"
    OBVIOUS
  <2> HIDE DEF st
  <2>1. /\ Body(r, gt) /\ Onward(p, r) /\ TasksOK(r, rt)
        /\ \A e \in Gathering : e # g /\ GatherOK(p, gt, e) => GatherOK(r, gt, e)
        /\ \A x \in Awaitable : Good(p, x) => Good(r, x)
        /\ r.state[g] = st /\ r.failed[g] = fl /\ r.must_cancel = p.must_cancel
    BY <1>1, <1>2, <1>5, <1>8, <2>0, ResolveKeeps
  <2> HIDE DEF r
  <2>2. GatherOK(r, gt, g)
    <3>1. \A i \in 1 .. Len(gt[g].children) : Good(r, gt[g].children[i])
      <4>1. gs[g].children \in Seq(Awaitable)
        BY <1>1 DEF GathersType
      <4>2. \A i \in 1 .. Len(gs[g].children) : gs[g].children[i] \in Awaitable
        BY <4>1
      <4> QED
        BY <1>1, <1>2, <1>4, <1>11, <2>1, <4>2
    <3> QED
      BY <2>0, <2>1, <3>1 DEF GatherOK
  <2>3. HeapInv(r, gt, rt)
    BY <1>6, <2>1, <2>2 DEF HeapInv, GathersOK
  <2> QED
    BY <2>0, <2>1, <2>3 DEF r, st
<1> QED
  BY <1>1, <1>2, <1>10, <1>11

-----------------------------------------------------------------------------
(* The inductive invariant *)

Timer == [when : 0 .. MaxTime, handle : Handle]

\* what a handle may be that waits for a deadline
TimerOK(x) ==
    /\ x.call \in {"set_result", "timeout"}
    /\ x.call = "set_result" => x.of \in Future
    /\ x.call = "timeout" => x.of \in Task /\ x.arg \in Awaitable
    /\ x.cancelled => x.call = "timeout"

Sorted(q) == \A i, j \in 1 .. Len(q) : i <= j => q[i].when <= q[j].when

\* the timers are sorted, and those that are due have been taken
TimersOK(q, time) ==
    /\ q \in Seq(Timer)
    /\ \A i \in 1 .. Len(q) : q[i].when > time /\ TimerOK(q[i].handle)
    /\ Sorted(q)

\* a pending gather waits for a report
PendingOK(h, gs) ==
    \A g \in Gathering : h.state[g] = "PENDING" => gs[g].nfinished < Len(gs[g].children)

CoroOK(co) == co \in [Task -> [started : BOOLEAN, wait_for : {"no", "armed", "timed_out"}]]

RunningOK(rn) ==
    /\ rn \in [task : Task \cup {None}, thrown : {"none", "cancelled", "error", "timeout"}]
    /\ rn = Idle \/ rn.task \in Task

\* a live timeout of t
Live(x, t) == x.call = "timeout" /\ x.of = t /\ ~ x.cancelled

\* only a task inside wait_for has a live timeout
QueueDisarmed(h, co) ==
    \A t \in Task : co[t].wait_for = "no" =>
        \A i \in 1 .. Len(h.ready) : ~ Live(h.ready[i], t)

TimersDisarmed(q, co) ==
    \A t \in Task : co[t].wait_for = "no" =>
        \A i \in 1 .. Len(q) : ~ Live(q[i].handle, t)

\* the loop is left when the root task is done, or nothing is left to run
TurnOK(h, rn, q, td, sg, sd) ==
    /\ td \in 0 .. Len(h.ready)
    /\ sg \in BOOLEAN /\ sd \in BOOLEAN
    /\ sg => Settled(h, Main)
    /\ sd => /\ rn = Idle /\ td = 0
             /\ Settled(h, Main) \/ (h.ready = <<>> /\ q = <<>>)

IInv ==
    /\ gathers \in GathersType
    /\ HeapInv(heap, gathers, running.task)
    /\ PendingOK(heap, gathers)
    /\ CoroOK(coro)
    /\ RunningOK(running)
    /\ TimersOK(scheduled, now)
    /\ QueueDisarmed(heap, coro)
    /\ TimersDisarmed(scheduled, coro)
    /\ TurnOK(heap, running, scheduled, todo, stopping, stopped)
    /\ now \in 0 .. MaxTime

\* The invariant gives the types.
LEMMA InvType == IInv => TypeOK
<1> SUFFICES ASSUME IInv PROVE TypeOK
  OBVIOUS
<1>1. heap \in Heap /\ gathers \in [Gathering -> [children : Seq(Awaitable), nfinished : Nat]]
  BY DEF IInv, HeapInv, Body, GathersType
<1>2. coro \in [Task -> [started : BOOLEAN, wait_for : {"no", "armed", "timed_out"}]]
  BY DEF IInv, CoroOK
<1>3. running \in [task : Task \cup {None},
                   thrown : {"none", "cancelled", "error", "timeout"}]
  BY DEF IInv, RunningOK
<1>4. scheduled \in Seq([when : 0 .. MaxTime, handle : Handle])
  BY DEF IInv, TimersOK, Timer
<1>5. todo \in 0 .. Len(heap.ready) /\ now \in 0 .. MaxTime
      /\ stopping \in BOOLEAN /\ stopped \in BOOLEAN
  BY DEF IInv, TurnOK
<1> QED
  BY <1>1, <1>2, <1>3, <1>4, <1>5 DEF TypeOK

\* A wake-up left with f is the one _step_run registers.
LEMMA LeftWakeup ==
    ASSUME NEW h, NEW gs, Body(h, gs), NEW t \in Task, NEW f \in Awaitable,
           NEW j \in 1 .. Len(h.callbacks[f]), IsToken(h.callbacks[f][j], t, 0)
    PROVE  h.callbacks[f][j] = WakeupOf(t) /\ h.fut_waiter[t] = f /\ h.state[f] = "PENDING"
<1> DEFINE c == h.callbacks[f][j]
<1>1. c \in Callback
  <2>1. h.callbacks[f] \in Seq(Callback)
    BY HeapFields DEF Body
  <2> QED
    BY <2>1
<1>2. CallbackOK(h, gs, f, c) /\ IsToken(c, t, 0)
  BY DEF Body, CallbacksOK
<1> HIDE DEF c
<1>3. c.call = "wakeup" /\ c.of = t /\ c.index = 0
  BY <1>1, <1>2, AwaitableFacts DEF CallbackOK, IsToken, Tokens, Callback
<1>4. c = WakeupOf(t)
  BY <1>1, <1>3 DEF Callback, WakeupOf
<1> QED
  BY <1>2, <1>3, <1>4 DEF CallbackOK, c

\* A wake-up is the token of its task.
LEMMA WakeupIsToken ==
    ASSUME NEW t
    PROVE  IsToken(WakeupOf(t), t, 0)
BY DEF WakeupOf, IsToken, Tokens

\* A queued step or wake-up is the token of its task.
LEMMA QueuedResumption ==
    ASSUME NEW h, NEW gs, Body(h, gs), NEW t \in Task, NEW i \in 1 .. Len(h.ready)
    PROVE  IsToken(h.ready[i], t, 0) <=>
              h.ready[i].call \in {"step", "wakeup"} /\ h.ready[i].of = t
<1>1. HandleOK(h, gs, h.ready[i])
  BY DEF Body, HandlesOK
<1> QED
  BY <1>1, AwaitableFacts DEF HandleOK, IsToken, Tokens

\* The invariant gives WaiterWillWake.
LEMMA InvWake == IInv => WaiterWillWake
<1> SUFFICES ASSUME IInv, NEW t \in Task, NEW f, f = heap.fut_waiter[t], f # None
             PROVE  \/ ~ Done(heap, f) /\ WakeupOf(t) \in Range(heap.callbacks[f])
                    \/ Done(heap, f)
                       /\ \E i \in DOMAIN heap.ready :
                              /\ heap.ready[i].call = "wakeup"
                              /\ heap.ready[i].of = t /\ heap.ready[i].arg = f
  BY DEF WaiterWillWake
<1>0. heap \in Heap /\ Body(heap, gathers) /\ TasksOK(heap, running.task)
  BY DEF IInv, HeapInv, Body
<1>1. Has(heap, t, 0)
  BY <1>0 DEF TasksOK
<1>2. ASSUME Queued(heap, t, 0)
      PROVE  Done(heap, f) /\ \E i \in DOMAIN heap.ready :
                 /\ heap.ready[i].call = "wakeup"
                 /\ heap.ready[i].of = t /\ heap.ready[i].arg = f
  <2> PICK i \in 1 .. Len(heap.ready) : IsToken(heap.ready[i], t, 0)
    BY <1>2 DEF Queued
  <2>1. heap.ready[i].call \in {"step", "wakeup"} /\ heap.ready[i].of = t
    BY <1>0, QueuedResumption
  <2>2. HandleOK(heap, gathers, heap.ready[i])
    BY <1>0 DEF Body, HandlesOK
  <2>3. heap.ready[i].call = "wakeup" /\ heap.ready[i].arg = f /\ Settled(heap, f)
    BY <2>1, <2>2 DEF HandleOK
  <2>4. i \in DOMAIN heap.ready
    <3>1. heap.ready \in Seq(Handle)
      BY <1>0, HeapFields
    <3> QED
      BY <3>1
  <2> QED
    BY <2>1, <2>3, <2>4 DEF Done, Settled
<1>3. ASSUME Left(heap, t, 0)
      PROVE  ~ Done(heap, f) /\ WakeupOf(t) \in Range(heap.callbacks[f])
  <2> PICK e \in Awaitable : \E j \in 1 .. Len(heap.callbacks[e]) :
                                 IsToken(heap.callbacks[e][j], t, 0)
    BY <1>3 DEF Left
  <2> PICK j \in 1 .. Len(heap.callbacks[e]) : IsToken(heap.callbacks[e][j], t, 0)
    OBVIOUS
  <2>1. heap.callbacks[e][j] = WakeupOf(t) /\ heap.fut_waiter[t] = e /\ heap.state[e] = "PENDING"
    BY <1>0, LeftWakeup
  <2>2. heap.callbacks[e] \in Seq(Callback)
    BY <1>0, HeapFields
  <2>3. j \in DOMAIN heap.callbacks[e]
    BY <2>2
  <2>4. WakeupOf(t) \in Range(heap.callbacks[e])
    BY <2>1, <2>3 DEF Range
  <2> QED
    BY <2>1, <2>4 DEF Done
<1> QED
  BY <1>1, <1>2, <1>3 DEF Has

\* The invariant gives TimeoutDisarmed.
LEMMA InvDisarmed == IInv => TimeoutDisarmed
<1> SUFFICES ASSUME IInv, NEW t \in Task, coro[t].wait_for = "no"
             PROVE  /\ \A i \in DOMAIN heap.ready :
                          heap.ready[i].call = "timeout" /\ heap.ready[i].of = t =>
                              heap.ready[i].cancelled
                    /\ \A i \in DOMAIN scheduled :
                          scheduled[i].handle.call = "timeout" /\ scheduled[i].handle.of = t =>
                              scheduled[i].handle.cancelled
  BY DEF TimeoutDisarmed
<1>1. heap.ready \in Seq(Handle) /\ scheduled \in Seq(Timer)
  BY HeapFields DEF IInv, HeapInv, Body, TimersOK
<1>2. DOMAIN heap.ready = 1 .. Len(heap.ready) /\ DOMAIN scheduled = 1 .. Len(scheduled)
  BY <1>1
<1> QED
  BY <1>2 DEF IInv, QueueDisarmed, TimersDisarmed, Live

\* The invariant gives GivesUpOnlyStuck.
LEMMA InvStuck == IInv => GivesUpOnlyStuck
<1> SUFFICES ASSUME IInv, stopped, heap.state[Main] = "PENDING"
             PROVE  /\ scheduled = <<>> /\ heap.ready = <<>>
                    /\ \A t \in Task : heap.state[t] = "PENDING" =>
                          heap.fut_waiter[t] # None /\ ~ Done(heap, heap.fut_waiter[t])
  BY DEF GivesUpOnlyStuck
<1>1. running = Idle /\ scheduled = <<>> /\ heap.ready = <<>>
  BY DEF IInv, TurnOK, Settled
<1>2. Body(heap, gathers) /\ TasksOK(heap, None)
  BY <1>1 DEF IInv, HeapInv, Idle
<1>3. ASSUME NEW t \in Task, heap.state[t] = "PENDING"
      PROVE  heap.fut_waiter[t] # None /\ ~ Done(heap, heap.fut_waiter[t])
  <2>1. Has(heap, t, 0)
    BY <1>2, <1>3, AwaitableFacts DEF TasksOK
  <2>2. ~ Queued(heap, t, 0)
    BY <1>1 DEF Queued
  <2> PICK e \in Awaitable : \E j \in 1 .. Len(heap.callbacks[e]) :
                                 IsToken(heap.callbacks[e][j], t, 0)
    BY <2>1, <2>2 DEF Has, Left
  <2> PICK j \in 1 .. Len(heap.callbacks[e]) : IsToken(heap.callbacks[e][j], t, 0)
    OBVIOUS
  <2>3. heap.fut_waiter[t] = e /\ heap.state[e] = "PENDING"
    BY <1>2, LeftWakeup
  <2> QED
    BY <2>3, AwaitableFacts DEF Done
<1> QED
  BY <1>1, <1>3

\* The invariant gives GatherFaithful.
LEMMA InvGather == IInv => GatherFaithful
<1> SUFFICES ASSUME IInv, NEW g \in Gathering
             PROVE  LET children == Range(gathers[g].children)
                        reports == {i \in DOMAIN heap.ready :
                                      heap.ready[i].call = "gather_done" /\ heap.ready[i].of = g}
                    IN  /\ heap.state[g] = "FINISHED" /\ ~ heap.failed[g] =>
                             \A c \in children : heap.state[c] = "FINISHED" /\ ~ heap.failed[c]
                        /\ heap.state[g] = "PENDING" =>
                             reports # {} \/ \E c \in children : heap.state[c] = "PENDING"
  BY DEF GatherFaithful
<1> DEFINE kids == gathers[g].children
           n == Len(kids)
<1>0. heap \in Heap /\ Body(heap, gathers) /\ GatherOK(heap, gathers, g)
  BY DEF IInv, HeapInv, GathersOK, Body
<1>1. kids \in Seq(Awaitable) /\ n \in Nat
  BY DEF IInv, GathersType
<1>2. DOMAIN kids = 1 .. n
  BY <1>1
<1>3. ASSUME Good(heap, g), NEW c \in Range(kids) PROVE Good(heap, c)
  <2>1. PICK k \in 1 .. n : c = kids[k]
    BY <1>2, <1>3 DEF Range
  <2> QED
    BY <1>0, <1>3, <2>1 DEF GatherOK
<1>4. ASSUME heap.state[g] = "PENDING"
      PROVE  \/ \E i \in DOMAIN heap.ready :
                   heap.ready[i].call = "gather_done" /\ heap.ready[i].of = g
             \/ \E c \in Range(kids) : heap.state[c] = "PENDING"
  <2> DEFINE R == Reported(heap, gathers, g)
  <2>1. Cardinality(R) # n
    BY <1>0, <1>1, <1>4 DEF IInv, PendingOK, GatherOK, GathersType
  <2>2. R # 1 .. n
    <3>1. Cardinality(1 .. n) = n
      <4> HIDE DEF n
      <4>1. 1 \in Int /\ n \in Int /\ 1 <= n + 1 /\ n - 1 + 1 = n
        BY <1>1
      <4>2. Cardinality(1 .. n) = IF 1 > n THEN 0 ELSE n - 1 + 1
        BY <4>1, FS_Interval
      <4> QED
        BY <1>1, <4>1, <4>2
    <3> QED
      BY <2>1, <3>1
  <2>3. PICK k \in 1 .. n : Has(heap, g, k)
    BY <2>2 DEF Reported
  <2>4. ASSUME Queued(heap, g, k)
        PROVE  \E i \in DOMAIN heap.ready :
                   heap.ready[i].call = "gather_done" /\ heap.ready[i].of = g
    <3> PICK i \in 1 .. Len(heap.ready) : IsToken(heap.ready[i], g, k)
      BY <2>4 DEF Queued
    <3>1. HandleOK(heap, gathers, heap.ready[i])
      BY <1>0 DEF Body, HandlesOK
    <3>2. heap.ready \in Seq(Handle)
      BY <1>0, HeapFields
    <3>3. i \in DOMAIN heap.ready
      BY <3>2
    <3>4. heap.ready[i].call = "gather_done" /\ heap.ready[i].of = g
      BY <3>1, AwaitableFacts DEF HandleOK, IsToken, Tokens
    <3> QED
      BY <3>3, <3>4
  <2>5. ASSUME Left(heap, g, k)
        PROVE  \E c \in Range(kids) : heap.state[c] = "PENDING"
    <3> PICK e \in Awaitable : \E j \in 1 .. Len(heap.callbacks[e]) :
                                   IsToken(heap.callbacks[e][j], g, k)
      BY <2>5 DEF Left
    <3> PICK j \in 1 .. Len(heap.callbacks[e]) : IsToken(heap.callbacks[e][j], g, k)
      OBVIOUS
    <3>1. CallbackOK(heap, gathers, e, heap.callbacks[e][j])
      BY <1>0 DEF Body, CallbacksOK
    <3>2. heap.callbacks[e] \in Seq(Callback)
      BY <1>0, HeapFields
    <3>3. heap.callbacks[e][j] \in Callback
      BY <3>2
    <3>4. heap.callbacks[e][j].call = "gather_done" /\ heap.callbacks[e][j].of = g
          /\ heap.callbacks[e][j].index = k
      BY <3>1, <3>3, AwaitableFacts DEF CallbackOK, IsToken, Tokens, Callback
    <3>5. e = kids[k] /\ heap.state[e] = "PENDING"
      BY <3>1, <3>4 DEF CallbackOK
    <3>6. e \in Range(kids)
      BY <1>2, <2>3, <3>5 DEF Range
    <3> QED
      BY <3>5, <3>6
  <2> QED
    BY <2>3, <2>4, <2>5 DEF Has
<1> QED
  BY <1>3, <1>4 DEF Good

\* the places where the resumption of t is queued, and where it is left
QueuePlaces(h, t) ==
    {i \in DOMAIN h.ready : h.ready[i].call \in {"step", "wakeup"} /\ h.ready[i].of = t}

LeftPlaces(h, t) ==
    UNION {{<<f, i>> : i \in {j \in DOMAIN h.callbacks[f] :
                h.callbacks[f][j] = WakeupOf(t)}} : f \in Awaitable}

\* What these sets hold.
LEMMA PlacesAre ==
    ASSUME NEW h, NEW gs, Body(h, gs), NEW t \in Task
    PROVE  /\ \A i : i \in QueuePlaces(h, t) <=>
                        i \in 1 .. Len(h.ready) /\ IsToken(h.ready[i], t, 0)
           /\ \A x : x \in LeftPlaces(h, t) <=>
                        \E f \in Awaitable : \E j \in 1 .. Len(h.callbacks[f]) :
                            x = <<f, j>> /\ IsToken(h.callbacks[f][j], t, 0)
<1>0. h.ready \in Seq(Handle) /\ \A f \in Awaitable : h.callbacks[f] \in Seq(Callback)
  BY HeapFields DEF Body
<1>1. DOMAIN h.ready = 1 .. Len(h.ready)
  BY <1>0
<1>2. ASSUME NEW f \in Awaitable
      PROVE  DOMAIN h.callbacks[f] = 1 .. Len(h.callbacks[f])
  <2>1. h.callbacks[f] \in Seq(Callback)
    BY <1>0
  <2> QED
    BY <2>1
<1>3. \A i : i \in QueuePlaces(h, t) <=>
                i \in 1 .. Len(h.ready) /\ IsToken(h.ready[i], t, 0)
  BY <1>1, QueuedResumption DEF QueuePlaces
<1>4. ASSUME NEW x \in LeftPlaces(h, t)
      PROVE  \E f \in Awaitable : \E j \in 1 .. Len(h.callbacks[f]) :
                 x = <<f, j>> /\ IsToken(h.callbacks[f][j], t, 0)
  <2>1. PICK f \in Awaitable : \E j \in DOMAIN h.callbacks[f] :
                 x = <<f, j>> /\ h.callbacks[f][j] = WakeupOf(t)
    BY <1>4 DEF LeftPlaces
  <2>2. PICK j \in DOMAIN h.callbacks[f] : x = <<f, j>> /\ h.callbacks[f][j] = WakeupOf(t)
    BY <2>1
  <2> QED
    BY <1>2, <2>2, WakeupIsToken
<1>5. ASSUME NEW x, NEW f \in Awaitable, NEW j \in 1 .. Len(h.callbacks[f]),
             x = <<f, j>>, IsToken(h.callbacks[f][j], t, 0)
      PROVE  x \in LeftPlaces(h, t)
  <2>1. h.callbacks[f][j] = WakeupOf(t)
    BY <1>5, LeftWakeup
  <2> QED
    BY <1>2, <1>5, <2>1 DEF LeftPlaces
<1> QED
  BY <1>3, <1>4, <1>5

\* The token is in one place only.
LEMMA OnePlace ==
    ASSUME NEW h, NEW gs, Body(h, gs), NEW t \in Task
    PROVE  /\ Queued(h, t, 0) => (\E i : QueuePlaces(h, t) = {i}) /\ LeftPlaces(h, t) = {}
           /\ Left(h, t, 0) => (\E x : LeftPlaces(h, t) = {x}) /\ QueuePlaces(h, t) = {}
           /\ ~ Has(h, t, 0) => QueuePlaces(h, t) = {} /\ LeftPlaces(h, t) = {}
<1>0. /\ \A i : i \in QueuePlaces(h, t) <=>
                   i \in 1 .. Len(h.ready) /\ IsToken(h.ready[i], t, 0)
      /\ \A x : x \in LeftPlaces(h, t) <=>
                   \E f \in Awaitable : \E j \in 1 .. Len(h.callbacks[f]) :
                       x = <<f, j>> /\ IsToken(h.callbacks[f][j], t, 0)
  BY PlacesAre
<1>1. \A x, y : IsToken(x, t, 0) /\ IsToken(y, t, 0) => SameToken(x, y)
  BY DEF IsToken, SameToken
<1>2. ASSUME NEW i \in 1 .. Len(h.ready), IsToken(h.ready[i], t, 0),
             NEW f \in Awaitable, NEW j \in 1 .. Len(h.callbacks[f]),
             IsToken(h.callbacks[f][j], t, 0)
      PROVE  FALSE
  BY <1>1, <1>2 DEF Body, QueuedOrLeft
<1>3. ASSUME Queued(h, t, 0)
      PROVE  (\E i : QueuePlaces(h, t) = {i}) /\ LeftPlaces(h, t) = {}
  <2>1. PICK i \in 1 .. Len(h.ready) : IsToken(h.ready[i], t, 0)
    BY <1>3 DEF Queued
  <2>2. \A m \in QueuePlaces(h, t) : m = i
    BY <1>0, <1>1, <2>1 DEF Body, OnceQueued
  <2>3. QueuePlaces(h, t) = {i}
    BY <1>0, <2>1, <2>2
  <2>4. LeftPlaces(h, t) = {}
    BY <1>0, <1>2, <2>1
  <2> QED
    BY <2>3, <2>4
<1>4. ASSUME Left(h, t, 0)
      PROVE  (\E x : LeftPlaces(h, t) = {x}) /\ QueuePlaces(h, t) = {}
  <2>1. PICK f \in Awaitable : \E j \in 1 .. Len(h.callbacks[f]) :
                                   IsToken(h.callbacks[f][j], t, 0)
    BY <1>4 DEF Left
  <2>2. PICK j \in 1 .. Len(h.callbacks[f]) : IsToken(h.callbacks[f][j], t, 0)
    BY <2>1
  <2>3. ASSUME NEW x \in LeftPlaces(h, t) PROVE x = <<f, j>>
    <3>1. PICK e \in Awaitable : \E m \in 1 .. Len(h.callbacks[e]) :
                 x = <<e, m>> /\ IsToken(h.callbacks[e][m], t, 0)
      BY <1>0, <2>3
    <3>2. PICK m \in 1 .. Len(h.callbacks[e]) :
                 x = <<e, m>> /\ IsToken(h.callbacks[e][m], t, 0)
      BY <3>1
    <3>3. e = f /\ m = j
      BY <1>1, <2>2, <3>2 DEF Body, OnceLeft
    <3> QED
      BY <3>2, <3>3
  <2>4. <<f, j>> \in LeftPlaces(h, t)
    BY <1>0, <2>2
  <2>5. LeftPlaces(h, t) = {<<f, j>>}
    BY <2>3, <2>4
  <2>6. QueuePlaces(h, t) = {}
    BY <1>0, <1>2, <2>2
  <2> QED
    BY <2>5, <2>6
<1>5. ASSUME ~ Has(h, t, 0)
      PROVE  QueuePlaces(h, t) = {} /\ LeftPlaces(h, t) = {}
  <2>1. \A i : i \notin QueuePlaces(h, t)
    BY <1>0, <1>5 DEF Has, Queued
  <2>2. \A x : x \notin LeftPlaces(h, t)
    BY <1>0, <1>5 DEF Has, Left
  <2> QED
    BY <2>1, <2>2
<1> QED
  BY <1>3, <1>4, <1>5

\* The invariant gives OneResumption.
LEMMA InvOne == IInv => OneResumption
<1> SUFFICES ASSUME IInv, NEW t \in Task
             PROVE  Resumptions(t) = IF heap.state[t] = "PENDING" THEN 1 ELSE 0
  BY DEF OneResumption
<1> DEFINE A == QueuePlaces(heap, t)
           B == LeftPlaces(heap, t)
           r == IF running.task = t THEN 1 ELSE 0
<1>0. Body(heap, gathers) /\ TasksOK(heap, running.task)
  BY DEF IInv, HeapInv
<1>1. Resumptions(t) = Cardinality(A) + Cardinality(B) + r
  BY DEF Resumptions, QueuePlaces, LeftPlaces
<1>2. /\ Has(heap, t, 0) <=> heap.state[t] = "PENDING" /\ running.task # t
      /\ running.task = t => heap.state[t] = "PENDING"
  BY <1>0 DEF TasksOK
<1>3. /\ Queued(heap, t, 0) => (\E i : A = {i}) /\ B = {}
      /\ Left(heap, t, 0) => (\E x : B = {x}) /\ A = {}
      /\ ~ Has(heap, t, 0) => A = {} /\ B = {}
  BY <1>0, OnePlace
<1> HIDE DEF A, B
<1>4. Cardinality({}) = 0 /\ \A x : Cardinality({x}) = 1
  BY FS_EmptySet, FS_Singleton
<1>5. Has(heap, t, 0) => Cardinality(A) + Cardinality(B) = 1
  <2>1. Queued(heap, t, 0) => Cardinality(A) = 1 /\ Cardinality(B) = 0
    BY <1>3, <1>4
  <2>2. Left(heap, t, 0) => Cardinality(B) = 1 /\ Cardinality(A) = 0
    BY <1>3, <1>4
  <2> QED
    BY <2>1, <2>2 DEF Has
<1>6. ~ Has(heap, t, 0) => Cardinality(A) + Cardinality(B) = 0
  BY <1>3, <1>4
<1> QED
  BY <1>1, <1>2, <1>5, <1>6

-----------------------------------------------------------------------------
(* The invariant holds when run_until_complete starts *)

\* The root task is queued and _stop_on_done is left with it.
LEMMA InitInv == Init => IInv
<1> SUFFICES ASSUME Init PROVE IInv
  OBVIOUS
<1> DEFINE stop == [call |-> "stop", of |-> Main, index |-> 0]
           x == NewHandle("step", Main, 0, None)
<1>1. /\ heap.state = [f \in Awaitable |-> IF f = Main THEN "PENDING" ELSE "UNBORN"]
      /\ heap.failed = [f \in Awaitable |-> FALSE]
      /\ heap.callbacks = [f \in Awaitable |-> IF f = Main THEN <<stop>> ELSE <<>>]
      /\ heap.fut_waiter = [t \in Task |-> None]
      /\ heap.must_cancel = [t \in Task |-> FALSE]
      /\ heap.hidden = {}
      /\ heap.ready = <<x>>
  BY DEF Init
<1>2. /\ x \in Handle /\ x.call = "step" /\ x.of = Main /\ x.index = 0
      /\ x.call \in Tokens /\ ~ x.cancelled
  BY StepHandle, AwaitableFacts
<1>3. stop \in Callback /\ stop.call = "stop" /\ stop.call \notin Tokens
  BY AwaitableFacts DEF Callback, Tokens
<1>4. heap = [state |-> heap.state, failed |-> heap.failed, callbacks |-> heap.callbacks,
              fut_waiter |-> heap.fut_waiter, must_cancel |-> heap.must_cancel,
              hidden |-> heap.hidden, ready |-> heap.ready]
  <2> HIDE DEF x, stop
  <2> QED
    BY DEF Init
<1> HIDE DEF stop, x
<1>5. heap \in Heap
  <2>1. heap.state \in [Awaitable -> {"UNBORN", "PENDING", "CANCELLED", "FINISHED"}]
    BY <1>1
  <2>2. heap.failed \in [Awaitable -> BOOLEAN] /\ heap.must_cancel \in [Task -> BOOLEAN]
    BY <1>1
  <2>3. heap.callbacks \in [Awaitable -> Seq(Callback)]
    <3>1. <<stop>> \in Seq(Callback) /\ <<>> \in Seq(Callback)
      BY <1>3
    <3> QED
      BY <1>1, <3>1
  <2>4. heap.fut_waiter \in [Task -> Awaitable \cup {None}] /\ heap.hidden \in SUBSET Future
    BY <1>1
  <2>5. heap.ready \in Seq(Handle)
    BY <1>1, <1>2
  <2> DEFINE a == heap.state
             b == heap.failed
             c == heap.callbacks
             d == heap.fut_waiter
             e == heap.must_cancel
             f == heap.hidden
             g == heap.ready
  <2> HIDE DEF a, b, c, d, e, f, g
  <2>6. heap = [state |-> a, failed |-> b, callbacks |-> c, fut_waiter |-> d,
                must_cancel |-> e, hidden |-> f, ready |-> g]
    BY <1>4 DEF a, b, c, d, e, f, g
  <2>7. [state |-> a, failed |-> b, callbacks |-> c, fut_waiter |-> d,
         must_cancel |-> e, hidden |-> f, ready |-> g] \in Heap
    BY <2>1, <2>2, <2>3, <2>4, <2>5 DEF Heap, a, b, c, d, e, f, g
  <2> QED
    BY <2>6, <2>7
<1>6. Len(heap.ready) = 1 /\ heap.ready[1] = x /\ \A i \in 1 .. Len(heap.ready) : i = 1
  BY <1>1
<1>7. \A f \in Awaitable : \A j \in 1 .. Len(heap.callbacks[f]) :
         f = Main /\ j = 1 /\ heap.callbacks[f][j] = stop
  <2> SUFFICES ASSUME NEW f \in Awaitable, NEW j \in 1 .. Len(heap.callbacks[f])
               PROVE  f = Main /\ j = 1 /\ heap.callbacks[f][j] = stop
    OBVIOUS
  <2>1. CASE f = Main
    <3>1. heap.callbacks[f] = <<stop>>
      BY <1>1, <2>1
    <3> QED
      BY <2>1, <3>1
  <2>2. CASE f # Main
    <3>1. heap.callbacks[f] = <<>>
      BY <1>1, <2>2
    <3> QED
      BY <3>1
  <2> QED
    BY <2>1, <2>2
<1>8. gathers \in GathersType /\ \A g \in Gathering : gathers[g].nfinished = 0
  BY DEF Init, GathersType
<1>9. /\ \A f \in Awaitable : heap.state[f] = IF f = Main THEN "PENDING" ELSE "UNBORN"
      /\ \A t \in Task : heap.fut_waiter[t] = None
  BY <1>1
<1>10. Body(heap, gathers)
  <2>1. HandlesOK(heap, gathers)
    BY <1>2, <1>6, <1>9, AwaitableFacts DEF HandlesOK, HandleOK
  <2>2. CallbacksOK(heap, gathers)
    <3> SUFFICES ASSUME NEW f \in Awaitable, NEW j \in 1 .. Len(heap.callbacks[f])
                 PROVE  CallbackOK(heap, gathers, f, heap.callbacks[f][j])
      BY DEF CallbacksOK
    <3>1. f = Main /\ heap.callbacks[f][j] = stop
      BY <1>7
    <3> QED
      BY <1>3, <1>9, <3>1 DEF CallbackOK
  <2>3. OnceQueued(heap)
    BY <1>6 DEF OnceQueued
  <2>4. OnceLeft(heap)
    BY <1>7 DEF OnceLeft
  <2>5. QueuedOrLeft(heap)
    BY <1>3, <1>7 DEF QueuedOrLeft, SameToken, IsToken
  <2> QED
    BY <1>5, <2>1, <2>2, <2>3, <2>4, <2>5 DEF Body
<1>11. \A o, k : Has(heap, o, k) <=> o = Main /\ k = 0
  <2>1. \A o, k : Queued(heap, o, k) <=> o = Main /\ k = 0
    BY <1>2, <1>6 DEF Queued, IsToken
  <2>2. \A o, k : ~ Left(heap, o, k)
    BY <1>3, <1>7 DEF Left, IsToken
  <2> QED
    BY <2>1, <2>2 DEF Has
<1>12. TasksOK(heap, None)
  BY <1>9, <1>11, AwaitableFacts DEF TasksOK
<1>13. GathersOK(heap, gathers) /\ PendingOK(heap, gathers)
  BY <1>8, <1>9, AwaitableFacts DEF GathersOK, GatherOK, Good, PendingOK
<1>14. running = Idle /\ Idle.task = None /\ RunningOK(running)
  BY DEF Init, Idle, RunningOK
<1>15. HeapInv(heap, gathers, running.task)
  BY <1>10, <1>12, <1>13, <1>14 DEF HeapInv
<1>16. CoroOK(coro)
  BY DEF Init, CoroOK
<1>17. scheduled = <<>> /\ todo = 0 /\ now = 0 /\ stopping = FALSE /\ stopped = FALSE
  BY DEF Init
<1>18. TimersOK(scheduled, now) /\ TimersDisarmed(scheduled, coro)
  BY <1>17 DEF TimersOK, TimersDisarmed, Sorted
<1>19. QueueDisarmed(heap, coro)
  BY <1>2, <1>6 DEF QueueDisarmed, Live
<1>20. TurnOK(heap, running, scheduled, todo, stopping, stopped)
  <2>1. todo \in 0 .. Len(heap.ready)
    BY <1>6, <1>17
  <2>2. ~ stopping /\ ~ stopped /\ stopping \in BOOLEAN /\ stopped \in BOOLEAN
    BY <1>17
  <2> QED
    BY <2>1, <2>2, Zenon DEF TurnOK
<1>21. now \in 0 .. MaxTime
  BY <1>17, LoopAssumption
<1> QED
  BY <1>8, <1>13, <1>14, <1>15, <1>16, <1>18, <1>19, <1>20, <1>21 DEF IInv

-----------------------------------------------------------------------------
(* What a step must do to keep the invariant *)

\* An operation leaves the deadlines, and the gathers, in order.
LEMMA OnwardKeeps ==
    ASSUME NEW h \in Heap, NEW r \in Heap, Onward(h, r)
    PROVE  /\ \A gs : PendingOK(h, gs) => PendingOK(r, gs)
           /\ \A co : QueueDisarmed(h, co) => QueueDisarmed(r, co)
           /\ Settled(h, Main) => Settled(r, Main)
           /\ \A n : n \in 0 .. Len(h.ready) => n \in 0 .. Len(r.ready)
<1>1. Len(h.ready) \in Nat /\ Len(r.ready) \in Nat
  BY HeapLens
<1>2. \A gs : PendingOK(h, gs) => PendingOK(r, gs)
  BY DEF Onward, PendingOK
<1>3. ASSUME NEW i \in 1 .. Len(r.ready), NEW t, Live(r.ready[i], t)
      PROVE  i \in 1 .. Len(h.ready) /\ r.ready[i] = h.ready[i]
  <2>1. i <= Len(h.ready)
    BY <1>1, <1>3 DEF Onward, QueueGrows, Live
  <2> QED
    BY <1>1, <2>1 DEF Onward, QueueGrows
<1>4. \A co : QueueDisarmed(h, co) => QueueDisarmed(r, co)
  BY <1>3 DEF QueueDisarmed
<1>5. Settled(h, Main) => Settled(r, Main)
  BY AwaitableFacts DEF Onward
<1>6. \A n : n \in 0 .. Len(h.ready) => n \in 0 .. Len(r.ready)
  BY <1>1 DEF Onward, QueueGrows
<1> QED
  BY <1>2, <1>4, <1>5, <1>6

\* A call of the running coroutine.
LEMMA CallStep ==
    ASSUME IInv, Calls, UNCHANGED <<gathers, coro, scheduled>>,
           HeapInv(heap', gathers, running.task), Onward(heap, heap')
    PROVE  IInv'
<1>1. heap \in Heap /\ heap' \in Heap
  BY DEF IInv, HeapInv, Body
<1>2. /\ PendingOK(heap', gathers) /\ QueueDisarmed(heap', coro)
      /\ Settled(heap, Main) => Settled(heap', Main)
      /\ todo \in 0 .. Len(heap'.ready)
  BY <1>1, OnwardKeeps DEF IInv, TurnOK
<1>3. UNCHANGED <<running, todo, now, stopping, stopped>> /\ running # Idle
  BY DEF Calls
<1>4. TurnOK(heap', running, scheduled, todo, stopping, stopped)
  BY <1>2, <1>3 DEF IInv, TurnOK
<1> QED
  BY <1>2, <1>3, <1>4 DEF IInv

\* The end of a step of the running coroutine.
LEMMA EndStep ==
    ASSUME IInv, Ends, HeapInv(heap', gathers, None), Onward(heap, heap'),
           CoroOK(coro'), TimersOK(scheduled', now),
           QueueDisarmed(heap', coro'), TimersDisarmed(scheduled', coro')
    PROVE  IInv'
<1>1. heap \in Heap /\ heap' \in Heap
  BY DEF IInv, HeapInv, Body
<1>2. /\ PendingOK(heap', gathers)
      /\ Settled(heap, Main) => Settled(heap', Main)
      /\ todo \in 0 .. Len(heap'.ready)
  BY <1>1, OnwardKeeps DEF IInv, TurnOK
<1>3. UNCHANGED <<gathers, todo, now, stopping, stopped>> /\ running # Idle /\ running' = Idle
  BY DEF Ends
<1>4. TurnOK(heap', Idle, scheduled', todo, stopping, stopped)
  BY <1>2, <1>3 DEF IInv, TurnOK
<1>5. RunningOK(Idle) /\ Idle.task = None
  BY DEF RunningOK, Idle
<1>6. RunningOK(running') /\ HeapInv(heap', gathers', running'.task)
  BY <1>3, <1>5
<1> QED
  BY <1>2, <1>3, <1>4, <1>6 DEF IInv

\* A handle has been popped and run.
LEMMA PopStep ==
    ASSUME IInv, running = Idle, todo > 0, todo' = todo - 1, UNCHANGED <<now, stopped>>,
           gathers' \in GathersType, HeapInv(heap', gathers', running'.task),
           PendingOK(heap', gathers'), CoroOK(coro'), RunningOK(running'),
           TimersOK(scheduled', now), QueueDisarmed(heap', coro'),
           TimersDisarmed(scheduled', coro'),
           stopping' \in BOOLEAN, stopping' => Settled(heap', Main),
           Len(heap.ready) - 1 <= Len(heap'.ready)
    PROVE  IInv'
<1>1. heap \in Heap /\ heap' \in Heap
  BY DEF IInv, HeapInv, Body
<1>2. Len(heap.ready) \in Nat /\ Len(heap'.ready) \in Nat
  BY <1>1, HeapLens
<1>3. ~ stopped /\ stopped \in BOOLEAN /\ todo \in 0 .. Len(heap.ready)
  BY DEF IInv, TurnOK
<1>4. todo' \in 0 .. Len(heap'.ready)
  BY <1>2, <1>3
<1>5. TurnOK(heap', running', scheduled', todo', stopping', stopped')
  BY <1>3, <1>4 DEF TurnOK
<1> QED
  BY <1>5 DEF IInv

-----------------------------------------------------------------------------
(* The two action properties, as what one step does *)

CancelStep ==
    \A t \in Task :
        heap.must_cancel[t] /\ ~ heap'.must_cancel[t] =>
            \/ running'.task = t
               /\ running'.thrown \in {"cancelled", "timeout", "error"}
            \/ Done(heap', t)
            \/ heap'.fut_waiter[t] # None /\ CancelReached(heap', heap'.fut_waiter[t])

SameCall(x, y) == x.call = y.call /\ x.of = y.of

TimerStep ==
    \A i \in 1 .. Len(scheduled) :
        IF scheduled[i].when <= now'
        THEN \E j \in 1 .. Len(heap'.ready) : SameCall(heap'.ready[j], scheduled[i].handle)
        ELSE \E j \in 1 .. Len(scheduled') :
                /\ scheduled'[j].when = scheduled[i].when
                /\ SameCall(scheduled'[j].handle, scheduled[i].handle)

\* every timer of q is in r
TimersKept(q, r) ==
    \A i \in 1 .. Len(q) : \E j \in 1 .. Len(r) :
        r[j].when = q[i].when /\ SameCall(r[j].handle, q[i].handle)

\* Timers that do not change are kept.
LEMMA TimersKeptRefl ==
    ASSUME NEW q
    PROVE  TimersKept(q, q)
BY DEF TimersKept, SameCall

\* While the clock stands still no timer is due.
LEMMA ClockStands ==
    ASSUME IInv, now' = now, TimersKept(scheduled, scheduled')
    PROVE  TimerStep
<1> SUFFICES ASSUME NEW i \in 1 .. Len(scheduled)
             PROVE  /\ ~ (scheduled[i].when <= now')
                    /\ \E j \in 1 .. Len(scheduled') :
                          /\ scheduled'[j].when = scheduled[i].when
                          /\ SameCall(scheduled'[j].handle, scheduled[i].handle)
  BY DEF TimerStep
<1>1. scheduled[i].when > now /\ scheduled[i] \in Timer /\ now \in 0 .. MaxTime
  BY DEF IInv, TimersOK
<1>2. scheduled[i].when \in Int /\ now \in Int
  BY <1>1, LoopAssumption DEF Timer
<1> QED
  BY <1>1, <1>2 DEF TimersKept

\* A request that stays recorded is not lost.
LEMMA RequestStays ==
    ASSUME \A t \in Task : heap.must_cancel[t] => heap'.must_cancel[t]
    PROVE  CancelStep
BY DEF CancelStep

\* What every step does.
StepOK == IInv' /\ CancelStep /\ TimerStep

-----------------------------------------------------------------------------
(* The calls of a coroutine *)

\* The facts about the state in which a coroutine runs.
LEMMA RunningFacts ==
    ASSUME IInv, running # Idle
    PROVE  /\ running.task \in Task /\ running.task # None /\ heap \in Heap
           /\ gathers \in GathersType
           /\ HeapInv(heap, gathers, running.task)
BY AwaitableFacts DEF IInv, RunningOK, HeapInv, Body

\* A call that does not touch gathers.
LEMMA CallOK ==
    ASSUME IInv, Calls, UNCHANGED <<gathers, coro, scheduled>>,
           HeapInv(heap', gathers, running.task), Onward(heap, heap'),
           \A t \in Task : heap.must_cancel[t] => heap'.must_cancel[t]
    PROVE  StepOK
<1>1. IInv'
  BY CallStep
<1>2. TimersKept(scheduled, scheduled') /\ now' = now
  BY TimersKeptRefl DEF Calls
<1> QED
  BY <1>1, <1>2, ClockStands, RequestStays DEF StepOK

\* Future()
LEMMA CreateFutureStep ==
    ASSUME IInv, NEW f \in Future, CreateFuture(f)
    PROVE  StepOK
<1>1. Calls /\ heap.state[f] = "UNBORN" /\ UNCHANGED <<gathers, coro, scheduled>>
  BY DEF CreateFuture, Unborn
<1>2. heap \in Heap /\ gathers \in GathersType /\ HeapInv(heap, gathers, running.task)
  BY <1>1, RunningFacts DEF Calls
<1>3. f \in Awaitable
  BY AwaitableFacts
<1> DEFINE r == [heap EXCEPT !.state[f] = "PENDING"]
<1>4. heap' = r
  BY DEF CreateFuture
<1>5. /\ r \in Heap
      /\ \A x \in Awaitable : r.state[x] = IF x = f THEN "PENDING" ELSE heap.state[x]
      /\ r.failed = heap.failed /\ r.callbacks = heap.callbacks
      /\ r.fut_waiter = heap.fut_waiter /\ r.ready = heap.ready
      /\ r.must_cancel = heap.must_cancel
  BY <1>2, <1>3, BornIs
<1> HIDE DEF r
<1>6. HeapInv(r, gathers, running.task) /\ Onward(heap, r)
  BY <1>1, <1>2, <1>5, CreateFutureInv
<1>7. \A t \in Task : heap.must_cancel[t] => heap'.must_cancel[t]
  BY <1>4, <1>5
<1> QED
  BY <1>1, <1>4, <1>6, <1>7, CallOK

\* create_task
LEMMA CreateTaskStep ==
    ASSUME IInv, NEW t \in Task, CreateTask(t)
    PROVE  StepOK
<1>1. Calls /\ heap.state[t] = "UNBORN" /\ UNCHANGED <<gathers, coro, scheduled>>
  BY DEF CreateTask, Unborn
<1>2. heap \in Heap /\ gathers \in GathersType /\ HeapInv(heap, gathers, running.task)
  BY <1>1, RunningFacts DEF Calls
<1> DEFINE r == CallSoon([heap EXCEPT !.state[t] = "PENDING"], NewHandle("step", t, 0, None))
<1>3. heap' = r
  BY DEF CreateTask
<1>4. HeapInv(r, gathers, running.task) /\ Onward(heap, r) /\ r.must_cancel = heap.must_cancel
  BY <1>1, <1>2, CreateTaskInv
<1> HIDE DEF r
<1>5. \A u \in Task : heap.must_cancel[u] => heap'.must_cancel[u]
  BY <1>3, <1>4
<1> QED
  BY <1>1, <1>3, <1>4, <1>5, CallOK

\* set_result and set_exception
LEMMA SetOutcomeStep ==
    ASSUME IInv, NEW f \in Future, NEW failed \in BOOLEAN, SetOutcome(f, failed)
    PROVE  StepOK
<1>1. Calls /\ heap.state[f] = "PENDING" /\ UNCHANGED <<gathers, coro, scheduled>>
  BY DEF SetOutcome, Done
<1>2. heap \in Heap /\ gathers \in GathersType /\ HeapInv(heap, gathers, running.task)
  BY <1>1, RunningFacts DEF Calls
<1> DEFINE st == "FINISHED"
           r == Resolve(heap, f, st, failed)
<1>3. heap' = r /\ st \in {"CANCELLED", "FINISHED"}
  BY DEF SetOutcome
<1> HIDE DEF st
<1>4. HeapInv(r, gathers, running.task) /\ Onward(heap, r) /\ r.must_cancel = heap.must_cancel
  BY <1>1, <1>2, <1>3, ResolveFutureInv
<1> HIDE DEF r
<1>5. \A u \in Task : heap.must_cancel[u] => heap'.must_cancel[u]
  BY <1>3, <1>4
<1> QED
  BY <1>1, <1>3, <1>4, <1>5, CallOK

\* f.cancel()
LEMMA CallCancelStep ==
    ASSUME IInv, NEW f \in Awaitable, CallCancel(f)
    PROVE  StepOK
<1>1. Calls /\ UNCHANGED <<gathers, coro, scheduled>>
  BY DEF CallCancel
<1>2. heap \in Heap /\ gathers \in GathersType /\ HeapInv(heap, gathers, running.task)
  BY <1>1, RunningFacts DEF Calls
<1> DEFINE r == Cancel(heap, f).heap
<1>3. heap' = r
  BY DEF CallCancel
<1>4. HeapInv(r, gathers, running.task) /\ Onward(heap, r) /\ CancelGrows(heap, r)
  BY <1>2, CancelInv
<1> HIDE DEF r
<1>5. \A u \in Task : heap.must_cancel[u] => heap'.must_cancel[u]
  BY <1>3, <1>4 DEF CancelGrows
<1> QED
  BY <1>1, <1>3, <1>4, <1>5, CallOK

\* gather()
LEMMA GatherStep ==
    ASSUME IInv, NEW g \in Gathering, NEW n \in 1 .. MaxChildren,
           NEW children \in [1 .. n -> Awaitable], Gather(g, children)
    PROVE  StepOK
<1>1. /\ Calls /\ heap.state[g] = "UNBORN" /\ UNCHANGED <<coro, scheduled>>
      /\ gathers' = [gathers EXCEPT ![g].children = children]
      /\ \A i \in DOMAIN children : heap.state[children[i]] # "UNBORN"
  BY DEF Gather, Unborn, Born
<1>2. heap \in Heap /\ gathers \in GathersType /\ HeapInv(heap, gathers, running.task)
  BY <1>1, RunningFacts DEF Calls
<1>3. children \in Seq(Awaitable) /\ Len(children) = n /\ n > 0 /\ n \in Nat
      /\ DOMAIN children = 1 .. n
  <2>1. n \in Nat /\ n > 0
    BY LoopAssumption
  <2> QED
    BY <2>1
<1> DEFINE gt == [gathers EXCEPT ![g].children = children]
           w == [gathers[g] EXCEPT !.children = children]
           r == Register([heap EXCEPT !.state[g] = "PENDING"], g, children)
<1>4. heap' = r /\ gathers' = gt
  BY DEF Gather
<1>5. /\ gt \in GathersType
      /\ \A e \in Gathering : e # g => gt[e] = gathers[e]
      /\ gt[g].children = children /\ gt[g].nfinished = gathers[g].nfinished
  <2>1. gathers[g] \in [children : Seq(Awaitable), nfinished : Nat]
    BY <1>2 DEF GathersType
  <2>2. /\ w \in [children : Seq(Awaitable), nfinished : Nat]
        /\ w.children = children /\ w.nfinished = gathers[g].nfinished
    BY <1>3, <2>1
  <2>3. gt = [gathers EXCEPT ![g] = w]
    BY <1>2 DEF GathersType
  <2> HIDE DEF w, gt
  <2> QED
    BY <1>2, <2>2, <2>3 DEF GathersType
<1> HIDE DEF gt
<1>6. \A k \in 1 .. Len(children) : heap.state[children[k]] # "UNBORN"
  BY <1>1, <1>3
<1>7. /\ HeapInv(r, gt, running.task) /\ QueueGrows(heap, r)
      /\ r.must_cancel = heap.must_cancel
      /\ \A x \in Awaitable : Settled(heap, x) => Settled(r, x)
      /\ \A e \in Gathering : e # g => r.state[e] = heap.state[e]
      /\ gt[g].nfinished = 0
  <2>1. AllBorn(heap, children) /\ GathersWith(gathers, gt, g, children)
    BY <1>5, <1>6 DEF AllBorn, GathersWith
  <2>2. heap.state[g] = "UNBORN"
    BY <1>1
  <2>3. GatherMade(heap, r, gt, running.task, g)
    BY <1>2, <1>3, <2>1, <2>2, GatherInv
  <2> QED
    BY <2>3 DEF GatherMade
<1> HIDE DEF r
<1>8. PendingOK(r, gt)
  <2> SUFFICES ASSUME NEW e \in Gathering, r.state[e] = "PENDING"
               PROVE  gt[e].nfinished < Len(gt[e].children)
    BY DEF PendingOK
  <2>1. CASE e = g
    <3>1. gt[e].nfinished = 0 /\ gt[e].children = children
      BY <1>5, <1>7, <2>1
    <3> QED
      BY <1>3, <3>1
  <2>2. CASE e # g
    <3>1. gt[e] = gathers[e] /\ heap.state[e] = "PENDING"
      BY <1>5, <1>7, <2>2
    <3> QED
      BY <3>1 DEF IInv, PendingOK
  <2> QED
    BY <2>1, <2>2
<1>9. r \in Heap /\ Len(heap.ready) \in Nat /\ Len(r.ready) \in Nat
  BY <1>2, <1>7, HeapLens DEF HeapInv, Body
<1>10. QueueDisarmed(r, coro)
  <2> SUFFICES ASSUME NEW t \in Task, coro[t].wait_for = "no", NEW i \in 1 .. Len(r.ready)
               PROVE  ~ Live(r.ready[i], t)
    BY DEF QueueDisarmed
  <2>1. CASE i <= Len(heap.ready)
    <3>1. i \in 1 .. Len(heap.ready)
      BY <1>9, <2>1
    <3> QED
      BY <1>7, <3>1 DEF IInv, QueueDisarmed, QueueGrows
  <2>2. CASE i > Len(heap.ready)
    BY <1>7, <2>2 DEF QueueGrows, Live
  <2> QED
    BY <1>9, <2>1, <2>2
<1>11. TurnOK(r, running, scheduled, todo, stopping, stopped)
  <2>1. todo \in 0 .. Len(heap.ready) /\ Len(heap.ready) <= Len(r.ready)
    BY <1>7 DEF IInv, TurnOK, QueueGrows
  <2>2. todo \in 0 .. Len(r.ready)
    BY <1>9, <2>1
  <2>3. Settled(heap, Main) => Settled(r, Main)
    BY <1>7, AwaitableFacts
  <2> QED
    BY <1>1, <2>2, <2>3 DEF IInv, TurnOK, Calls
<1>12. UNCHANGED <<running, todo, now, stopping, stopped>>
  BY <1>1 DEF Calls
<1>13. IInv'
  BY <1>1, <1>4, <1>5, <1>7, <1>8, <1>10, <1>11, <1>12 DEF IInv
<1>14. TimersKept(scheduled, scheduled') /\ now' = now
  BY <1>1, <1>12, TimersKeptRefl
<1>15. \A u \in Task : heap.must_cancel[u] => heap'.must_cancel[u]
  BY <1>4, <1>7
<1> QED
  BY <1>13, <1>14, <1>15, ClockStands, RequestStays DEF StepOK

-----------------------------------------------------------------------------
(* call_later *)

\* r is q with e at place i
InsertedAt(r, S, q, i, e) ==
    /\ r \in Seq(S) /\ Len(r) = Len(q) + 1 /\ r[i] = e
    /\ \A j \in 1 .. Len(q) : j < i => r[j] = q[j]
    /\ \A j \in 1 .. Len(q) : j >= i => r[j + 1] = q[j]

\* What stands where after an insertion.
LEMMA InsertPlaces ==
    ASSUME NEW S, NEW q \in Seq(S), NEW i \in 1 .. Len(q) + 1, NEW e \in S
    PROVE  InsertedAt(InsertAt(q, i, e), S, q, i, e)
<1> DEFINE n == Len(q)
           a == SubSeq(q, 1, i - 1)
           b == SubSeq(q, i, n)
           c == Append(a, e)
           r == InsertAt(q, i, e)
<1>1. n \in Nat /\ i \in Int /\ 1 <= i /\ i <= n + 1
  OBVIOUS
<1>2. a \in Seq(S) /\ Len(a) = i - 1 /\ \A j \in 1 .. i - 1 : a[j] = q[j]
  BY <1>1
<1>3. b \in Seq(S) /\ Len(b) = n + 1 - i /\ \A j \in 1 .. n + 1 - i : b[j] = q[i + j - 1]
  BY <1>1
<1>4. r = c \o b
  <2>1. r = a \o <<e>> \o b
    BY DEF InsertAt
  <2>2. a \o <<e>> = Append(a, e)
    <3> HIDE DEF a
    <3> QED
      BY <1>2
  <2> QED
    BY <2>1, <2>2
<1> HIDE DEF a, b, r, n
<1>5. c \in Seq(S) /\ Len(c) = i /\ c[i] = e /\ \A j \in 1 .. i - 1 : c[j] = q[j]
  BY <1>1, <1>2
<1> HIDE DEF c
<1>6. /\ r \in Seq(S) /\ Len(r) = n + 1
      /\ \A j \in 1 .. i : r[j] = c[j]
      /\ \A j \in 1 .. n + 1 - i : r[i + j] = b[j]
  <2>0. c \in Seq(S) /\ b \in Seq(S)
    BY <1>3, <1>5
  <2>1. /\ c \o b \in Seq(S) /\ Len(c \o b) = Len(c) + Len(b)
        /\ \A j \in 1 .. Len(c) : (c \o b)[j] = c[j]
        /\ \A j \in 1 .. Len(b) : (c \o b)[Len(c) + j] = b[j]
    BY <2>0, ConcatPlaces
  <2> QED
    BY <1>1, <1>3, <1>4, <1>5, <2>1, SMTT(40)
<1>7. r[i] = e
  BY <1>1, <1>5, <1>6
<1>8. \A j \in 1 .. n : j < i => r[j] = q[j]
  BY <1>1, <1>5, <1>6
<1>9. ASSUME NEW j \in 1 .. n, j >= i PROVE r[j + 1] = q[j]
  <2> DEFINE m == j + 1 - i
  <2>1. m \in 1 .. n + 1 - i /\ i + m = j + 1 /\ i + m - 1 = j
    BY <1>1, <1>9
  <2> HIDE DEF m
  <2>2. r[i + m] = b[m] /\ b[m] = q[i + m - 1]
    BY <1>3, <1>6, <2>1
  <2> QED
    BY <2>1, <2>2
<1> QED
  BY <1>6, <1>7, <1>8, <1>9 DEF n, r, InsertedAt

\* the place of a new timer with this deadline
InsertPlace(q, when, k) ==
    /\ k \in 1 .. Len(q) + 1
    /\ \A j \in 1 .. k - 1 : q[j].when <= when
    /\ k <= Len(q) => q[k].when > when

\* The new timer has a place.
LEMMA PlaceExists ==
    ASSUME NEW q \in Seq(Timer), NEW when \in Int
    PROVE  \E k : InsertPlace(q, when, k)
<1> DEFINE n == Len(q)
           S == {k \in 1 .. n + 1 : k <= n => q[k].when > when}
<1>1. n \in Nat
  OBVIOUS
<1>2. \A j \in 1 .. n : q[j].when \in Int
  <2>1. \A j \in 1 .. n : q[j] \in Timer
    OBVIOUS
  <2> QED
    BY <2>1, LoopAssumption DEF Timer
<1> HIDE DEF n
<1>3. S \in SUBSET Nat /\ S # {}
  <2>1. n + 1 \in S
    BY <1>1
  <2>2. \A k \in S : k \in Nat
    BY <1>1
  <2> QED
    BY <2>1, <2>2, Zenon
<1>4. PICK m \in S : \A j \in S : m <= j
  <2> HIDE DEF S
  <2> QED
    BY <1>3, LeastIn
<1>5. m \in 1 .. n + 1 /\ (m <= n => q[m].when > when)
  OBVIOUS
<1>6. ASSUME NEW j \in 1 .. m - 1 PROVE q[j].when <= when
  <2>1. j \in 1 .. n /\ j \in 1 .. n + 1 /\ j < m /\ j <= n
    BY <1>1, <1>5
  <2>2. j \notin S
    BY <1>4, <1>5, <2>1
  <2>3. ~ (q[j].when > when)
    BY <2>1, <2>2
  <2> QED
    BY <1>2, <2>1, <2>3
<1> QED
  BY <1>5, <1>6 DEF InsertPlace, n

\* what call_later does to the list of timers
TimerAdded(q, r, time, x) ==
    /\ TimersOK(r, time) /\ TimersKept(q, r)
    /\ \A i \in 1 .. Len(r) :
          r[i].handle = x \/ \E j \in 1 .. Len(q) : r[i] = q[j]

\* A timer put at its place leaves the list sorted.
LEMMA InsertTimer ==
    ASSUME NEW q, NEW time \in 0 .. MaxTime, TimersOK(q, time), NEW when \in 0 .. MaxTime,
           when > time, NEW x \in Handle, TimerOK(x), NEW i, InsertPlace(q, when, i)
    PROVE  TimerAdded(q, InsertAt(q, i, [when |-> when, handle |-> x]), time, x)
<1> DEFINE e == [when |-> when, handle |-> x]
           r == InsertAt(q, i, e)
           n == Len(q)
<1>1. q \in Seq(Timer) /\ n \in Nat /\ i \in 1 .. n + 1
  BY DEF TimersOK, InsertPlace
<1>2. e \in Timer /\ e.when = when /\ e.handle = x
  BY DEF Timer
<1> HIDE DEF e
<1>3. /\ r \in Seq(Timer) /\ Len(r) = n + 1 /\ r[i] = e
      /\ \A j \in 1 .. n : j < i => r[j] = q[j]
      /\ \A j \in 1 .. n : j >= i => r[j + 1] = q[j]
  <2>1. q \in Seq(Timer) /\ i \in 1 .. Len(q) + 1 /\ e \in Timer
    BY <1>1, <1>2
  <2>2. InsertedAt(r, Timer, q, i, e)
    BY <2>1, InsertPlaces, Zenon
  <2> HIDE DEF r
  <2> QED
    BY <2>2 DEF InsertedAt
<1>4. /\ \A j \in 1 .. n : q[j].when \in Int
      /\ when \in Int /\ time \in Int
  <2>1. \A j \in 1 .. n : q[j] \in Timer
    BY <1>1
  <2> QED
    BY <2>1, LoopAssumption DEF Timer
<1>5. /\ \A j \in 1 .. n : j < i => q[j].when <= when
      /\ \A j \in 1 .. n : j >= i => q[j].when > when
      /\ \A j, k \in 1 .. n : j <= k => q[j].when <= q[k].when
      /\ \A j \in 1 .. n : q[j].when > time /\ TimerOK(q[j].handle)
  <2>1. Sorted(q) /\ \A j \in 1 .. n : q[j].when > time /\ TimerOK(q[j].handle)
    BY DEF TimersOK
  <2>2. \A j, k \in 1 .. n : j <= k => q[j].when <= q[k].when
    BY <2>1 DEF Sorted
  <2>3. /\ \A j \in 1 .. i - 1 : q[j].when <= when
        /\ i <= n => q[i].when > when
    BY DEF InsertPlace
  <2> HIDE DEF n
  <2>4. \A j \in 1 .. n : j < i => q[j].when <= when
    BY <1>1, <2>3
  <2>5. ASSUME NEW j \in 1 .. n, j >= i PROVE q[j].when > when
    <3>1. i \in 1 .. n /\ i <= n
      BY <1>1, <2>5
    <3>2. q[i].when <= q[j].when /\ q[i].when > when
      BY <2>2, <2>3, <2>5, <3>1
    <3> QED
      BY <1>4, <3>1, <3>2
  <2> QED
    BY <2>1, <2>2, <2>4, <2>5
<1> HIDE DEF r, n
<1>6. \A k \in 1 .. n + 1 :
         \/ k < i /\ k \in 1 .. n /\ r[k] = q[k]
         \/ k = i /\ r[k] = e
         \/ k > i /\ k - 1 \in 1 .. n /\ k - 1 >= i /\ r[k] = q[k - 1]
  <2> SUFFICES ASSUME NEW k \in 1 .. n + 1
               PROVE  \/ k < i /\ k \in 1 .. n /\ r[k] = q[k]
                      \/ k = i /\ r[k] = e
                      \/ k > i /\ k - 1 \in 1 .. n /\ k - 1 >= i /\ r[k] = q[k - 1]
    OBVIOUS
  <2>1. CASE k < i
    <3>1. k \in 1 .. n
      BY <1>1, <2>1
    <3> QED
      BY <1>3, <2>1, <3>1
  <2>2. CASE k = i
    BY <1>3, <2>2
  <2>3. CASE k > i
    <3> DEFINE p == k - 1
    <3>1. p \in 1 .. n /\ p >= i /\ p + 1 = k
      BY <1>1, <2>3
    <3>2. r[p + 1] = q[p]
      BY <1>3, <3>1
    <3> QED
      BY <2>3, <3>1, <3>2
  <2> QED
    BY <1>1, <2>1, <2>2, <2>3
<1>7. \A k \in 1 .. n + 1 : r[k].when > time /\ TimerOK(r[k].handle)
  BY <1>2, <1>4, <1>5, <1>6
<1>8. ASSUME NEW j \in 1 .. n + 1, NEW k \in 1 .. n + 1, j <= k
      PROVE  r[j].when <= r[k].when
  <2>1. CASE j = k
    <3>1. r[j].when \in Int
      BY <1>2, <1>4, <1>6
    <3> QED
      BY <2>1, <3>1
  <2>2. CASE j < i /\ k < i
    BY <1>5, <1>6, <1>8, <2>2
  <2>3. CASE j < i /\ k = i
    BY <1>2, <1>5, <1>6, <2>3
  <2>4. CASE j < i /\ k > i
    <3>1. j \in 1 .. n /\ k - 1 \in 1 .. n /\ k - 1 >= i /\ r[j] = q[j] /\ r[k] = q[k - 1]
      BY <1>1, <1>6, <2>4
    <3>2. j <= k - 1
      BY <1>1, <2>4
    <3> QED
      BY <1>5, <3>1, <3>2
  <2>5. CASE j = i /\ k > i
    <3>1. k - 1 \in 1 .. n /\ k - 1 >= i /\ r[k] = q[k - 1] /\ r[j] = e
      BY <1>1, <1>6, <2>5
    <3>2. q[k - 1].when > when /\ q[k - 1].when \in Int
      BY <1>4, <1>5, <3>1
    <3> QED
      BY <1>2, <1>4, <3>1, <3>2
  <2>6. CASE j > i /\ k > i
    <3>1. /\ j - 1 \in 1 .. n /\ k - 1 \in 1 .. n /\ r[j] = q[j - 1] /\ r[k] = q[k - 1]
      BY <1>1, <1>6, <2>6
    <3>2. j - 1 <= k - 1
      BY <1>8
    <3> QED
      BY <1>5, <3>1, <3>2
  <2>7. i \in Int /\ j \in Int /\ k \in Int
    BY <1>1
  <2>8. j = k \/ (j < i /\ k < i) \/ (j < i /\ k = i) \/ (j < i /\ k > i)
        \/ (j = i /\ k > i) \/ (j > i /\ k > i)
    BY <1>8, <2>7
  <2> QED
    BY <2>1, <2>2, <2>3, <2>4, <2>5, <2>6, <2>8
<1>9. TimersOK(r, time)
  <2>1. Sorted(r)
    BY <1>3, <1>8 DEF Sorted
  <2> QED
    BY <1>3, <1>7, <2>1 DEF TimersOK
<1>10. TimersKept(q, r)
  <2> SUFFICES ASSUME NEW j \in 1 .. n
               PROVE  \E k \in 1 .. n + 1 : r[k] = q[j]
    BY <1>3 DEF TimersKept, SameCall, n
  <2>1. CASE j < i
    <3>1. j \in 1 .. n + 1 /\ r[j] = q[j]
      BY <1>1, <1>3, <2>1
    <3> QED
      BY <3>1
  <2>2. CASE j >= i
    <3>1. j + 1 \in 1 .. n + 1 /\ r[j + 1] = q[j]
      BY <1>1, <1>3, <2>2
    <3> QED
      BY <3>1
  <2> QED
    BY <1>1, <2>1, <2>2
<1>11. \A k \in 1 .. Len(r) : r[k].handle = x \/ \E j \in 1 .. Len(q) : r[k] = q[j]
  BY <1>2, <1>3, <1>6 DEF n
<1>12. TimerAdded(q, r, time, x)
  BY <1>9, <1>10, <1>11 DEF TimerAdded
<1> QED
  BY <1>12 DEF r, e

\* call_later
LEMMA CallLaterIs ==
    ASSUME IInv, NEW delay \in Delay, now + delay <= MaxTime, NEW x \in Handle, TimerOK(x)
    PROVE  TimerAdded(scheduled, CallLater(delay, x), now, x)
<1> DEFINE when == now + delay
           P(k) == /\ \A j \in 1 .. k - 1 : scheduled[j].when <= when
                   /\ k <= Len(scheduled) => scheduled[k].when > when
           i == CHOOSE k \in 1 .. Len(scheduled) + 1 : P(k)
<1>1. now \in 0 .. MaxTime /\ delay \in Nat /\ delay > 0 /\ MaxTime \in Nat
  BY LoopAssumption DEF IInv
<1>2. when \in 0 .. MaxTime /\ when > now /\ when \in Int
  BY <1>1
<1>3. TimersOK(scheduled, now) /\ scheduled \in Seq(Timer)
  BY DEF IInv, TimersOK
<1>4. CallLater(delay, x) = InsertAt(scheduled, i, [when |-> when, handle |-> x])
  BY DEF CallLater
<1> HIDE DEF when
<1>5. \E k : InsertPlace(scheduled, when, k)
  BY <1>2, <1>3, PlaceExists
<1>6. \E k \in 1 .. Len(scheduled) + 1 : P(k)
  BY <1>5 DEF InsertPlace
<1>7. i \in 1 .. Len(scheduled) + 1 /\ P(i)
  <2> HIDE DEF P
  <2> QED
    BY <1>6
<1>8. InsertPlace(scheduled, when, i)
  BY <1>7 DEF InsertPlace
<1> HIDE DEF i
<1>9. TimerAdded(scheduled, InsertAt(scheduled, i, [when |-> when, handle |-> x]), now, x)
  BY <1>1, <1>2, <1>3, <1>8, InsertTimer
<1> QED
  BY <1>4, <1>9

-----------------------------------------------------------------------------
(* The end of a step of a coroutine *)

\* An end that sets no timer and enters no wait_for.
LEMMA EndOK ==
    ASSUME IInv, Ends, UNCHANGED <<coro, scheduled>>,
           HeapInv(heap', gathers, None), Onward(heap, heap'), CancelStep
    PROVE  StepOK
<1>1. heap \in Heap /\ heap' \in Heap
  BY DEF IInv, HeapInv, Body
<1>2. QueueDisarmed(heap', coro)
  BY <1>1, OnwardKeeps DEF IInv
<1>3. CoroOK(coro) /\ TimersOK(scheduled, now) /\ TimersDisarmed(scheduled, coro)
  BY DEF IInv
<1>4. /\ CoroOK(coro') /\ TimersOK(scheduled', now)
      /\ QueueDisarmed(heap', coro') /\ TimersDisarmed(scheduled', coro')
  BY <1>2, <1>3
<1>5. IInv'
  BY <1>4, EndStep
<1>6. TimersKept(scheduled, scheduled') /\ now' = now
  BY TimersKeptRefl DEF Ends
<1> QED
  BY <1>5, <1>6, ClockStands DEF StepOK

\* The coroutine ends, with the given outcome of its task.
LEMMA FinishStep ==
    ASSUME IInv, Ends, UNCHANGED <<coro, scheduled>>,
           NEW st \in {"CANCELLED", "FINISHED"}, NEW fl \in BOOLEAN,
           heap' = Resolve(heap, running.task, st, fl)
    PROVE  StepOK
<1> DEFINE t == running.task
           r == Resolve(heap, t, st, fl)
<1>1. t \in Task /\ gathers \in GathersType /\ HeapInv(heap, gathers, t)
  BY RunningFacts DEF Ends
<1> HIDE DEF t
<1>2. HeapInv(r, gathers, None) /\ Onward(heap, r) /\ r.must_cancel = heap.must_cancel
  BY <1>1, ResolveTaskInv
<1>3. heap' = r
  BY DEF t
<1> HIDE DEF r
<1>4. CancelStep
  BY <1>2, <1>3, RequestStays
<1> QED
  BY <1>2, <1>3, <1>4, EndOK

\* The coroutine returns.
LEMMA ReturnStep == IInv /\ Return => StepOK
<1> SUFFICES ASSUME IInv, Return PROVE StepOK
  OBVIOUS
<1> DEFINE st == "FINISHED"
           fl == FALSE
<1>1. /\ Ends /\ UNCHANGED <<coro, scheduled>>
      /\ heap' = Resolve(heap, running.task, st, fl)
  BY DEF Return
<1>2. st \in {"CANCELLED", "FINISHED"} /\ fl \in BOOLEAN
  OBVIOUS
<1> HIDE DEF st, fl
<1> QED
  BY <1>1, <1>2, FinishStep

\* The coroutine raises.
LEMMA RaiseStep ==
    ASSUME IInv, NEW cancelled \in BOOLEAN, Raise(cancelled)
    PROVE  StepOK
<1>1. Ends /\ UNCHANGED <<coro, scheduled>>
  BY DEF Raise
<1>2. CASE cancelled
  <2> DEFINE st == "CANCELLED"
             fl == FALSE
  <2>1. heap' = Resolve(heap, running.task, st, fl)
    BY <1>2 DEF Raise
  <2>2. st \in {"CANCELLED", "FINISHED"} /\ fl \in BOOLEAN
    OBVIOUS
  <2> HIDE DEF st, fl
  <2> QED
    BY <1>1, <2>1, <2>2, FinishStep
<1>3. CASE ~ cancelled
  <2> DEFINE st == "FINISHED"
             fl == TRUE
  <2>1. heap' = Resolve(heap, running.task, st, fl)
    BY <1>3 DEF Raise
  <2>2. st \in {"CANCELLED", "FINISHED"} /\ fl \in BOOLEAN
    OBVIOUS
  <2> HIDE DEF st, fl
  <2> QED
    BY <1>1, <2>1, <2>2, FinishStep
<1> QED
  BY <1>2, <1>3

\* The next step of the task is queued.
LEMMA RequeueStep ==
    ASSUME IInv, Ends, UNCHANGED <<coro, scheduled>>, NEW a \in {None, "RuntimeError"},
           heap' = CallSoon(heap, NewHandle("step", running.task, 0, a))
    PROVE  StepOK
<1> DEFINE t == running.task
           r == CallSoon(heap, NewHandle("step", t, 0, a))
<1>1. t \in Task /\ gathers \in GathersType /\ HeapInv(heap, gathers, t)
  BY RunningFacts DEF Ends
<1> HIDE DEF t
<1>2. HeapInv(r, gathers, None) /\ Onward(heap, r) /\ r.must_cancel = heap.must_cancel
  BY <1>1, RequeueInv
<1>3. heap' = r
  BY DEF t
<1> HIDE DEF r
<1>4. CancelStep
  BY <1>2, <1>3, RequestStays
<1> QED
  BY <1>2, <1>3, <1>4, EndOK

\* await sleep(0), and an object that is no future
LEMMA YieldStep == IInv /\ (SleepZero \/ BadYield) => StepOK
<1>1. ASSUME IInv, SleepZero PROVE StepOK
  BY <1>1, RequeueStep DEF SleepZero
<1>2. ASSUME IInv, BadYield PROVE StepOK
  <2> DEFINE a == "RuntimeError"
  <2>1. /\ Ends /\ UNCHANGED <<coro, scheduled>> /\ a \in {None, "RuntimeError"}
        /\ heap' = CallSoon(heap, NewHandle("step", running.task, 0, a))
    BY <1>2 DEF BadYield
  <2> HIDE DEF a
  <2> QED
    BY <1>2, <2>1, RequeueStep
<1> QED
  BY <1>1, <1>2

\* what a suspension does to the heap
Suspended(h, r, t, f) ==
    /\ HeapInv(r, gathers, None) /\ Onward(h, r)
    /\ r.fut_waiter[t] = f
    /\ \A u \in Task : h.must_cancel[u] =>
          r.must_cancel[u] \/ (u = t /\ CancelReached(r, f))

\* The task waits for f.
LEMMA SuspendIs ==
    ASSUME NEW h, gathers \in GathersType, NEW t \in Task, HeapInv(h, gathers, t),
           NEW f \in Awaitable, h.state[f] = "PENDING", t \notin WaitsFor(h, f)
    PROVE  Suspended(h, Suspend(h, t, f), t, f)
<1> DEFINE r == Suspend(h, t, f)
<1>1. /\ HeapInv(r, gathers, None) /\ Onward(h, r)
      /\ r.fut_waiter[t] = f
      /\ \A u \in Task : h.must_cancel[u] =>
            r.must_cancel[u] \/ (u = t /\ CancelReached(r, f))
  BY SuspendInv
<1> HIDE DEF r
<1>2. Suspended(h, r, t, f)
  BY <1>1 DEF Suspended
<1> QED
  BY <1>2 DEF r

\* A suspended task passes the request on or keeps it.
LEMMA SuspendedCancel ==
    ASSUME NEW t \in Task, NEW f \in Awaitable, Suspended(heap, heap', t, f)
    PROVE  CancelStep
<1>1. /\ heap'.fut_waiter[t] = f /\ f # None
      /\ \A u \in Task : heap.must_cancel[u] =>
            heap'.must_cancel[u] \/ (u = t /\ CancelReached(heap', f))
  BY AwaitableFacts DEF Suspended
<1> QED
  BY <1>1 DEF CancelStep

\* await f
LEMMA AwaitStep ==
    ASSUME IInv, NEW f \in Awaitable, Await(f)
    PROVE  StepOK
<1> DEFINE t == running.task
<1>1. /\ Ends /\ UNCHANGED <<coro, scheduled>> /\ heap.state[f] = "PENDING"
      /\ t \notin WaitsFor(heap, f) /\ heap' = Suspend(heap, t, f)
  BY DEF Await, Done
<1>2. t \in Task /\ gathers \in GathersType /\ HeapInv(heap, gathers, t)
  BY <1>1, RunningFacts DEF Ends
<1> HIDE DEF t
<1>3. Suspended(heap, heap', t, f)
  BY <1>1, <1>2, SuspendIs
<1>4. CancelStep
  BY <1>2, <1>3, SuspendedCancel
<1>5. HeapInv(heap', gathers, None) /\ Onward(heap, heap')
  BY <1>3 DEF Suspended
<1> QED
  BY <1>1, <1>4, <1>5, EndOK

\* The timer that sleep and wait_for set.
LEMMA TimerHandleOK ==
    /\ \A f \in Future : LET x == NewHandle("set_result", f, 0, None)
                         IN  x \in Handle /\ TimerOK(x) /\ \A t : ~ Live(x, t)
    /\ \A t \in Task, f \in Awaitable :
          LET x == NewHandle("timeout", t, 0, f)
          IN  x \in Handle /\ TimerOK(x) /\ \A u : Live(x, u) => u = t
BY AwaitableFacts DEF NewHandle, Handle, TimerOK, Live

\* A future waits for nothing.
LEMMA FutureWaits ==
    ASSUME NEW h, NEW f \in Future, NEW t \in Task
    PROVE  t \notin WaitsFor(h, f)
<1>1. f \in Awaitable /\ f \notin Gathering /\ f \notin Task /\ t # f
  BY AwaitableFacts
<1>2. Awaited(h, f) = {}
  BY <1>1 DEF Awaited
<1>3. {f} \in SUBSET Awaitable /\ \A x \in {f} : Awaited(h, x) \subseteq {f}
  BY <1>1, <1>2
<1> QED
  BY <1>1, <1>3 DEF WaitsFor

\* An end that sets the timer x.
LEMMA TimedEnd ==
    ASSUME IInv, Ends, HeapInv(heap', gathers, None), Onward(heap, heap'), CancelStep,
           NEW x, TimerAdded(scheduled, scheduled', now, x), CoroOK(coro'),
           \A t \in Task : coro'[t].wait_for = "no" =>
               coro[t].wait_for = "no" /\ ~ Live(x, t)
    PROVE  StepOK
<1>1. heap \in Heap /\ heap' \in Heap
  BY DEF IInv, HeapInv, Body
<1>2. QueueDisarmed(heap', coro)
  BY <1>1, OnwardKeeps DEF IInv
<1>3. QueueDisarmed(heap', coro')
  BY <1>2 DEF QueueDisarmed
<1>4. TimersOK(scheduled', now) /\ TimersKept(scheduled, scheduled')
  BY DEF TimerAdded
<1>5. TimersDisarmed(scheduled', coro')
  <2> SUFFICES ASSUME NEW t \in Task, coro'[t].wait_for = "no",
                      NEW i \in 1 .. Len(scheduled')
               PROVE  ~ Live(scheduled'[i].handle, t)
    BY DEF TimersDisarmed
  <2>1. coro[t].wait_for = "no" /\ ~ Live(x, t)
    OBVIOUS
  <2>2. \A j \in 1 .. Len(scheduled) : ~ Live(scheduled[j].handle, t)
    BY <2>1 DEF IInv, TimersDisarmed
  <2>3. scheduled'[i].handle = x \/ \E j \in 1 .. Len(scheduled) : scheduled'[i] = scheduled[j]
    BY DEF TimerAdded
  <2> QED
    BY <2>1, <2>2, <2>3
<1>6. IInv'
  BY <1>3, <1>4, <1>5, EndStep
<1>7. now' = now
  BY DEF Ends
<1> QED
  BY <1>4, <1>6, <1>7, ClockStands DEF StepOK

\* await sleep(delay)
LEMMA SleepStep ==
    ASSUME IInv, NEW f \in Future, NEW delay \in Delay, Sleep(f, delay)
    PROVE  StepOK
<1> DEFINE t == running.task
           x == NewHandle("set_result", f, 0, None)
           h == [heap EXCEPT !.state[f] = "PENDING", !.hidden = @ \cup {f}]
<1>1. /\ Ends /\ heap.state[f] = "UNBORN" /\ now + delay <= MaxTime
      /\ heap' = Suspend(h, t, f) /\ scheduled' = CallLater(delay, x) /\ coro' = coro
  BY DEF Sleep, Unborn
<1>2. t \in Task /\ heap \in Heap /\ gathers \in GathersType /\ HeapInv(heap, gathers, t)
  BY <1>1, RunningFacts DEF Ends
<1>3. f \in Awaitable
  BY AwaitableFacts
<1>4. /\ h \in Heap
      /\ \A y \in Awaitable : h.state[y] = IF y = f THEN "PENDING" ELSE heap.state[y]
      /\ h.failed = heap.failed /\ h.callbacks = heap.callbacks
      /\ h.fut_waiter = heap.fut_waiter /\ h.ready = heap.ready
      /\ h.must_cancel = heap.must_cancel
  <2> DEFINE S == [heap.state EXCEPT ![f] = "PENDING"]
             N == heap.hidden \cup {f}
  <2>1. h = [heap EXCEPT !.state = S, !.hidden = N]
    OBVIOUS
  <2>2. /\ S \in [Awaitable -> {"UNBORN", "PENDING", "CANCELLED", "FINISHED"}]
        /\ N \in SUBSET Future
        /\ \A y \in Awaitable : S[y] = IF y = f THEN "PENDING" ELSE heap.state[y]
    BY <1>2, <1>3, HeapFields
  <2> HIDE DEF S, N, h
  <2>3. h \in Heap
    BY <1>2, <2>1, <2>2 DEF Heap
  <2>4. /\ h.state = S /\ h.failed = heap.failed /\ h.callbacks = heap.callbacks
        /\ h.fut_waiter = heap.fut_waiter /\ h.ready = heap.ready
        /\ h.must_cancel = heap.must_cancel
    BY <1>2, <2>1 DEF Heap
  <2> QED
    BY <2>2, <2>3, <2>4
<1>5. x \in Handle /\ TimerOK(x) /\ \A u : ~ Live(x, u)
  BY TimerHandleOK
<1> HIDE DEF t, x, h
<1>6. HeapInv(h, gathers, t) /\ Onward(heap, h)
  BY <1>1, <1>2, <1>4, CreateFutureInv
<1>7. h.state[f] = "PENDING" /\ t \notin WaitsFor(h, f)
  BY <1>2, <1>3, <1>4, FutureWaits
<1>8. Suspended(h, heap', t, f)
  BY <1>1, <1>2, <1>3, <1>6, <1>7, SuspendIs
<1>9. HeapInv(heap', gathers, None) /\ heap' \in Heap
  BY <1>8 DEF Suspended, HeapInv, Body
<1>10. Onward(heap, heap')
  BY <1>2, <1>4, <1>6, <1>8, <1>9, OnwardTrans DEF Suspended
<1>11. CancelStep
  <2>1. Suspended(heap, heap', t, f)
    BY <1>4, <1>8, <1>10 DEF Suspended
  <2> QED
    BY <1>2, <1>3, <2>1, SuspendedCancel
<1>12. TimerAdded(scheduled, scheduled', now, x)
  BY <1>1, <1>5, CallLaterIs
<1>13. CoroOK(coro')
  BY <1>1 DEF IInv
<1> QED
  BY <1>1, <1>5, <1>9, <1>10, <1>11, <1>12, <1>13, TimedEnd

\* await wait_for(f, delay)
LEMMA WaitForStep ==
    ASSUME IInv, NEW f \in Awaitable, NEW delay \in Delay, WaitFor(f, delay)
    PROVE  StepOK
<1> DEFINE t == running.task
           x == NewHandle("timeout", t, 0, f)
           co == [coro EXCEPT ![t].wait_for = "armed"]
<1>1. /\ Ends /\ heap.state[f] = "PENDING" /\ now + delay <= MaxTime
      /\ t \notin WaitsFor(heap, f) /\ heap' = Suspend(heap, t, f)
      /\ scheduled' = CallLater(delay, x) /\ coro' = co
  BY DEF WaitFor, Done
<1>2. t \in Task /\ gathers \in GathersType /\ HeapInv(heap, gathers, t)
  BY <1>1, RunningFacts DEF Ends
<1>3. x \in Handle /\ TimerOK(x) /\ \A u : Live(x, u) => u = t
  BY <1>2, TimerHandleOK
<1>4. CoroOK(co) /\ co[t].wait_for = "armed" /\ \A u \in Task : u # t => co[u] = coro[u]
  <2>1. CoroOK(coro)
    BY DEF IInv
  <2> HIDE DEF t
  <2> QED
    BY <1>2, <2>1 DEF CoroOK
<1> HIDE DEF t, x, co
<1>5. Suspended(heap, heap', t, f)
  BY <1>1, <1>2, SuspendIs
<1>6. CancelStep
  BY <1>2, <1>5, SuspendedCancel
<1>7. HeapInv(heap', gathers, None) /\ Onward(heap, heap')
  BY <1>5 DEF Suspended
<1>8. TimerAdded(scheduled, scheduled', now, x)
  BY <1>1, <1>3, CallLaterIs
<1>9. \A u \in Task : co[u].wait_for = "no" => coro[u].wait_for = "no" /\ ~ Live(x, u)
  BY <1>3, <1>4
<1> QED
  BY <1>1, <1>4, <1>6, <1>7, <1>8, <1>9, TimedEnd

-----------------------------------------------------------------------------
(* A handle is popped and run *)

\* what holds when the head of the queue has been taken: r has its tail
PopDone(r) ==
    /\ heap \in Heap /\ r \in Heap /\ heap.ready # <<>> /\ r.ready = Tail(heap.ready)
    /\ r.state = heap.state /\ r.failed = heap.failed /\ r.callbacks = heap.callbacks
    /\ PendingOK(r, gathers) /\ QueueDisarmed(r, coro)
    /\ Settled(heap, Main) => Settled(r, Main)
    /\ Len(r.ready) = Len(heap.ready) - 1 /\ Len(heap.ready) \in Nat
    /\ Head(heap.ready) \in Handle /\ HandleOK(heap, gathers, Head(heap.ready))

\* Taking the head of the queue.
LEMMA PopFacts ==
    ASSUME IInv, todo > 0, NEW r \in Heap, r.state = heap.state, r.failed = heap.failed,
           r.callbacks = heap.callbacks, r.ready = Tail(heap.ready)
    PROVE  PopDone(r)
<1>1. heap \in Heap /\ Body(heap, gathers)
  BY DEF IInv, HeapInv, Body
<1>2. heap.ready # <<>>
  <2>1. todo \in 0 .. Len(heap.ready) /\ Len(heap.ready) \in Nat
    BY <1>1, HeapLens DEF IInv, TurnOK
  <2>2. Len(heap.ready) # 0
    BY <2>1
  <2> QED
    BY <2>2
<1>3. /\ Len(r.ready) = Len(heap.ready) - 1 /\ Len(heap.ready) \in Nat /\ Len(heap.ready) > 0
      /\ \A i \in 1 .. Len(r.ready) : i + 1 \in 1 .. Len(heap.ready) /\ r.ready[i] = heap.ready[i + 1]
      /\ Head(heap.ready) = heap.ready[1] /\ heap.ready[1] \in Handle
  BY <1>1, <1>2, TailPlaces
<1>4. PendingOK(r, gathers)
  BY DEF IInv, PendingOK
<1>5. QueueDisarmed(r, coro)
  BY <1>3 DEF IInv, QueueDisarmed
<1>6. Settled(heap, Main) => Settled(r, Main)
  BY DEF Settled
<1>7. HandleOK(heap, gathers, Head(heap.ready))
  <2>1. 1 \in 1 .. Len(heap.ready)
    BY <1>3
  <2> QED
    BY <1>1, <1>3, <2>1 DEF Body, HandlesOK
<1> QED
  BY <1>1, <1>2, <1>3, <1>4, <1>5, <1>6, <1>7 DEF PopDone

\* The heap without the head of the queue.
LEMMA PoppedIs ==
    ASSUME IInv, todo > 0
    PROVE  PopDone(Popped) /\ Keeps(heap, Popped) /\ Popped.must_cancel = heap.must_cancel
<1>1. heap \in Heap
  BY DEF IInv, HeapInv, Body
<1>2. heap.ready # <<>>
  <2>1. todo \in 0 .. Len(heap.ready) /\ Len(heap.ready) \in Nat
    BY <1>1, HeapLens DEF IInv, TurnOK
  <2>2. Len(heap.ready) # 0
    BY <2>1
  <2> QED
    BY <2>2
<1>3. /\ Popped \in Heap /\ Keeps(heap, Popped) /\ Popped.ready = Tail(heap.ready)
      /\ Popped.must_cancel = heap.must_cancel
  BY <1>1, <1>2, PopIs DEF Popped
<1>4. PopDone(Popped)
  BY <1>3, PopFacts DEF Keeps
<1> QED
  BY <1>3, <1>4

\* A handle that starts no coroutine, and leaves the gathers' record alone.
LEMMA PopOK ==
    ASSUME IInv, running = Idle, todo > 0, todo' = todo - 1,
           UNCHANGED <<gathers, running, scheduled, now, stopped>>,
           NEW p, PopDone(p), HeapInv(heap', gathers, None), Onward(p, heap'),
           CoroOK(coro'), \A t \in Task : coro'[t].wait_for = "no" => coro[t].wait_for = "no",
           stopping' \in BOOLEAN, stopping' => stopping \/ Settled(p, Main), CancelStep
    PROVE  StepOK
<1>1. /\ p \in Heap /\ PendingOK(p, gathers) /\ QueueDisarmed(p, coro)
      /\ Settled(heap, Main) => Settled(p, Main)
      /\ Len(p.ready) = Len(heap.ready) - 1
  BY DEF PopDone
<1>2. heap' \in Heap
  BY DEF HeapInv, Body
<1>3. /\ PendingOK(heap', gathers) /\ QueueDisarmed(heap', coro)
      /\ Settled(p, Main) => Settled(heap', Main)
      /\ Len(p.ready) <= Len(heap'.ready)
  BY <1>1, <1>2, OnwardKeeps DEF Onward, QueueGrows
<1>4. QueueDisarmed(heap', coro')
  BY <1>3 DEF QueueDisarmed
<1>5. TimersDisarmed(scheduled', coro')
  BY DEF IInv, TimersDisarmed
<1>6. stopping' => Settled(heap', Main)
  BY <1>1, <1>3 DEF IInv, TurnOK
<1>7. /\ gathers' \in GathersType /\ RunningOK(running') /\ TimersOK(scheduled', now)
      /\ HeapInv(heap', gathers', running'.task) /\ PendingOK(heap', gathers')
  <2>1. running'.task = None
    BY DEF Idle
  <2> QED
    BY <1>3, <2>1 DEF IInv
<1>8. Len(heap.ready) - 1 <= Len(heap'.ready)
  BY <1>1, <1>3
<1>9. IInv'
  BY <1>4, <1>5, <1>6, <1>7, <1>8, PopStep
<1>10. TimersKept(scheduled, scheduled') /\ now' = now
  BY TimersKeptRefl
<1> QED
  BY <1>9, <1>10, ClockStands DEF StepOK

\* The head of the queue is no token.
LEMMA PopPlain ==
    ASSUME IInv, running = Idle, todo > 0, Head(heap.ready).call \notin Tokens
    PROVE  HeapInv(Popped, gathers, None) /\ PopDone(Popped) /\ Onward(Popped, Popped)
           /\ Popped.must_cancel = heap.must_cancel
<1>1. PopDone(Popped) /\ Keeps(heap, Popped) /\ Popped.must_cancel = heap.must_cancel
  BY PoppedIs
<1>2. Popped \in Heap /\ Popped.ready = Tail(heap.ready) /\ heap.ready # <<>>
  BY <1>1 DEF PopDone
<1>3. HeapInv(heap, gathers, None) /\ gathers \in GathersType
  BY DEF IInv, Idle
<1>4. HeapInv(Popped, gathers, None)
  BY <1>1, <1>2, <1>3, PopOtherInv
<1>5. Onward(Popped, Popped)
  <2>1. QueueGrows(Popped, Popped)
    BY <1>2, QueueRefl
  <2> QED
    BY <2>1 DEF Onward
<1> QED
  BY <1>1, <1>4, <1>5

\* What is common to the pops.
LEMMA PopsFacts ==
    ASSUME IInv, NEW call, Pops(call)
    PROVE  /\ running = Idle /\ todo > 0 /\ todo' = todo - 1 /\ UNCHANGED <<now, stopped>>
           /\ Head(heap.ready).call = call /\ PopDone(Popped)
BY PoppedIs DEF Pops

\* _set_result_unless_done
LEMMA RunSetResultStep == IInv /\ RunSetResult => StepOK
<1> SUFFICES ASSUME IInv, RunSetResult PROVE StepOK
  OBVIOUS
<1> DEFINE f == Head(heap.ready).of
<1>1. /\ running = Idle /\ todo > 0 /\ todo' = todo - 1 /\ UNCHANGED <<now, stopped>>
      /\ Head(heap.ready).call = "set_result" /\ PopDone(Popped)
  BY PopsFacts DEF RunSetResult
<1>2. UNCHANGED <<gathers, coro, running, scheduled, stopping>>
  BY DEF RunSetResult
<1>3. HeapInv(Popped, gathers, None) /\ Onward(Popped, Popped)
      /\ Popped.must_cancel = heap.must_cancel
  BY <1>1, PopPlain DEF Tokens
<1>4. f \in Future /\ Popped.state = heap.state /\ gathers \in GathersType
  BY <1>1 DEF PopDone, HandleOK, IInv
<1>5. HeapInv(heap', gathers, None) /\ Onward(Popped, heap')
      /\ heap'.must_cancel = heap.must_cancel
  <2>1. CASE Done(heap, f)
    BY <1>3, <2>1 DEF RunSetResult
  <2>2. CASE ~ Done(heap, f)
    <3> DEFINE st == "FINISHED"
               fl == FALSE
               r == Resolve(Popped, f, st, fl)
    <3>1. heap' = r
      BY <2>2 DEF RunSetResult
    <3>2. st \in {"CANCELLED", "FINISHED"} /\ fl \in BOOLEAN /\ Popped.state[f] = "PENDING"
      BY <1>4, <2>2 DEF Done
    <3> HIDE DEF st, fl, f
    <3>3. HeapInv(r, gathers, None) /\ Onward(Popped, r) /\ r.must_cancel = Popped.must_cancel
      BY <1>3, <1>4, <3>2, ResolveFutureInv
    <3> QED
      BY <1>3, <3>1, <3>3
  <2> QED
    BY <2>1, <2>2
<1>6. CancelStep
  BY <1>5, RequestStays
<1>7. CoroOK(coro') /\ stopping' \in BOOLEAN
  BY <1>2 DEF IInv, TurnOK
<1> QED
  BY <1>1, <1>2, <1>5, <1>6, <1>7, PopOK

\* _on_timeout
LEMMA RunTimeoutStep == IInv /\ RunTimeout => StepOK
<1> SUFFICES ASSUME IInv, RunTimeout PROVE StepOK
  OBVIOUS
<1> DEFINE t == Head(heap.ready).of
           f == Head(heap.ready).arg
<1>1. /\ running = Idle /\ todo > 0 /\ todo' = todo - 1 /\ UNCHANGED <<now, stopped>>
      /\ Head(heap.ready).call = "timeout" /\ PopDone(Popped)
  BY PopsFacts DEF RunTimeout
<1>2. UNCHANGED <<gathers, running, scheduled, stopping>>
  BY DEF RunTimeout
<1>3. HeapInv(Popped, gathers, None) /\ Onward(Popped, Popped)
      /\ Popped.must_cancel = heap.must_cancel
  BY <1>1, PopPlain DEF Tokens
<1>4. t \in Task /\ f \in Awaitable /\ gathers \in GathersType
  BY <1>1 DEF PopDone, HandleOK, IInv
<1>5. HeapInv(heap', gathers, None) /\ Onward(Popped, heap')
      /\ \A u \in Task : heap.must_cancel[u] => heap'.must_cancel[u]
  <2>1. CASE Done(heap, f)
    BY <1>3, <2>1 DEF RunTimeout
  <2>2. CASE ~ Done(heap, f)
    <3> DEFINE r == Cancel(Popped, f).heap
    <3>1. heap' = r
      BY <2>2 DEF RunTimeout
    <3> HIDE DEF f
    <3>2. HeapInv(r, gathers, None) /\ Onward(Popped, r) /\ CancelGrows(Popped, r)
      BY <1>3, <1>4, CancelInv
    <3> HIDE DEF r
    <3>3. \A u \in Task : Popped.must_cancel[u] => r.must_cancel[u]
      BY <3>2 DEF CancelGrows
    <3> QED
      BY <1>3, <3>1, <3>2, <3>3
  <2> QED
    BY <2>1, <2>2
<1>6. CancelStep
  BY <1>5, RequestStays
<1>7. CoroOK(coro') /\ \A u \in Task : coro'[u].wait_for = "no" => coro[u].wait_for = "no"
  <2>1. CoroOK(coro)
    BY DEF IInv
  <2>2. coro' = coro \/ coro' = [coro EXCEPT ![t].wait_for = "timed_out"]
    BY DEF RunTimeout
  <2> HIDE DEF t
  <2> QED
    BY <1>4, <2>1, <2>2 DEF CoroOK
<1>8. stopping' \in BOOLEAN
  BY <1>2 DEF IInv, TurnOK
<1> QED
  BY <1>1, <1>2, <1>5, <1>6, <1>7, <1>8, PopOK

\* _stop_on_done
LEMMA RunStopStep == IInv /\ RunStop => StepOK
<1> SUFFICES ASSUME IInv, RunStop PROVE StepOK
  OBVIOUS
<1>1. /\ running = Idle /\ todo > 0 /\ todo' = todo - 1 /\ UNCHANGED <<now, stopped>>
      /\ Head(heap.ready).call = "stop" /\ PopDone(Popped)
  BY PopsFacts DEF RunStop
<1>2. UNCHANGED <<gathers, coro, running, scheduled>> /\ heap' = Popped /\ stopping' \in BOOLEAN
  BY DEF RunStop
<1>3. HeapInv(Popped, gathers, None) /\ Onward(Popped, Popped)
      /\ Popped.must_cancel = heap.must_cancel
  BY <1>1, PopPlain DEF Tokens
<1>4. Settled(Popped, Main)
  BY <1>1 DEF PopDone, HandleOK
<1>5. CancelStep
  BY <1>2, <1>3, RequestStays
<1>6. CoroOK(coro')
  BY <1>2 DEF IInv
<1> QED
  BY <1>1, <1>2, <1>3, <1>4, <1>5, <1>6, PopOK

\* A cancelled timer is skipped.
LEMMA SkipCancelledStep == IInv /\ SkipCancelled => StepOK
<1> SUFFICES ASSUME IInv, SkipCancelled PROVE StepOK
  OBVIOUS
<1>1. /\ running = Idle /\ todo > 0 /\ todo' = todo - 1 /\ Head(heap.ready).cancelled
      /\ UNCHANGED <<gathers, coro, running, scheduled, now, stopping, stopped>>
      /\ heap' = Popped
  BY DEF SkipCancelled
<1>2. PopDone(Popped)
  BY <1>1, PoppedIs
<1>3. Head(heap.ready).call \notin Tokens
  BY <1>1, <1>2 DEF PopDone, HandleOK, Tokens
<1>4. HeapInv(Popped, gathers, None) /\ Onward(Popped, Popped)
      /\ Popped.must_cancel = heap.must_cancel
  BY <1>1, <1>3, PopPlain
<1>5. CancelStep
  BY <1>1, <1>4, RequestStays
<1>6. CoroOK(coro') /\ stopping' \in BOOLEAN
  BY <1>1 DEF IInv, TurnOK
<1> QED
  BY <1>1, <1>2, <1>4, <1>5, <1>6, PopOK

\* _GatheringFuture._done: a report that comes late, or one of a cancelled or
\* failed child
LEMMA ReportEnds ==
    ASSUME IInv, Pops("gather_done"), UNCHANGED <<gathers, coro, running, scheduled, stopping>>,
           HeapInv(heap', gathers, None), Onward(Popped, heap'),
           heap'.must_cancel = heap.must_cancel
    PROVE  StepOK
<1>1. /\ running = Idle /\ todo > 0 /\ todo' = todo - 1 /\ UNCHANGED <<now, stopped>>
      /\ PopDone(Popped)
  BY PopsFacts
<1>2. CancelStep
  BY RequestStays
<1>3. CoroOK(coro') /\ stopping' \in BOOLEAN
  BY DEF IInv, TurnOK
<1> QED
  BY <1>1, <1>2, <1>3, PopOK

\* The report that is popped.
LEMMA PopsReport ==
    ASSUME IInv, Pops("gather_done")
    PROVE  /\ TakesReport(heap, Popped, Head(heap.ready).of, Head(heap.ready).index,
                          Head(heap.ready).arg)
           /\ Head(heap.ready).of \in Gathering /\ Head(heap.ready).arg \in Awaitable
           /\ Settled(heap, Head(heap.ready).arg)
           /\ Popped \in Heap /\ Onward(Popped, Popped)
           /\ Popped.must_cancel = heap.must_cancel
           /\ heap.state[Head(heap.ready).of] # "UNBORN"
<1>1. todo > 0 /\ Head(heap.ready).call = "gather_done"
  BY DEF Pops
<1>2. PopDone(Popped) /\ Keeps(heap, Popped) /\ Popped.must_cancel = heap.must_cancel
  BY <1>1, PoppedIs
<1>3. /\ Popped \in Heap /\ heap.ready # <<>> /\ Popped.ready = Tail(heap.ready)
      /\ HandleOK(heap, gathers, Head(heap.ready))
  BY <1>2 DEF PopDone
<1>4. Onward(Popped, Popped)
  <2>1. QueueGrows(Popped, Popped)
    BY <1>3, QueueRefl
  <2> QED
    BY <2>1 DEF Onward
<1>5. TakesReport(heap, Popped, Head(heap.ready).of, Head(heap.ready).index,
                  Head(heap.ready).arg)
  BY <1>1, <1>2, <1>3 DEF TakesReport
<1>6. /\ Head(heap.ready).of \in Gathering /\ Head(heap.ready).arg \in Awaitable
      /\ Settled(heap, Head(heap.ready).arg)
      /\ heap.state[Head(heap.ready).of] # "UNBORN"
  BY <1>1, <1>3 DEF HandleOK
<1> QED
  BY <1>2, <1>3, <1>4, <1>5, <1>6

\* The report of a result is counted.
LEMMA ReportCounts ==
    ASSUME IInv, Pops("gather_done"), UNCHANGED <<coro, running, scheduled, stopping>>,
           NEW g \in Gathering, Counts(gathers, gathers', g), heap.state[g] = "PENDING",
           HeapInv(heap', gathers', None), Onward(Popped, heap'),
           heap'.must_cancel = heap.must_cancel,
           heap'.state[g] = "PENDING" =>
               gathers[g].nfinished + 1 # Len(gathers[g].children)
    PROVE  StepOK
<1>1. /\ running = Idle /\ todo > 0 /\ todo' = todo - 1 /\ UNCHANGED <<now, stopped>>
      /\ PopDone(Popped)
  BY PopsFacts
<1>2. /\ Popped \in Heap /\ PendingOK(Popped, gathers) /\ QueueDisarmed(Popped, coro)
      /\ Settled(heap, Main) => Settled(Popped, Main)
      /\ Len(Popped.ready) = Len(heap.ready) - 1
  BY <1>1 DEF PopDone
<1>3. heap' \in Heap
  BY DEF HeapInv, Body
<1>4. /\ QueueDisarmed(heap', coro)
      /\ Settled(Popped, Main) => Settled(heap', Main)
      /\ Len(Popped.ready) <= Len(heap'.ready)
  BY <1>2, <1>3, OnwardKeeps DEF Onward, QueueGrows
<1>5. PendingOK(heap', gathers')
  <2> SUFFICES ASSUME NEW e \in Gathering, heap'.state[e] = "PENDING"
               PROVE  gathers'[e].nfinished < Len(gathers'[e].children)
    BY DEF PendingOK
  <2>1. CASE e = g
    <3>1. gathers[g].nfinished < Len(gathers[g].children)
      BY DEF IInv, PendingOK
    <3>2. gathers[g].nfinished \in Nat /\ Len(gathers[g].children) \in Nat
      BY DEF IInv, GathersType
    <3>3. gathers[g].nfinished + 1 < Len(gathers[g].children)
      BY <2>1, <3>1, <3>2
    <3> QED
      BY <2>1, <3>3 DEF Counts
  <2>2. CASE e # g
    <3>1. Popped.state[e] = "PENDING" /\ gathers'[e] = gathers[e]
      BY <2>2 DEF Onward, Counts
    <3> QED
      BY <1>2, <3>1 DEF PendingOK
  <2> QED
    BY <2>1, <2>2
<1>6. stopping' \in BOOLEAN /\ (stopping' => Settled(heap', Main))
  BY <1>2, <1>4 DEF IInv, TurnOK
<1>7. /\ gathers' \in GathersType /\ RunningOK(running') /\ TimersOK(scheduled', now)
      /\ HeapInv(heap', gathers', running'.task) /\ CoroOK(coro')
      /\ QueueDisarmed(heap', coro') /\ TimersDisarmed(scheduled', coro')
  <2>1. running'.task = None
    BY <1>1 DEF Idle
  <2> QED
    BY <1>4, <2>1 DEF IInv, Counts
<1>8. Len(heap.ready) - 1 <= Len(heap'.ready)
  BY <1>2, <1>4
<1>9. IInv'
  BY <1>1, <1>5, <1>6, <1>7, <1>8, PopStep
<1>10. TimersKept(scheduled, scheduled') /\ now' = now
  BY <1>1, TimersKeptRefl
<1>11. CancelStep
  BY RequestStays
<1> QED
  BY <1>9, <1>10, <1>11, ClockStands DEF StepOK

\* _GatheringFuture._done
LEMMA RunGatherDoneStep == IInv /\ RunGatherDone => StepOK
<1> SUFFICES ASSUME IInv, RunGatherDone PROVE StepOK
  OBVIOUS
<1> DEFINE g == Head(heap.ready).of
           k == Head(heap.ready).index
           c == Head(heap.ready).arg
           outcome == Outcome(heap, c)
           n == gathers[g].nfinished + 1
           gt == [gathers EXCEPT ![g].nfinished = n]
<1>1. Pops("gather_done") /\ UNCHANGED <<coro, running, scheduled, stopping>>
  BY DEF RunGatherDone
<1>2. \/ /\ Done(heap, g) /\ heap' = Popped /\ UNCHANGED gathers
      \/ /\ ~ Done(heap, g) /\ outcome # "none"
         /\ heap' = IF outcome = "cancelled"
                    THEN Resolve(Popped, g, "CANCELLED", FALSE)
                    ELSE Resolve(Popped, g, "FINISHED", TRUE)
         /\ UNCHANGED gathers
      \/ /\ ~ Done(heap, g) /\ outcome = "none"
         /\ gathers' = gt
         /\ heap' = IF n = Len(gathers[g].children)
                    THEN Resolve(Popped, g, "FINISHED", FALSE) ELSE Popped
  BY DEF RunGatherDone
<1>3. /\ TakesReport(heap, Popped, g, k, c) /\ g \in Gathering /\ c \in Awaitable
      /\ Settled(heap, c) /\ Popped \in Heap /\ Onward(Popped, Popped)
      /\ Popped.must_cancel = heap.must_cancel
  BY <1>1, PopsReport
<1>4. HeapInv(heap, gathers, None) /\ gathers \in GathersType
  BY <1>1 DEF IInv, Idle, Pops
<1>5. outcome = "none" => Good(heap, c)
  BY <1>3 DEF Outcome, Settled, Good
<1>6. n = gathers[g].nfinished + 1 /\ Counts(gathers, gt, g)
  BY <1>3, <1>4, CountIs
<1>7. Done(heap, g) <=> heap.state[g] # "PENDING"
  BY DEF Done
<1> HIDE DEF g, k, c, outcome, gt, n
<1>8. CASE Done(heap, g) /\ heap' = Popped /\ UNCHANGED gathers
  <2>1. HeapInv(Popped, gathers, None)
    BY <1>3, <1>4, <1>7, <1>8, DoneLate
  <2> QED
    BY <1>1, <1>3, <1>8, <2>1, ReportEnds
<1>9. CASE /\ ~ Done(heap, g) /\ outcome # "none"
           /\ heap' = IF outcome = "cancelled"
                      THEN Resolve(Popped, g, "CANCELLED", FALSE)
                      ELSE Resolve(Popped, g, "FINISHED", TRUE)
           /\ UNCHANGED gathers
  <2>0. heap.state[g] = "PENDING"
    BY <1>7, <1>9
  <2>1. ASSUME NEW st \in {"CANCELLED", "FINISHED"}, NEW fl \in BOOLEAN,
               st = "CANCELLED" \/ fl, heap' = Resolve(Popped, g, st, fl)
        PROVE  StepOK
    <3>1. /\ HeapInv(Resolve(Popped, g, st, fl), gathers, None)
          /\ Onward(Popped, Resolve(Popped, g, st, fl))
          /\ Resolve(Popped, g, st, fl).must_cancel = Popped.must_cancel
      BY <1>3, <1>4, <2>0, <2>1, DoneBad
    <3>2. /\ HeapInv(heap', gathers, None) /\ Onward(Popped, heap')
          /\ heap'.must_cancel = heap.must_cancel
      BY <1>3, <2>1, <3>1
    <3> QED
      BY <1>1, <1>9, <3>2, ReportEnds
  <2>2. CASE outcome = "cancelled"
    <3> DEFINE st == "CANCELLED"
               fl == FALSE
    <3>1. heap' = Resolve(Popped, g, st, fl)
      BY <1>9, <2>2
    <3>2. st \in {"CANCELLED", "FINISHED"} /\ fl \in BOOLEAN /\ (st = "CANCELLED" \/ fl)
      OBVIOUS
    <3> HIDE DEF st, fl
    <3> QED
      BY <2>1, <3>1, <3>2
  <2>3. CASE outcome # "cancelled"
    <3> DEFINE st == "FINISHED"
               fl == TRUE
    <3>1. heap' = Resolve(Popped, g, st, fl)
      BY <1>9, <2>3
    <3>2. st \in {"CANCELLED", "FINISHED"} /\ fl \in BOOLEAN /\ (st = "CANCELLED" \/ fl)
      OBVIOUS
    <3> HIDE DEF st, fl
    <3> QED
      BY <2>1, <3>1, <3>2
  <2> QED
    BY <2>2, <2>3
<1>10. CASE /\ ~ Done(heap, g) /\ outcome = "none"
            /\ gathers' = gt
            /\ heap' = IF n = Len(gathers[g].children)
                       THEN Resolve(Popped, g, "FINISHED", FALSE) ELSE Popped
  <2> DEFINE fl == FALSE
             r == Resolve(Popped, g, "FINISHED", fl)
  <2>0. heap.state[g] = "PENDING" /\ Good(heap, c) /\ fl \in BOOLEAN /\ ~ fl
    BY <1>5, <1>7, <1>10
  <2>1. heap' = IF n = Len(gathers[g].children) THEN r ELSE Popped
    BY <1>10
  <2> HIDE DEF fl
  <2>2. /\ HeapInv(Popped, gt, None)
        /\ gathers[g].nfinished + 1 = Len(gathers[g].children) =>
              /\ HeapInv(r, gt, None) /\ Onward(Popped, r)
              /\ r.must_cancel = Popped.must_cancel /\ r.state[g] = "FINISHED"
    <3>1. TakesReport(heap, Popped, g, k, c) /\ Counts(gathers, gt, g)
      BY <1>3, <1>6
    <3> QED
      BY <1>4, <2>0, <3>1, DoneGood
  <2> HIDE DEF r
  <2>3. HeapInv(heap', gathers', None) /\ Onward(Popped, heap')
        /\ heap'.must_cancel = heap.must_cancel
        /\ (heap'.state[g] = "PENDING" =>
               gathers[g].nfinished + 1 # Len(gathers[g].children))
    BY <1>3, <1>6, <1>10, <2>1, <2>2
  <2>4. Counts(gathers, gathers', g)
    BY <1>6, <1>10
  <2> QED
    BY <1>1, <1>3, <2>0, <2>3, <2>4, ReportCounts
<1> QED
  BY <1>2, <1>8, <1>9, <1>10

-----------------------------------------------------------------------------
(* Task._step_run *)

\* what the finally clause of wait_for does to the timers
TimersOff(q, r, time, t) ==
    /\ TimersOK(r, time) /\ TimersKept(q, r)
    /\ Len(r) = Len(q)
    /\ \A i \in 1 .. Len(q) : ~ Live(r[i].handle, t)
    /\ \A i \in 1 .. Len(q) : \A u : Live(r[i].handle, u) => Live(q[i].handle, u)

\* timer.cancel() changes nothing but the flag.
LEMMA DisarmTimers ==
    ASSUME NEW q, NEW time, TimersOK(q, time), NEW t
    PROVE  TimersOff(q, [i \in DOMAIN q |-> [q[i] EXCEPT !.handle = Disarmed(@, t)]], time, t)
<1> DEFINE r == [i \in DOMAIN q |-> [q[i] EXCEPT !.handle = Disarmed(@, t)]]
           n == Len(q)
<1>1. q \in Seq(Timer) /\ n \in Nat /\ DOMAIN q = 1 .. n
  BY DEF TimersOK
<1>2. ASSUME NEW i \in 1 .. n
      PROVE  /\ r[i] \in Timer /\ r[i].when = q[i].when /\ r[i].handle = Disarmed(q[i].handle, t)
             /\ q[i].handle \in Handle
  <2> DEFINE d == Disarmed(q[i].handle, t)
  <2>1. q[i] \in Timer
    BY <1>1
  <2>2. q[i].handle \in Handle
    BY <2>1 DEF Timer
  <2>3. d \in Handle
    BY <2>2, DisarmedIs
  <2>4. r[i] = [q[i] EXCEPT !.handle = d]
    BY <1>1
  <2> HIDE DEF d, r
  <2>5. r[i] \in Timer /\ r[i].when = q[i].when /\ r[i].handle = d
    BY <2>1, <2>3, <2>4 DEF Timer
  <2> QED
    BY <2>2, <2>5 DEF d
<1>3. r \in Seq(Timer) /\ Len(r) = n
  <2>1. r = [i \in 1 .. n |-> r[i]]
    BY <1>1
  <2>2. \A i \in 1 .. n : r[i] \in Timer
    BY <1>2
  <2> HIDE DEF r, n
  <2> QED
    BY <1>1, <2>1, <2>2
<1> HIDE DEF r
<1>4. ASSUME NEW i \in 1 .. n
      PROVE  /\ r[i].handle.call = q[i].handle.call /\ r[i].handle.of = q[i].handle.of
             /\ r[i].handle.arg = q[i].handle.arg
             /\ r[i].handle.cancelled => q[i].handle.cancelled \/ q[i].handle.call = "timeout"
             /\ q[i].handle.cancelled => r[i].handle.cancelled
             /\ q[i].handle.call = "timeout" /\ q[i].handle.of = t => r[i].handle.cancelled
  <2>1. r[i].handle = Disarmed(q[i].handle, t) /\ q[i].handle \in Handle
    BY <1>2
  <2> QED
    BY <2>1, DisarmedIs
<1>5. \A i \in 1 .. n : q[i].when > time /\ TimerOK(q[i].handle)
  BY DEF TimersOK
<1>6. \A i \in 1 .. n : r[i].when > time /\ TimerOK(r[i].handle)
  <2> SUFFICES ASSUME NEW i \in 1 .. n PROVE r[i].when > time /\ TimerOK(r[i].handle)
    OBVIOUS
  <2>1. r[i].when > time
    BY <1>2, <1>5
  <2>2. TimerOK(r[i].handle)
    BY <1>4, <1>5 DEF TimerOK
  <2> QED
    BY <2>1, <2>2
<1>7. Sorted(r)
  <2>1. Sorted(q)
    BY DEF TimersOK
  <2> QED
    BY <1>2, <1>3, <2>1 DEF Sorted
<1>8. TimersOK(r, time)
  BY <1>3, <1>6, <1>7 DEF TimersOK
<1>9. TimersKept(q, r)
  BY <1>2, <1>3, <1>4 DEF TimersKept, SameCall
<1>10. \A i \in 1 .. n : ~ Live(r[i].handle, t)
  BY <1>4 DEF Live
<1>11. \A i \in 1 .. n : \A u : Live(r[i].handle, u) => Live(q[i].handle, u)
  BY <1>4 DEF Live
<1>12. TimersOff(q, r, time, t)
  BY <1>3, <1>8, <1>9, <1>10, <1>11 DEF TimersOff
<1> QED
  BY <1>12 DEF r

\* b is the heap in which the coroutine of t goes on
Stepping(b, t) ==
    /\ t \in Task /\ PopDone(b) /\ HeapInv(b, gathers, t)
    /\ \A u \in Task : u # t => b.must_cancel[u] = heap.must_cancel[u]

\* The handle of t is popped, and _must_cancel and _fut_waiter are cleared.
LEMMA SteppingIs ==
    ASSUME IInv, running = Idle, todo > 0, Head(heap.ready).call \in {"step", "wakeup"},
           NEW t, t = Head(heap.ready).of, NEW h \in Heap,
           h.state = heap.state, h.failed = heap.failed, h.callbacks = heap.callbacks,
           h.must_cancel = heap.must_cancel, h.ready = Tail(heap.ready),
           \A x \in Task : x # t => h.fut_waiter[x] = heap.fut_waiter[x]
    PROVE  /\ Stepping([h EXCEPT !.must_cancel[t] = FALSE, !.fut_waiter[t] = None], t)
           /\ heap.state[t] = "PENDING"
<1> DEFINE b == [h EXCEPT !.must_cancel[t] = FALSE, !.fut_waiter[t] = None]
           M == [h.must_cancel EXCEPT ![t] = FALSE]
           W == [h.fut_waiter EXCEPT ![t] = None]
<1>1. b = [h EXCEPT !.must_cancel = M, !.fut_waiter = W]
  OBVIOUS
<1>2. PopDone(Popped)
  BY PoppedIs
<1>3. t \in Task
  BY <1>2, AwaitableFacts DEF PopDone, HandleOK
<1>4. /\ M \in [Task -> BOOLEAN] /\ W \in [Task -> Awaitable \cup {None}]
      /\ W[t] = None /\ \A x \in Task : x # t => W[x] = h.fut_waiter[x]
      /\ \A x \in Task : x # t => M[x] = h.must_cancel[x]
  BY <1>3, HeapFields
<1> HIDE DEF M, W, b
<1>5. b \in Heap
  BY <1>1, <1>4 DEF Heap
<1>6. /\ b.state = h.state /\ b.failed = h.failed /\ b.callbacks = h.callbacks
      /\ b.ready = h.ready /\ b.must_cancel = M /\ b.fut_waiter = W
  BY <1>1 DEF Heap
<1>7. /\ b.state = heap.state /\ b.failed = heap.failed /\ b.callbacks = heap.callbacks
      /\ b.ready = Tail(heap.ready) /\ b.fut_waiter[t] = None
      /\ \A x \in Task : x # t => b.fut_waiter[x] = heap.fut_waiter[x]
      /\ \A x \in Task : x # t => b.must_cancel[x] = heap.must_cancel[x]
  BY <1>4, <1>6
<1>8. PopDone(b)
  BY <1>5, <1>7, PopFacts
<1>9. HeapInv(heap, gathers, None) /\ gathers \in GathersType /\ heap.ready # <<>>
  BY <1>2 DEF IInv, Idle, PopDone
<1>10. HeapInv(b, gathers, t) /\ heap.state[t] = "PENDING"
  BY <1>5, <1>7, <1>9, PopTaskInv
<1>11. Stepping(b, t)
  BY <1>3, <1>7, <1>8, <1>10 DEF Stepping
<1> QED
  BY <1>10, <1>11 DEF b

\* The coroutine continues.
LEMMA ResumeStep ==
    ASSUME IInv, running = Idle, todo > 0, todo' = todo - 1,
           UNCHANGED <<gathers, now, stopping, stopped>>,
           NEW b, NEW t, Stepping(b, t),
           NEW thrown \in {"none", "cancelled", "error"},
           heap.must_cancel[t] => thrown # "none",
           Resume(b, t, thrown)
    PROVE  StepOK
<1> DEFINE r == [b EXCEPT !.ready = [i \in DOMAIN @ |-> Disarmed(@[i], t)]]
           q == [i \in DOMAIN scheduled |-> [scheduled[i] EXCEPT !.handle = Disarmed(@, t)]]
           co == [coro EXCEPT ![t].started = TRUE, ![t].wait_for = "no"]
           exc == IF coro[t].wait_for = "timed_out" /\ thrown = "cancelled"
                  THEN "timeout" ELSE thrown
<1>1. /\ heap' = r /\ scheduled' = q /\ coro' = co
      /\ running' = [task |-> t, thrown |-> exc]
  BY DEF Resume
<1>2. /\ t \in Task /\ PopDone(b) /\ HeapInv(b, gathers, t)
      /\ \A u \in Task : u # t => b.must_cancel[u] = heap.must_cancel[u]
  BY DEF Stepping
<1>3. /\ exc \in {"none", "cancelled", "error", "timeout"}
      /\ heap.must_cancel[t] => exc \in {"cancelled", "timeout", "error"}
  OBVIOUS
<1>4. CoroOK(co) /\ \A u \in Task : u # t => co[u] = coro[u]
  <2>1. CoroOK(coro)
    BY DEF IInv
  <2> QED
    BY <1>2, <2>1 DEF CoroOK
<1>5. gathers \in GathersType /\ TimersOK(scheduled, now)
  BY DEF IInv
<1>6. TimersOff(scheduled, q, now, t)
  BY <1>5, DisarmTimers
<1>7. /\ HeapInv(r, gathers, t) /\ Keeps(b, r) /\ r.must_cancel = b.must_cancel
      /\ Len(r.ready) = Len(b.ready)
      /\ \A i \in 1 .. Len(b.ready) : r.ready[i] = Disarmed(b.ready[i], t)
  <2>1. QueueOff(b, r, gathers, t, t)
    BY <1>2, <1>5, DisarmInv, Zenon
  <2> HIDE DEF r
  <2> QED
    BY <2>1, Zenon DEF QueueOff
<1> HIDE DEF r, q, co, exc
<1>8. /\ b \in Heap /\ PendingOK(b, gathers) /\ QueueDisarmed(b, coro)
      /\ Settled(heap, Main) => Settled(b, Main)
      /\ Len(b.ready) = Len(heap.ready) - 1
  BY <1>2 DEF PopDone
<1>9. PendingOK(r, gathers) /\ (Settled(b, Main) => Settled(r, Main))
  BY <1>7, <1>8 DEF Keeps, PendingOK, Settled
<1>10. QueueDisarmed(r, co)
  <2> SUFFICES ASSUME NEW u \in Task, co[u].wait_for = "no", NEW i \in 1 .. Len(r.ready),
                      Live(r.ready[i], u)
               PROVE  FALSE
    BY DEF QueueDisarmed
  <2>1. i \in 1 .. Len(b.ready) /\ r.ready[i] = Disarmed(b.ready[i], t)
    BY <1>7
  <2>2. b.ready[i] \in Handle
    <3>1. b.ready \in Seq(Handle)
      BY <1>8, HeapFields
    <3> QED
      BY <2>1, <3>1
  <2>3. /\ r.ready[i].call = b.ready[i].call /\ r.ready[i].of = b.ready[i].of
        /\ b.ready[i].cancelled => r.ready[i].cancelled
        /\ b.ready[i].call = "timeout" /\ b.ready[i].of = t => r.ready[i].cancelled
    BY <2>1, <2>2, DisarmedIs
  <2>4. u # t /\ Live(b.ready[i], u)
    BY <2>3 DEF Live
  <2> QED
    BY <1>4, <1>8, <2>1, <2>4 DEF QueueDisarmed
<1>11. TimersDisarmed(q, co)
  <2> SUFFICES ASSUME NEW u \in Task, co[u].wait_for = "no", NEW i \in 1 .. Len(q),
                      Live(q[i].handle, u)
               PROVE  FALSE
    BY DEF TimersDisarmed
  <2>1. i \in 1 .. Len(scheduled) /\ Live(scheduled[i].handle, u)
    BY <1>6 DEF TimersOff
  <2>2. u # t
    BY <1>6, <2>1 DEF TimersOff
  <2> QED
    BY <1>4, <2>1, <2>2 DEF IInv, TimersDisarmed
<1>12. RunningOK(running') /\ running'.task = t /\ running'.thrown = exc
  BY <1>1, <1>2, <1>3 DEF RunningOK
<1>13. IInv'
  <2>1. /\ gathers' \in GathersType /\ HeapInv(heap', gathers', running'.task)
        /\ PendingOK(heap', gathers') /\ CoroOK(coro')
        /\ QueueDisarmed(heap', coro') /\ TimersDisarmed(scheduled', coro')
    BY <1>1, <1>4, <1>5, <1>7, <1>9, <1>10, <1>11, <1>12
  <2>2. TimersOK(scheduled', now)
    BY <1>1, <1>6 DEF TimersOff
  <2>3. stopping' \in BOOLEAN /\ (stopping' => Settled(heap', Main))
    BY <1>1, <1>8, <1>9 DEF IInv, TurnOK
  <2>4. Len(heap.ready) - 1 <= Len(heap'.ready)
    <3>1. Len(heap.ready) \in Nat
      BY <1>2 DEF PopDone
    <3> QED
      BY <1>1, <1>7, <1>8, <3>1
  <2> QED
    BY <1>12, <2>1, <2>2, <2>3, <2>4, PopStep
<1>14. CancelStep
  BY <1>1, <1>2, <1>3, <1>7, <1>12 DEF CancelStep
<1>15. TimerStep
  BY <1>1, <1>6, ClockStands DEF TimersOff
<1> QED
  BY <1>13, <1>14, <1>15 DEF StepOK

\* The coroutine has not started, and the exception ends it.
LEMMA NeverStartedStep ==
    ASSUME IInv, running = Idle, todo > 0, todo' = todo - 1,
           UNCHANGED <<gathers, coro, running, scheduled, now, stopping, stopped>>,
           NEW b, NEW t, Stepping(b, t),
           NEW st \in {"CANCELLED", "FINISHED"}, NEW fl \in BOOLEAN,
           heap' = Resolve(b, t, st, fl)
    PROVE  StepOK
<1> DEFINE r == Resolve(b, t, st, fl)
<1>1. /\ t \in Task /\ PopDone(b) /\ HeapInv(b, gathers, t)
      /\ \A u \in Task : u # t => b.must_cancel[u] = heap.must_cancel[u]
  BY DEF Stepping
<1>2. gathers \in GathersType
  BY DEF IInv
<1>3. /\ HeapInv(r, gathers, None) /\ Onward(b, r) /\ r.state[t] = st
      /\ r.must_cancel = b.must_cancel
  BY <1>1, <1>2, ResolveTaskInv
<1>4. heap' = r
  OBVIOUS
<1> HIDE DEF r
<1>5. CancelStep
  BY <1>1, <1>3, <1>4 DEF CancelStep, Done
<1>6. CoroOK(coro') /\ stopping' \in BOOLEAN
  BY DEF IInv, TurnOK
<1> QED
  BY <1>1, <1>3, <1>4, <1>5, <1>6, PopOK

\* Task._step_run
LEMMA StepRunStep ==
    ASSUME IInv, running = Idle, todo > 0, todo' = todo - 1,
           UNCHANGED <<gathers, now, stopping, stopped>>,
           Head(heap.ready).call \in {"step", "wakeup"},
           NEW t, t = Head(heap.ready).of, NEW h \in Heap,
           h.state = heap.state, h.failed = heap.failed, h.callbacks = heap.callbacks,
           h.must_cancel = heap.must_cancel, h.ready = Tail(heap.ready),
           \A x \in Task : x # t => h.fut_waiter[x] = heap.fut_waiter[x],
           NEW exc \in {"none", "cancelled", "error"}, StepRun(h, t, exc)
    PROVE  StepOK
<1> DEFINE thrown == IF h.must_cancel[t] /\ exc = "none" THEN "cancelled" ELSE exc
           b == [h EXCEPT !.must_cancel[t] = FALSE, !.fut_waiter[t] = None]
<1>1. Stepping(b, t) /\ heap.state[t] = "PENDING"
  BY SteppingIs
<1>2. ~ Done(h, t)
  BY <1>1 DEF Done
<1>3. \/ Resume(b, t, thrown)
      \/ /\ heap' = IF thrown = "cancelled" THEN Resolve(b, t, "CANCELLED", FALSE)
                    ELSE Resolve(b, t, "FINISHED", TRUE)
         /\ UNCHANGED <<coro, running, scheduled>>
  BY <1>2 DEF StepRun
<1>4. thrown \in {"none", "cancelled", "error"} /\ (heap.must_cancel[t] => thrown # "none")
  OBVIOUS
<1> HIDE DEF thrown, b
<1>5. CASE Resume(b, t, thrown)
  BY <1>1, <1>4, <1>5, ResumeStep
<1>6. CASE /\ heap' = IF thrown = "cancelled" THEN Resolve(b, t, "CANCELLED", FALSE)
                      ELSE Resolve(b, t, "FINISHED", TRUE)
           /\ UNCHANGED <<coro, running, scheduled>>
  <2>1. ASSUME NEW st \in {"CANCELLED", "FINISHED"}, NEW fl \in BOOLEAN,
               heap' = Resolve(b, t, st, fl)
        PROVE  StepOK
    BY <1>1, <1>6, <2>1, NeverStartedStep
  <2>2. CASE thrown = "cancelled"
    <3> DEFINE st == "CANCELLED"
               fl == FALSE
    <3>1. heap' = Resolve(b, t, st, fl)
      BY <1>6, <2>2
    <3>2. st \in {"CANCELLED", "FINISHED"} /\ fl \in BOOLEAN
      OBVIOUS
    <3> HIDE DEF st, fl
    <3> QED
      BY <2>1, <3>1, <3>2
  <2>3. CASE thrown # "cancelled"
    <3> DEFINE st == "FINISHED"
               fl == TRUE
    <3>1. heap' = Resolve(b, t, st, fl)
      BY <1>6, <2>3
    <3>2. st \in {"CANCELLED", "FINISHED"} /\ fl \in BOOLEAN
      OBVIOUS
    <3> HIDE DEF st, fl
    <3> QED
      BY <2>1, <3>1, <3>2
  <2> QED
    BY <2>2, <2>3
<1> QED
  BY <1>3, <1>5, <1>6

\* A step of a task is popped.
LEMMA RunStepStep == IInv /\ RunStep => StepOK
<1> SUFFICES ASSUME IInv, RunStep PROVE StepOK
  OBVIOUS
<1> DEFINE t == Head(heap.ready).of
           exc == IF Head(heap.ready).arg = None THEN "none" ELSE "error"
<1>1. /\ Pops("step") /\ StepRun(Popped, t, exc) /\ UNCHANGED <<gathers, stopping>>
  BY DEF RunStep
<1>2. /\ running = Idle /\ todo > 0 /\ todo' = todo - 1 /\ UNCHANGED <<now, stopped>>
      /\ Head(heap.ready).call = "step"
  BY <1>1, PopsFacts
<1>3. PopDone(Popped) /\ Keeps(heap, Popped) /\ Popped.must_cancel = heap.must_cancel
  BY <1>2, PoppedIs
<1>4. exc \in {"none", "cancelled", "error"} /\ t = Head(heap.ready).of
  OBVIOUS
<1> HIDE DEF exc, t
<1>5. /\ Popped \in Heap /\ Popped.state = heap.state /\ Popped.failed = heap.failed
      /\ Popped.callbacks = heap.callbacks /\ Popped.ready = Tail(heap.ready)
      /\ \A x \in Task : x # t => Popped.fut_waiter[x] = heap.fut_waiter[x]
  BY <1>3 DEF PopDone, Keeps
<1> QED
  BY <1>1, <1>2, <1>3, <1>4, <1>5, StepRunStep

\* A wake-up of a task is popped.
LEMMA RunWakeupStep == IInv /\ RunWakeup => StepOK
<1> SUFFICES ASSUME IInv, RunWakeup PROVE StepOK
  OBVIOUS
<1> DEFINE t == Head(heap.ready).of
           exc == Outcome(heap, Head(heap.ready).arg)
           h == [Popped EXCEPT !.fut_waiter[t] = None]
           W == [Popped.fut_waiter EXCEPT ![t] = None]
<1>1. /\ Pops("wakeup") /\ StepRun(h, t, exc) /\ UNCHANGED <<gathers, stopping>>
  BY DEF RunWakeup
<1>2. /\ running = Idle /\ todo > 0 /\ todo' = todo - 1 /\ UNCHANGED <<now, stopped>>
      /\ Head(heap.ready).call = "wakeup"
  BY <1>1, PopsFacts
<1>3. PopDone(Popped) /\ Keeps(heap, Popped) /\ Popped.must_cancel = heap.must_cancel
  BY <1>2, PoppedIs
<1>4. exc \in {"none", "cancelled", "error"} /\ t = Head(heap.ready).of
  BY DEF Outcome
<1>5. t \in Task /\ Popped \in Heap
  BY <1>2, <1>3 DEF PopDone, HandleOK
<1>6. h = [Popped EXCEPT !.fut_waiter = W]
  OBVIOUS
<1> HIDE DEF exc, t, h
<1>7. /\ W \in [Task -> Awaitable \cup {None}]
      /\ \A x \in Task : x # t => W[x] = Popped.fut_waiter[x]
  BY <1>5, HeapFields
<1> HIDE DEF W
<1>8. h \in Heap
  BY <1>5, <1>6, <1>7 DEF Heap
<1>9. /\ h.state = Popped.state /\ h.failed = Popped.failed /\ h.callbacks = Popped.callbacks
      /\ h.ready = Popped.ready /\ h.must_cancel = Popped.must_cancel /\ h.fut_waiter = W
  BY <1>5, <1>6 DEF Heap
<1>10. /\ h.state = heap.state /\ h.failed = heap.failed /\ h.callbacks = heap.callbacks
       /\ h.must_cancel = heap.must_cancel /\ h.ready = Tail(heap.ready)
       /\ \A x \in Task : x # t => h.fut_waiter[x] = heap.fut_waiter[x]
  BY <1>3, <1>7, <1>9 DEF PopDone, Keeps
<1> QED
  BY <1>1, <1>2, <1>4, <1>8, <1>10, StepRunStep

-----------------------------------------------------------------------------
(* Turns of the loop *)

\* the first k timers are due
Due(q, time, k) ==
    /\ k \in 0 .. Len(q)
    /\ \A i \in 1 .. Len(q) : i <= k => q[i].when <= time
    /\ \A i \in 1 .. Len(q) : i > k => q[i].when > time

\* The loop over the sorted timers finds those that are due.
LEMMA DueByIs ==
    ASSUME IInv, NEW time \in Int
    PROVE  Due(scheduled, time, DueBy(time))
<1> DEFINE q == scheduled
           n == Len(q)
           P(k) == /\ \A i \in 1 .. k : q[i].when <= time
                   /\ k < n => q[k + 1].when > time
           S == {k \in 0 .. n : k < n => q[k + 1].when > time}
           d == CHOOSE k \in 0 .. n : P(k)
<1>1. q \in Seq(Timer) /\ n \in Nat /\ Sorted(q)
  BY DEF IInv, TimersOK
<1>2. \A j \in 1 .. n : q[j].when \in Int
  <2>1. \A j \in 1 .. n : q[j] \in Timer
    BY <1>1
  <2> QED
    BY <2>1, LoopAssumption DEF Timer
<1>3. DueBy(time) = d
  BY DEF DueBy
<1>4. \A i, j \in 1 .. n : i <= j => q[i].when <= q[j].when
  BY <1>1 DEF Sorted
<1> HIDE DEF n
<1>5. \E k \in 0 .. n : P(k)
  <2>1. S \in SUBSET Nat /\ S # {}
    <3>1. n \in S
      BY <1>1
    <3>2. \A k \in S : k \in Nat
      BY <1>1
    <3> QED
      BY <3>1, <3>2, Zenon
  <2>2. PICK m \in S : \A j \in S : m <= j
    <3> HIDE DEF S
    <3> QED
      BY <2>1, LeastIn
  <2>3. m \in 0 .. n /\ (m < n => q[m + 1].when > time)
    OBVIOUS
  <2>4. ASSUME NEW i \in 1 .. m PROVE q[i].when <= time
    <3> DEFINE p == i - 1
    <3>1. p \in 0 .. n /\ p < m /\ p + 1 = i /\ i \in 1 .. n /\ p < n
      BY <1>1, <2>3
    <3>2. p \notin S
      BY <2>2, <2>3, <3>1
    <3>3. ~ (q[p + 1].when > time)
      BY <3>1, <3>2
    <3> QED
      BY <1>2, <3>1, <3>3
  <2> QED
    BY <2>3, <2>4
<1>6. d \in 0 .. n /\ P(d)
  <2> HIDE DEF P
  <2> QED
    BY <1>5
<1>7. /\ \A i \in 1 .. d : q[i].when <= time
      /\ d < n => q[d + 1].when > time
  BY <1>6
<1> HIDE DEF d, P, q
<1>8. \A i \in 1 .. n : i <= d => q[i].when <= time
  BY <1>1, <1>6, <1>7
<1>9. ASSUME NEW i \in 1 .. n, i > d PROVE q[i].when > time
  <2> DEFINE e == d + 1
  <2>1. e \in 1 .. n /\ e <= i /\ d < n
    BY <1>1, <1>6, <1>9
  <2>2. q[e].when > time
    BY <1>7, <2>1
  <2> HIDE DEF e
  <2>3. q[e].when <= q[i].when /\ q[e].when \in Int /\ q[i].when \in Int
    BY <1>2, <1>4, <2>1
  <2> QED
    BY <2>2, <2>3
<1> QED
  BY <1>3, <1>6, <1>8, <1>9 DEF Due, n, q

\* A timer may stand in the queue.
LEMMA TimerInQueue ==
    ASSUME NEW h, NEW gs, NEW x, TimerOK(x)
    PROVE  x.call \notin Tokens /\ HandleOK(h, gs, x)
BY DEF TimerOK, HandleOK, Tokens

\* The timers that are due are appended to the queue.
LEMMA TimersInv ==
    ASSUME NEW h, NEW gs, gs \in GathersType, NEW rt, HeapInv(h, gs, rt),
           NEW u \in Seq(Handle), \A i \in 1 .. Len(u) : TimerOK(u[i])
    PROVE  LET r == [h EXCEPT !.ready = @ \o u]
           IN  /\ HeapInv(r, gs, rt) /\ Keeps(h, r) /\ r.must_cancel = h.must_cancel
               /\ r.ready = h.ready \o u
<1> DEFINE Q == h.ready \o u
           r == [h EXCEPT !.ready = @ \o u]
<1>0. h \in Heap /\ Body(h, gs)
  BY DEF HeapInv, Body
<1>1. r = [h EXCEPT !.ready = Q]
  OBVIOUS
<1>2. Q \in Seq(Handle)
  BY <1>0, HeapFields
<1>3. Q = h.ready \o u
  OBVIOUS
<1> HIDE DEF Q, r
<1>4. r \in Heap
  BY <1>0, <1>1, <1>2 DEF Heap
<1>5. /\ r.state = h.state /\ r.failed = h.failed /\ r.callbacks = h.callbacks
      /\ r.fut_waiter = h.fut_waiter /\ r.must_cancel = h.must_cancel /\ r.ready = Q
  BY <1>0, <1>1 DEF Heap
<1>6. Keeps(h, r) /\ r.ready = h.ready \o u
  BY <1>3, <1>5 DEF Keeps
<1>7. \A i \in 1 .. Len(u) : u[i].call \notin Tokens /\ HandleOK(h, gs, u[i])
  BY TimerInQueue
<1>8. Body(r, gs) /\ SameTokens(h, r)
  BY <1>0, <1>4, <1>6, <1>7, TimersBody
<1>9. TasksOK(r, rt)
  BY <1>5, <1>8, TasksKeep DEF HeapInv
<1>10. GathersOK(r, gs)
  <2>1. \A g \in Gathering : \A k : Has(r, g, k) <=> Has(h, g, k)
    BY <1>8 DEF SameTokens
  <2>2. \A y \in Awaitable : Good(h, y) => Good(r, y)
    BY <1>5 DEF Good
  <2> QED
    BY <1>5, <2>1, <2>2, GathersKeep DEF HeapInv
<1> QED
  BY <1>5, <1>6, <1>8, <1>9, <1>10 DEF HeapInv, r

\* The start of _run_once.
LEMMA BeginTurnStep ==
    ASSUME IInv, NEW time \in now .. MaxTime, BeginTurn(time)
    PROVE  StepOK
<1> DEFINE d == DueBy(time)
           n == Len(scheduled)
           m == Len(heap.ready)
           u == [i \in 1 .. d |-> scheduled[i].handle]
           q == SubSeq(scheduled, d + 1, n)
           r == [heap EXCEPT !.ready = @ \o u]
<1>1. /\ running = Idle /\ ~ stopping /\ ~ stopped
      /\ now' = time /\ heap' = r /\ scheduled' = q /\ todo' = Len(heap'.ready)
      /\ UNCHANGED <<gathers, coro, running, stopping, stopped>>
  BY DEF BeginTurn
<1>2. time \in 0 .. MaxTime /\ time \in Int
  BY LoopAssumption DEF IInv
<1>3. Due(scheduled, time, d)
  BY <1>2, DueByIs
<1>4. /\ scheduled \in Seq(Timer) /\ n \in Nat /\ Sorted(scheduled)
      /\ \A i \in 1 .. n : TimerOK(scheduled[i].handle) /\ scheduled[i] \in Timer
  BY DEF IInv, TimersOK
<1>5. /\ d \in 0 .. n
      /\ \A i \in 1 .. n : i <= d => scheduled[i].when <= time
      /\ \A i \in 1 .. n : i > d => scheduled[i].when > time
  BY <1>3 DEF Due
<1> HIDE DEF d
<1>6. /\ u \in Seq(Handle) /\ Len(u) = d
      /\ \A i \in 1 .. d : i \in 1 .. n /\ u[i] = scheduled[i].handle
  <2>1. \A i \in 1 .. d : i \in 1 .. n
    BY <1>4, <1>5
  <2>2. \A i \in 1 .. d : scheduled[i].handle \in Handle
    BY <1>4, <2>1 DEF Timer
  <2> HIDE DEF n
  <2> QED
    BY <1>4, <1>5, <2>1, <2>2
<1>7. /\ q \in Seq(Timer) /\ Len(q) = n - d
      /\ \A i \in 1 .. n - d : d + i \in 1 .. n /\ q[i] = scheduled[d + i]
  BY <1>4, <1>5
<1> HIDE DEF u, q, n
<1>8. HeapInv(heap, gathers, None) /\ gathers \in GathersType /\ heap \in Heap
  BY <1>1 DEF IInv, Idle, HeapInv, Body
<1>9. /\ HeapInv(r, gathers, None) /\ Keeps(heap, r) /\ r.must_cancel = heap.must_cancel
      /\ r.ready = heap.ready \o u
  <2>1. \A i \in 1 .. Len(u) : TimerOK(u[i])
    BY <1>4, <1>6
  <2> QED
    BY <1>6, <1>8, <2>1, TimersInv
<1> HIDE DEF r
<1>10. /\ m \in Nat /\ Len(r.ready) = m + d
       /\ \A i \in 1 .. m : r.ready[i] = heap.ready[i]
       /\ \A j \in 1 .. d : r.ready[m + j] = u[j]
  <2>1. heap.ready \in Seq(Handle) /\ u \in Seq(Handle)
    BY <1>6, <1>8, HeapFields
  <2>2. /\ Len(heap.ready \o u) = Len(heap.ready) + Len(u)
        /\ \A i \in 1 .. Len(heap.ready) : (heap.ready \o u)[i] = heap.ready[i]
        /\ \A j \in 1 .. Len(u) : (heap.ready \o u)[Len(heap.ready) + j] = u[j]
    BY <2>1, ConcatPlaces
  <2>3. m \in Nat
    BY <2>1
  <2> QED
    BY <1>6, <1>9, <2>2, <2>3
<1> HIDE DEF m
<1>11. PendingOK(r, gathers)
  BY <1>9 DEF IInv, PendingOK, Keeps
<1>12. QueueDisarmed(r, coro)
  <2> SUFFICES ASSUME NEW t \in Task, coro[t].wait_for = "no", NEW i \in 1 .. Len(r.ready)
               PROVE  ~ Live(r.ready[i], t)
    BY DEF QueueDisarmed
  <2>1. CASE i <= m
    <3>1. i \in 1 .. m
      BY <1>10, <2>1
    <3> QED
      BY <1>10, <3>1 DEF IInv, QueueDisarmed, m
  <2>2. CASE i > m
    <3> DEFINE j == i - m
    <3>1. j \in 1 .. d /\ m + j = i
      BY <1>5, <1>10, <2>2
    <3> HIDE DEF j
    <3>2. r.ready[i] = scheduled[j].handle /\ j \in 1 .. n
      BY <1>6, <1>10, <3>1
    <3> QED
      BY <3>2 DEF IInv, TimersDisarmed, n
  <2> QED
    BY <1>10, <2>1, <2>2
<1>13. TimersOK(q, time)
  <2>1. \A i \in 1 .. n - d : q[i].when > time /\ TimerOK(q[i].handle)
    <3> SUFFICES ASSUME NEW i \in 1 .. n - d
                 PROVE  q[i].when > time /\ TimerOK(q[i].handle)
      OBVIOUS
    <3>1. d + i \in 1 .. n /\ q[i] = scheduled[d + i] /\ d + i > d
      BY <1>4, <1>5, <1>7
    <3> QED
      BY <1>4, <1>5, <3>1
  <2>2. Sorted(q)
    <3> SUFFICES ASSUME NEW i \in 1 .. n - d, NEW j \in 1 .. n - d, i <= j
                 PROVE  q[i].when <= q[j].when
      BY <1>7 DEF Sorted
    <3>1. /\ d + i \in 1 .. n /\ q[i] = scheduled[d + i]
          /\ d + j \in 1 .. n /\ q[j] = scheduled[d + j] /\ d + i <= d + j
      BY <1>4, <1>5, <1>7
    <3> QED
      BY <1>4, <3>1 DEF Sorted, n
  <2> QED
    BY <1>7, <2>1, <2>2 DEF TimersOK
<1>14. TimersDisarmed(q, coro)
  <2> SUFFICES ASSUME NEW t \in Task, coro[t].wait_for = "no", NEW i \in 1 .. Len(q)
               PROVE  ~ Live(q[i].handle, t)
    BY DEF TimersDisarmed
  <2>1. d + i \in 1 .. n /\ q[i] = scheduled[d + i]
    BY <1>7
  <2> QED
    BY <2>1 DEF IInv, TimersDisarmed, n
<1>15. TurnOK(r, running, q, Len(r.ready), stopping, stopped)
  <2>1. Len(r.ready) \in 0 .. Len(r.ready)
    BY <1>5, <1>10, <1>4
  <2> QED
    BY <1>1, <2>1 DEF IInv, TurnOK
<1>16. IInv'
  <2>1. HeapInv(heap', gathers', running'.task)
    BY <1>1, <1>9 DEF Idle
  <2> QED
    BY <1>1, <1>2, <1>8, <1>11, <1>12, <1>13, <1>14, <1>15, <2>1 DEF IInv
<1>17. CancelStep
  BY <1>1, <1>9, RequestStays
<1>18. TimerStep
  <2> SUFFICES ASSUME NEW i \in 1 .. n
               PROVE  IF scheduled[i].when <= time
                      THEN \E j \in 1 .. Len(r.ready) :
                              SameCall(r.ready[j], scheduled[i].handle)
                      ELSE \E j \in 1 .. Len(q) :
                              /\ q[j].when = scheduled[i].when
                              /\ SameCall(q[j].handle, scheduled[i].handle)
    BY <1>1 DEF TimerStep, n
  <2>0. scheduled[i].when \in Int
    BY <1>4, LoopAssumption DEF Timer
  <2>1. CASE i <= d
    <3> DEFINE j == m + i
    <3>1. i \in 1 .. d /\ j \in 1 .. Len(r.ready)
      BY <1>4, <1>5, <1>10, <2>1
    <3>2. r.ready[j] = scheduled[i].handle
      BY <1>6, <1>10, <3>1
    <3> HIDE DEF j
    <3>3. scheduled[i].when <= time
      BY <1>5, <2>1
    <3> QED
      BY <3>1, <3>2, <3>3 DEF SameCall
  <2>2. CASE i > d
    <3> DEFINE j == i - d
    <3>1. j \in 1 .. n - d /\ d + j = i
      BY <1>4, <1>5, <2>2
    <3> HIDE DEF j
    <3>2. q[j] = scheduled[i] /\ j \in 1 .. Len(q)
      BY <1>7, <3>1
    <3>3. ~ (scheduled[i].when <= time)
      BY <1>2, <1>5, <2>0, <2>2
    <3> QED
      BY <3>2, <3>3 DEF SameCall
  <2> QED
    BY <1>4, <1>5, <2>1, <2>2
<1> QED
  BY <1>16, <1>17, <1>18 DEF StepOK

\* Nothing changes but the two flags of the loop.
LEMMA FlagStep ==
    ASSUME IInv, UNCHANGED <<heap, gathers, coro, running, scheduled, todo, now>>,
           TurnOK(heap, running, scheduled, todo, stopping', stopped')
    PROVE  StepOK
<1>1. IInv'
  BY DEF IInv
<1>2. CancelStep
  BY RequestStays
<1>3. TimerStep
  BY TimersKeptRefl, ClockStands
<1> QED
  BY <1>1, <1>2, <1>3 DEF StepOK

\* run_until_complete leaves its loop.
LEMMA StopLoopStep == IInv /\ StopLoop => StepOK
<1> SUFFICES ASSUME IInv, StopLoop PROVE StepOK
  OBVIOUS
<1>1. /\ running = Idle /\ todo = 0
      /\ stopping \/ (heap.ready = <<>> /\ scheduled = <<>>)
      /\ stopped' = TRUE /\ stopping' = FALSE
      /\ UNCHANGED <<heap, gathers, coro, running, scheduled, todo, now>>
  BY DEF StopLoop
<1>2. /\ stopped' \in BOOLEAN /\ stopping' \in BOOLEAN /\ ~ stopping'
  BY <1>1
<1>3. todo \in 0 .. Len(heap.ready) /\ (stopping => Settled(heap, Main))
  BY DEF IInv, TurnOK
<1>4. TurnOK(heap, running, scheduled, todo, stopping', stopped')
  BY <1>1, <1>2, <1>3 DEF TurnOK
<1> QED
  BY <1>1, <1>4, FlagStep

\* A step that changes nothing.
LEMMA StutterStep ==
    ASSUME IInv, UNCHANGED vars
    PROVE  StepOK
<1>1. /\ UNCHANGED <<heap, gathers, coro, running, scheduled, todo, now>>
      /\ UNCHANGED <<stopping, stopped>>
  BY DEF vars
<1>2. TurnOK(heap, running, scheduled, todo, stopping', stopped')
  BY <1>1 DEF IInv
<1> QED
  BY <1>1, <1>2, FlagStep

-----------------------------------------------------------------------------
(* The theorems *)

\* Every step keeps the invariant, loses no request to cancel and takes the
\* timers on time.
LEMMA NextStep ==
    ASSUME IInv, [Next]_vars
    PROVE  StepOK
<1>1. CASE LoopStep
  <2>1. ASSUME NEW time \in now .. MaxTime, BeginTurn(time) PROVE StepOK
    BY <2>1, BeginTurnStep
  <2> QED
    BY <1>1, <2>1, RunStepStep, RunWakeupStep, RunGatherDoneStep, RunSetResultStep,
       RunTimeoutStep, RunStopStep, SkipCancelledStep, StopLoopStep DEF LoopStep
<1>2. CASE CoroutineCalls
  <2>1. ASSUME NEW f \in Future, CreateFuture(f) PROVE StepOK
    BY <2>1, CreateFutureStep
  <2>2. ASSUME NEW t \in Task, CreateTask(t) PROVE StepOK
    BY <2>2, CreateTaskStep
  <2>3. ASSUME NEW g \in Gathering, NEW n \in 1 .. MaxChildren,
               NEW children \in [1 .. n -> Awaitable], Gather(g, children)
        PROVE  StepOK
    BY <2>3, GatherStep
  <2>4. ASSUME NEW f \in Future, NEW failed \in BOOLEAN, SetOutcome(f, failed) PROVE StepOK
    BY <2>4, SetOutcomeStep
  <2>5. ASSUME NEW f \in Awaitable, CallCancel(f) PROVE StepOK
    BY <2>5, CallCancelStep
  <2> QED
    BY <1>2, <2>1, <2>2, <2>3, <2>4, <2>5 DEF CoroutineCalls
<1>3. CASE CoroutineEnds
  <2>1. ASSUME NEW cancelled \in BOOLEAN, Raise(cancelled) PROVE StepOK
    BY <2>1, RaiseStep
  <2>2. ASSUME NEW f \in Awaitable, Await(f) PROVE StepOK
    BY <2>2, AwaitStep
  <2>3. ASSUME NEW f \in Future, NEW delay \in Delay, Sleep(f, delay) PROVE StepOK
    BY <2>3, SleepStep
  <2>4. ASSUME NEW f \in Awaitable, NEW delay \in Delay, WaitFor(f, delay) PROVE StepOK
    BY <2>4, WaitForStep
  <2> QED
    BY <1>3, <2>1, <2>2, <2>3, <2>4, ReturnStep, YieldStep DEF CoroutineEnds
<1>4. CASE Stopped \/ UNCHANGED vars
  BY <1>4, StutterStep DEF Stopped
<1> QED
  BY <1>1, <1>2, <1>3, <1>4 DEF Next

\* The inductive invariant holds in every reachable state of the loop: every
\* token - the right to resume a task, the report of a child - is in exactly
\* one place (Future._schedule_callbacks, Task._step_run, _run_once).
THEOREM LoopInvariant == Spec => []IInv
<1>1. Init => IInv
  BY InitInv
<1>2. IInv /\ [Next]_vars => IInv'
  BY NextStep DEF StepOK
<1> QED
  BY <1>1, <1>2, PTL DEF Spec

\* The state of futures, tasks, the queue, the timers and the clock has its
\* type in every reachable state, for any tasks, futures, gathers and delays;
\* in particular a turn never pops from an empty queue (_run_once).
THEOREM LoopTypeCorrect == Spec => []TypeOK
<1>1. Spec => []IInv
  BY LoopInvariant
<1>2. IInv => TypeOK
  BY InvType
<1> QED
  BY <1>1, <1>2, PTL

\* A pending task has exactly one way to be resumed and a finished task none,
\* whatever cancellations, timeouts and completions race, through any number
\* of nested awaits and gathers (Task._step_run, _wakeup, cancel).
THEOREM ResumedOnce == Spec => []OneResumption
<1>1. Spec => []IInv
  BY LoopInvariant
<1>2. IInv => OneResumption
  BY InvOne
<1> QED
  BY <1>1, <1>2, PTL

\* _fut_waiter names the future that will really wake the task, so that a
\* cancellation always reaches the await point (Task.cancel, _wakeup).
THEOREM WaiterAlwaysWakes == Spec => []WaiterWillWake
<1>1. Spec => []IInv
  BY LoopInvariant
<1>2. IInv => WaiterWillWake
  BY InvWake
<1> QED
  BY <1>1, <1>2, PTL

\* When wait_for is over no live timer of it is left, queued or scheduled, so
\* that a late timeout cancels nothing (the finally clause of wait_for).
THEOREM TimeoutsDisarmed == Spec => []TimeoutDisarmed
<1>1. Spec => []IInv
  BY LoopInvariant
<1>2. IInv => TimeoutDisarmed
  BY InvDisarmed
<1> QED
  BY <1>1, <1>2, PTL

\* run_until_complete raises "Event loop stopped before Future completed" only
\* when nothing can ever run again.
THEOREM GivesUpOnlyWhenStuck == Spec => []GivesUpOnlyStuck
<1>1. Spec => []IInv
  BY LoopInvariant
<1>2. IInv => GivesUpOnlyStuck
  BY InvStuck
<1> QED
  BY <1>1, <1>2, PTL

\* A gather yields results only when each child has one, and a pending gather
\* still has a pending child or a report to take, for any number of children
\* and also when a child is given twice (_GatheringFuture._done).
THEOREM GathersFaithful == Spec => []GatherFaithful
<1>1. Spec => []IInv
  BY LoopInvariant
<1>2. IInv => GatherFaithful
  BY InvGather
<1> QED
  BY <1>1, <1>2, PTL

\* A recorded request to cancel is thrown into the coroutine, handed on to what
\* the task waits for, or finds the task done (Task.cancel, _step_run).
THEOREM CancelNotLost == Spec => CancelIsNotLost
<1>1. Spec => []IInv
  BY LoopInvariant
<1>2. IInv /\ [Next]_vars => CancelStep
  BY NextStep DEF StepOK
<1>3. CancelStep =>
        [\A t \in Task :
            heap.must_cancel[t] /\ ~ heap'.must_cancel[t] =>
                \/ running'.task = t
                   /\ running'.thrown \in {"cancelled", "timeout", "error"}
                \/ Done(heap', t)
                \/ heap'.fut_waiter[t] # None
                   /\ CancelReached(heap', heap'.fut_waiter[t])]_vars
  BY DEF CancelStep
<1> QED
  BY <1>1, <1>2, <1>3, PTL DEF Spec, CancelIsNotLost

\* One step takes the timers on time, as TimersOnTime words it.
LEMMA TimerStepIs ==
    ASSUME IInv, IInv', TimerStep
    PROVE  \A i \in DOMAIN scheduled :
              LET timer == scheduled[i]
                  Same(handle) ==
                      handle.call = timer.handle.call /\ handle.of = timer.handle.of
              IN  IF timer.when <= now'
                  THEN \E j \in DOMAIN heap'.ready : Same(heap'.ready[j])
                  ELSE \E j \in DOMAIN scheduled' :
                          scheduled'[j].when = timer.when /\ Same(scheduled'[j].handle)
<1>1. scheduled \in Seq(Timer) /\ scheduled' \in Seq(Timer) /\ heap'.ready \in Seq(Handle)
  <2>1. heap' \in Heap
    BY DEF IInv, HeapInv, Body
  <2> QED
    BY <2>1, HeapFields DEF IInv, TimersOK
<1>2. /\ DOMAIN scheduled = 1 .. Len(scheduled) /\ DOMAIN scheduled' = 1 .. Len(scheduled')
      /\ DOMAIN heap'.ready = 1 .. Len(heap'.ready)
  BY <1>1
<1> QED
  BY <1>2 DEF TimerStep, SameCall

\* A timer is handed to the queue in the turn that finds its deadline passed,
\* neither earlier nor later, for any timers set in any order (call_at,
\* _run_once).
THEOREM TimersAlwaysOnTime == Spec => TimersOnTime
<1>1. Spec => []IInv
  BY LoopInvariant
<1>2. IInv /\ IInv' /\ [Next]_vars =>
        [\A i \in DOMAIN scheduled :
            LET timer == scheduled[i]
                Same(handle) == handle.call = timer.handle.call /\ handle.of = timer.handle.of
            IN  IF timer.when <= now'
                THEN \E j \in DOMAIN heap'.ready : Same(heap'.ready[j])
                ELSE \E j \in DOMAIN scheduled' :
                        scheduled'[j].when = timer.when /\ Same(scheduled'[j].handle)]_vars
  BY NextStep, TimerStepIs DEF StepOK
<1> QED
  BY <1>1, <1>2, PTL DEF Spec, TimersOnTime
=============================================================================
