------------------------------ MODULE EventLoop ------------------------------
(***************************************************************************)
(* The asyncio event loop of pyrust (builtin_modules/bodies/asyncio_py.py):*)
(* futures and their done-callbacks, tasks that drive a coroutine, gather, *)
(* sleep, wait_for, cancellation, the ready queue and the timers.          *)
(*                                                                         *)
(* Everything runs on one thread, so the interleaving is the order of the  *)
(* ready queue.  What a coroutine does between two suspensions is chosen   *)
(* freely: it may call any operation of this module any number of times    *)
(* and then returns, raises, or awaits.  It never awaits itself, directly  *)
(* or through others, and resolves only futures it made with Future().     *)
(***************************************************************************)
EXTENDS Integers, FiniteSets, SequencesExt

CONSTANTS
    Task, Main,     \* tasks, and the one asyncio.run drives
    Future,         \* plain futures, the ones inside sleep() included
    Gathering,      \* futures returned by gather
    None,
    Delay,          \* delays given to sleep and wait_for
    MaxTime,        \* bound: no timer is set beyond this time
    MaxChildren     \* bound: no gather has more children

Awaitable == Task \cup Future \cup Gathering

ASSUME LoopAssumption ==
    /\ IsFiniteSet(Awaitable)
    /\ Main \in Task
    /\ Task \cap Future = {} /\ Gathering \cap (Task \cup Future) = {}
    /\ None \notin Awaitable
    /\ Delay \subseteq Nat \ {0}
    /\ MaxTime \in Nat /\ MaxChildren \in Nat

VARIABLES
    heap,        \* futures, tasks and the ready queue
    gathers,     \* children and number of finished children
    coro,        \* what the loop cannot see of a coroutine
    running,     \* the task being stepped and the exception thrown into it
    scheduled,   \* timers, sorted by deadline
    todo,        \* handles still to run in this turn
    now,         \* the monotonic clock, read once per turn
    stopping, stopped

vars == <<heap, gathers, coro, running, scheduled, todo, now, stopping, stopped>>

\* index is the position of the child that a callback of gather reports on
Callback == [call : {"wakeup", "gather_done", "stop"}, of : Awaitable, index : Nat]

Handle == [call : {"step", "wakeup", "gather_done", "stop", "set_result", "timeout"},
           of : Awaitable, index : Nat, arg : Awaitable \cup {None, "RuntimeError"},
           cancelled : BOOLEAN]

Heap == [state : [Awaitable -> {"UNBORN", "PENDING", "CANCELLED", "FINISHED"}],
         failed : [Awaitable -> BOOLEAN],
         callbacks : [Awaitable -> Seq(Callback)],
         fut_waiter : [Task -> Awaitable \cup {None}],
         must_cancel : [Task -> BOOLEAN],
         hidden : SUBSET Future,
         ready : Seq(Handle)]

Idle == [task |-> None, thrown |-> "none"]

TypeOK ==
    /\ heap \in Heap
    /\ gathers \in [Gathering -> [children : Seq(Awaitable), nfinished : Nat]]
    /\ coro \in [Task -> [started : BOOLEAN, wait_for : {"no", "armed", "timed_out"}]]
    /\ running \in [task : Task \cup {None},
                    thrown : {"none", "cancelled", "error", "timeout"}]
    /\ scheduled \in Seq([when : 0 .. MaxTime, handle : Handle])
    /\ todo \in 0 .. Len(heap.ready)
    /\ now \in 0 .. MaxTime
    /\ stopping \in BOOLEAN /\ stopped \in BOOLEAN

-----------------------------------------------------------------------------
(* Futures *)

Done(h, f) == h.state[f] # "PENDING"

NewHandle(call, of, index, arg) ==
    [call |-> call, of |-> of, index |-> index, arg |-> arg, cancelled |-> FALSE]

CallSoon(h, handle) == [h EXCEPT !.ready = Append(@, handle)]

\* mutant: the callbacks stay registered after they are scheduled
ResolveKeepingCallbacks(h, f, state, failed) ==
    LET cbs == h.callbacks[f]
    IN  [h EXCEPT !.state[f] = state, !.failed[f] = failed,
                  !.ready = @ \o [i \in DOMAIN cbs |->
                                    NewHandle(cbs[i].call, cbs[i].of, cbs[i].index, f)]]

\* mutant: Future.cancel forgets _schedule_callbacks
ResolveCancelSilently(h, f, state, failed) ==
    LET cbs == IF state = "CANCELLED" THEN <<>> ELSE h.callbacks[f]
    IN  [h EXCEPT !.state[f] = state, !.failed[f] = failed, !.callbacks[f] = <<>>,
                  !.ready = @ \o [i \in DOMAIN cbs |->
                                    NewHandle(cbs[i].call, cbs[i].of, cbs[i].index, f)]]

\* set_result, set_exception and Future.cancel: the state changes and
\* _schedule_callbacks hands every callback to the loop
Resolve(h, f, state, failed) ==
    LET cbs == h.callbacks[f]
    IN  [h EXCEPT !.state[f] = state, !.failed[f] = failed, !.callbacks[f] = <<>>,
                  !.ready = @ \o [i \in DOMAIN cbs |->
                                    NewHandle(cbs[i].call, cbs[i].of, cbs[i].index, f)]]

AddDoneCallback(h, f, callback) ==
    IF Done(h, f)
    THEN CallSoon(h, NewHandle(callback.call, callback.of, callback.index, f))
    ELSE [h EXCEPT !.callbacks[f] = Append(@, callback)]

\* what future.result() raises
Outcome(h, f) == CASE h.state[f] = "CANCELLED" -> "cancelled"
                   [] h.state[f] # "CANCELLED" /\ h.failed[f] -> "error"
                   [] OTHER -> "none"

\* the loop of _GatheringFuture.cancel; F is cancel on the children
CancelChild(F, done, child) ==
    LET c == F[<<done.heap, child>>]
    IN  [heap |-> c.heap, ret |-> done.ret \/ c.ret]

CancelChildren(F, h, children) ==
    LET upTo[i \in 0 .. Len(children)] ==
          IF i = 0 THEN [heap |-> h, ret |-> FALSE]
          ELSE CancelChild(F, upTo[i - 1], children[i])
    IN  upTo[Len(children)]

\* Task.cancel; F is cancel on the awaited future
CancelTask(F, h, t) ==
    LET waiter == h.fut_waiter[t]
        inner == IF waiter = None THEN [heap |-> h, ret |-> FALSE] ELSE F[<<h, waiter>>]
    IN  IF inner.ret THEN inner
        ELSE [heap |-> [inner.heap EXCEPT !.must_cancel[t] = TRUE], ret |-> TRUE]

\* Future.cancel, Task.cancel and _GatheringFuture.cancel: the new heap and
\* the value returned
CancelWith(F, h, f) ==
    IF Done(h, f) THEN [heap |-> h, ret |-> FALSE]
    ELSE CASE f \in Future -> [heap |-> Resolve(h, f, "CANCELLED", FALSE), ret |-> TRUE]
           [] f \in Task -> CancelTask(F, h, f)
           [] f \in Gathering -> CancelChildren(F, h, gathers[f].children)

CancelOver(F) == [x \in Heap \X Awaitable |-> CancelWith(F, x[1], x[2])]

\* cancel() along at most n awaits
CancelTo[n \in 0 .. Cardinality(Awaitable)] ==
    IF n = 0 THEN [x \in Heap \X Awaitable |-> [heap |-> x[1], ret |-> FALSE]]
    ELSE CancelOver(CancelTo[n - 1])

\* f.cancel(): nobody awaits itself, so that no chain of awaits is longer
\* than the number of futures
Cancel(h, f) == CancelTo[Cardinality(Awaitable)][<<h, f>>]

\* what cancel() of f passes the request on to
Awaited(h, f) ==
    CASE f \in Gathering -> Range(gathers[f].children)
      [] f \in Task /\ h.fut_waiter[f] # None -> {h.fut_waiter[f]}
      [] OTHER -> {}

\* the awaitables a cancellation of f may reach
WaitsFor(h, f) ==
    {g \in Awaitable :
        \A S \in SUBSET Awaitable :
            f \in S /\ (\A x \in S : Awaited(h, x) \subseteq S) => g \in S}

-----------------------------------------------------------------------------
(* Stepping a task *)

\* mutant: wait_for has no finally clause
NeverDisarmed(handle, t) == handle

\* timer.cancel() in the finally clause of wait_for
Disarmed(handle, t) ==
    IF handle.call = "timeout" /\ handle.of = t
    THEN [handle EXCEPT !.cancelled = TRUE] ELSE handle

\* the coroutine continues; a wait_for it was in ends first
Resume(h, t, thrown) ==
    LET wf == coro[t].wait_for
    IN  /\ running' = [task |-> t,
                       thrown |-> IF wf = "timed_out" /\ thrown = "cancelled"
                                  THEN "timeout" ELSE thrown]
        /\ coro' = [coro EXCEPT ![t].started = TRUE, ![t].wait_for = "no"]
        /\ heap' = [h EXCEPT !.ready = [i \in DOMAIN @ |-> Disarmed(@[i], t)]]
        /\ scheduled' = [i \in DOMAIN scheduled |->
                           [scheduled[i] EXCEPT !.handle = Disarmed(@, t)]]

\* Task._step_run; an exception thrown into a coroutine that has not started
\* ends it at once
StepRun(h, t, exc) ==
    LET thrown == IF h.must_cancel[t] /\ exc = "none" THEN "cancelled" ELSE exc
        h1 == [h EXCEPT !.must_cancel[t] = FALSE, !.fut_waiter[t] = None]
    IN  IF Done(h, t)
        THEN heap' = h /\ UNCHANGED <<coro, running, scheduled>>
        ELSE IF coro[t].started \/ thrown = "none" THEN Resume(h1, t, thrown)
        ELSE /\ heap' = IF thrown = "cancelled" THEN Resolve(h1, t, "CANCELLED", FALSE)
                        ELSE Resolve(h1, t, "FINISHED", TRUE)
             /\ UNCHANGED <<coro, running, scheduled>>

WakeupOf(t) == [call |-> "wakeup", of |-> t, index |-> 0]

\* mutant: the request counts as handed on although the future refused it
SuspendForgetsCancel(h, t, f) ==
    LET h1 == AddDoneCallback([h EXCEPT !.fut_waiter[t] = f], f, WakeupOf(t))
    IN  IF h1.must_cancel[t]
        THEN [Cancel(h1, f).heap EXCEPT !.must_cancel[t] = FALSE] ELSE h1

\* _wakeup is registered on the awaited future; a cancel() that arrived in
\* this step goes on to that future
Suspend(h, t, f) ==
    LET h1 == AddDoneCallback([h EXCEPT !.fut_waiter[t] = f], f, WakeupOf(t))
        c == Cancel(h1, f)
    IN  CASE h1.must_cancel[t] /\ c.ret -> [c.heap EXCEPT !.must_cancel[t] = FALSE]
          [] h1.must_cancel[t] /\ ~ c.ret -> c.heap
          [] OTHER -> h1

-----------------------------------------------------------------------------
(* One handle of the current turn *)

\* _run_once pops the next handle
Pops(call) ==
    /\ running = Idle /\ todo > 0
    /\ Head(heap.ready).call = call
    /\ ~ Head(heap.ready).cancelled
    /\ todo' = todo - 1
    /\ UNCHANGED <<now, stopped>>

Popped == [heap EXCEPT !.ready = Tail(@)]

RunStep ==
    /\ Pops("step")
    /\ StepRun(Popped, Head(heap.ready).of,
               IF Head(heap.ready).arg = None THEN "none" ELSE "error")
    /\ UNCHANGED <<gathers, stopping>>

\* Task._wakeup
RunWakeup ==
    LET t == Head(heap.ready).of
    IN  /\ Pops("wakeup")
        /\ StepRun([Popped EXCEPT !.fut_waiter[t] = None], t,
                   Outcome(heap, Head(heap.ready).arg))
        /\ UNCHANGED <<gathers, stopping>>

\* mutant: a failed child is counted like a finished one
RunGatherDoneCountingFailures ==
    LET g == Head(heap.ready).of
        n == gathers[g].nfinished + 1
    IN  /\ Pops("gather_done")
        /\ \/ /\ Done(heap, g)
              /\ heap' = Popped
              /\ UNCHANGED gathers
           \/ /\ ~ Done(heap, g)
              /\ gathers' = [gathers EXCEPT ![g].nfinished = n]
              /\ heap' = IF n = Len(gathers[g].children)
                         THEN Resolve(Popped, g, "FINISHED", FALSE) ELSE Popped
        /\ UNCHANGED <<coro, running, scheduled, stopping>>

\* _GatheringFuture._done
RunGatherDone ==
    LET g == Head(heap.ready).of
        outcome == Outcome(heap, Head(heap.ready).arg)
        n == gathers[g].nfinished + 1
    IN  /\ Pops("gather_done")
        /\ \/ /\ Done(heap, g)
              /\ heap' = Popped
              /\ UNCHANGED gathers
           \/ /\ ~ Done(heap, g) /\ outcome # "none"
              /\ heap' = IF outcome = "cancelled"
                         THEN Resolve(Popped, g, "CANCELLED", FALSE)
                         ELSE Resolve(Popped, g, "FINISHED", TRUE)
              /\ UNCHANGED gathers
           \/ /\ ~ Done(heap, g) /\ outcome = "none"
              /\ gathers' = [gathers EXCEPT ![g].nfinished = n]
              /\ heap' = IF n = Len(gathers[g].children)
                         THEN Resolve(Popped, g, "FINISHED", FALSE) ELSE Popped
        /\ UNCHANGED <<coro, running, scheduled, stopping>>

\* _set_result_unless_done, the timer of sleep
RunSetResult ==
    LET f == Head(heap.ready).of
    IN  /\ Pops("set_result")
        /\ heap' = IF Done(heap, f) THEN Popped ELSE Resolve(Popped, f, "FINISHED", FALSE)
        /\ UNCHANGED <<gathers, coro, running, scheduled, stopping>>

\* _on_timeout, the timer of wait_for
RunTimeout ==
    LET t == Head(heap.ready).of
        f == Head(heap.ready).arg
    IN  /\ Pops("timeout")
        /\ IF Done(heap, f) THEN heap' = Popped /\ UNCHANGED coro
           ELSE /\ heap' = Cancel(Popped, f).heap
                /\ coro' = [coro EXCEPT ![t].wait_for = "timed_out"]
        /\ UNCHANGED <<gathers, running, scheduled, stopping>>

\* _stop_on_done
RunStop ==
    /\ Pops("stop")
    /\ heap' = Popped
    /\ stopping' = TRUE
    /\ UNCHANGED <<gathers, coro, running, scheduled>>

\* _Handle._run of a cancelled timer
SkipCancelled ==
    /\ running = Idle /\ todo > 0
    /\ Head(heap.ready).cancelled
    /\ todo' = todo - 1
    /\ heap' = Popped
    /\ UNCHANGED <<gathers, coro, running, scheduled, now, stopping, stopped>>

-----------------------------------------------------------------------------
(* Turns *)

\* how many timers are due: the loop stops at the first that is not
DueBy(time) ==
    CHOOSE k \in 0 .. Len(scheduled) :
        /\ \A i \in 1 .. k : scheduled[i].when <= time
        /\ k < Len(scheduled) => scheduled[k + 1].when > time

\* mutant: the timers are looked at only when nothing else is ready
BeginTurnTimersWhenIdle(time) ==
    LET due == IF heap.ready = <<>> THEN DueBy(time) ELSE 0
    IN  /\ running = Idle /\ todo = 0 /\ ~ stopping /\ ~ stopped
        /\ heap.ready # <<>> \/ scheduled # <<>>
        /\ heap.ready = <<>> => time >= scheduled[1].when
        /\ now' = time
        /\ heap' = [heap EXCEPT !.ready = @ \o [i \in 1 .. due |-> scheduled[i].handle]]
        /\ scheduled' = SubSeq(scheduled, due + 1, Len(scheduled))
        /\ todo' = Len(heap'.ready)
        /\ UNCHANGED <<gathers, coro, running, stopping, stopped>>

\* mutant: the turn runs one handle more than it found
BeginTurnOneTooMany(time) ==
    /\ running = Idle /\ todo = 0 /\ ~ stopping /\ ~ stopped
    /\ heap.ready # <<>> \/ scheduled # <<>>
    /\ heap.ready = <<>> => time >= scheduled[1].when
    /\ now' = time
    /\ heap' = [heap EXCEPT !.ready = @ \o [i \in 1 .. DueBy(time) |-> scheduled[i].handle]]
    /\ scheduled' = SubSeq(scheduled, DueBy(time) + 1, Len(scheduled))
    /\ todo' = Len(heap'.ready) + 1
    /\ UNCHANGED <<gathers, coro, running, stopping, stopped>>

\* the start of _run_once: sleep until the first timer when nothing is ready
BeginTurn(time) ==
    /\ running = Idle /\ todo = 0 /\ ~ stopping /\ ~ stopped
    /\ heap.ready # <<>> \/ scheduled # <<>>
    /\ heap.ready = <<>> => time >= scheduled[1].when
    /\ now' = time
    /\ heap' = [heap EXCEPT !.ready = @ \o [i \in 1 .. DueBy(time) |-> scheduled[i].handle]]
    /\ scheduled' = SubSeq(scheduled, DueBy(time) + 1, Len(scheduled))
    /\ todo' = Len(heap'.ready)
    /\ UNCHANGED <<gathers, coro, running, stopping, stopped>>

\* mutant: an empty ready queue ends the loop although timers are set
StopLoopWithTimers ==
    /\ running = Idle /\ todo = 0 /\ ~ stopped
    /\ stopping \/ heap.ready = <<>>
    /\ stopped' = TRUE
    /\ stopping' = FALSE
    /\ UNCHANGED <<heap, gathers, coro, running, scheduled, todo, now>>

\* run_until_complete leaves its loop and asyncio.run returns or raises
StopLoop ==
    /\ running = Idle /\ todo = 0 /\ ~ stopped
    /\ stopping \/ (heap.ready = <<>> /\ scheduled = <<>>)
    /\ stopped' = TRUE
    /\ stopping' = FALSE
    /\ UNCHANGED <<heap, gathers, coro, running, scheduled, todo, now>>

Stopped == stopped /\ UNCHANGED vars

-----------------------------------------------------------------------------
(* What the running coroutine may do *)

\* the futures inside sleep() are known to no other code
Born(f) == heap.state[f] # "UNBORN" /\ f \notin heap.hidden

Unborn(f) == heap.state[f] = "UNBORN"

Calls == /\ running # Idle
         /\ UNCHANGED <<running, todo, now, stopping, stopped>>

CreateFuture(f) ==
    /\ Calls /\ Unborn(f)
    /\ heap' = [heap EXCEPT !.state[f] = "PENDING"]
    /\ UNCHANGED <<gathers, coro, scheduled>>

CreateTask(t) ==
    /\ Calls /\ Unborn(t)
    /\ heap' = CallSoon([heap EXCEPT !.state[t] = "PENDING"], NewHandle("step", t, 0, None))
    /\ UNCHANGED <<gathers, coro, scheduled>>

\* _GatheringFuture.__init__: a callback for each child
Register(h, g, children) ==
    LET upTo[i \in 0 .. Len(children)] ==
          IF i = 0 THEN h
          ELSE AddDoneCallback(upTo[i - 1], children[i],
                               [call |-> "gather_done", of |-> g, index |-> i])
    IN  upTo[Len(children)]

\* gather(*aws) of futures; coroutines are wrapped with CreateTask first
Gather(g, children) ==
    /\ Calls /\ Unborn(g)
    /\ \A i \in DOMAIN children : Born(children[i])
    /\ heap' = Register([heap EXCEPT !.state[g] = "PENDING"], g, children)
    /\ gathers' = [gathers EXCEPT ![g].children = children]
    /\ UNCHANGED <<coro, scheduled>>

\* set_result and set_exception on a pending future
SetOutcome(f, failed) ==
    /\ Calls /\ Born(f) /\ ~ Done(heap, f)
    /\ heap' = Resolve(heap, f, "FINISHED", failed)
    /\ UNCHANGED <<gathers, coro, scheduled>>

\* f.cancel()
CallCancel(f) ==
    /\ Calls /\ Born(f) /\ ~ Done(heap, f)
    /\ heap' = Cancel(heap, f).heap
    /\ UNCHANGED <<gathers, coro, scheduled>>

-----------------------------------------------------------------------------
(* How a step of the coroutine ends *)

Ends == /\ running # Idle
        /\ running' = Idle
        /\ UNCHANGED <<gathers, todo, now, stopping, stopped>>

\* mutant: the new timer goes to the end of the list
CallLaterUnsorted(delay, handle) ==
    Append(scheduled, [when |-> now + delay, handle |-> handle])

\* call_later: behind every timer with the same or an earlier deadline
CallLater(delay, handle) ==
    LET when == now + delay
        i == CHOOSE k \in 1 .. Len(scheduled) + 1 :
                /\ \A j \in 1 .. k - 1 : scheduled[j].when <= when
                /\ k <= Len(scheduled) => scheduled[k].when > when
    IN  InsertAt(scheduled, i, [when |-> when, handle |-> handle])

\* the coroutine returns
Return ==
    /\ Ends
    /\ heap' = Resolve(heap, running.task, "FINISHED", FALSE)
    /\ UNCHANGED <<coro, scheduled>>

\* the coroutine raises, or lets the thrown exception pass
Raise(cancelled) ==
    /\ Ends
    /\ heap' = IF cancelled THEN Resolve(heap, running.task, "CANCELLED", FALSE)
               ELSE Resolve(heap, running.task, "FINISHED", TRUE)
    /\ UNCHANGED <<coro, scheduled>>

\* await f, for a pending f
Await(f) ==
    /\ Ends /\ Born(f) /\ ~ Done(heap, f)
    /\ running.task \notin WaitsFor(heap, f)
    /\ heap' = Suspend(heap, running.task, f)
    /\ UNCHANGED <<coro, scheduled>>

\* await sleep(delay)
Sleep(f, delay) ==
    /\ Ends /\ Unborn(f) /\ now + delay <= MaxTime
    /\ heap' = Suspend([heap EXCEPT !.state[f] = "PENDING", !.hidden = @ \cup {f}],
                       running.task, f)
    /\ scheduled' = CallLater(delay, NewHandle("set_result", f, 0, None))
    /\ UNCHANGED coro

\* await sleep(0)
SleepZero ==
    /\ Ends
    /\ heap' = CallSoon(heap, NewHandle("step", running.task, 0, None))
    /\ UNCHANGED <<coro, scheduled>>

\* an object that is no future is yielded to the task
BadYield ==
    /\ Ends
    /\ heap' = CallSoon(heap, NewHandle("step", running.task, 0, "RuntimeError"))
    /\ UNCHANGED <<coro, scheduled>>

\* await wait_for(f, delay), for a pending f
WaitFor(f, delay) ==
    /\ Ends /\ Born(f) /\ ~ Done(heap, f)
    /\ running.task \notin WaitsFor(heap, f)
    /\ now + delay <= MaxTime
    /\ heap' = Suspend(heap, running.task, f)
    /\ scheduled' = CallLater(delay, NewHandle("timeout", running.task, 0, f))
    /\ coro' = [coro EXCEPT ![running.task].wait_for = "armed"]

-----------------------------------------------------------------------------

\* _run_main: the root task is created, then run_until_complete registers
\* _stop_on_done
Init ==
    /\ heap = [state |-> [f \in Awaitable |-> IF f = Main THEN "PENDING" ELSE "UNBORN"],
               failed |-> [f \in Awaitable |-> FALSE],
               callbacks |-> [f \in Awaitable |->
                                IF f = Main THEN <<[call |-> "stop", of |-> Main, index |-> 0]>>
                                ELSE <<>>],
               fut_waiter |-> [t \in Task |-> None],
               must_cancel |-> [t \in Task |-> FALSE],
               hidden |-> {},
               ready |-> <<NewHandle("step", Main, 0, None)>>]
    /\ gathers = [g \in Gathering |-> [children |-> <<>>, nfinished |-> 0]]
    /\ coro = [t \in Task |-> [started |-> FALSE, wait_for |-> "no"]]
    /\ running = Idle
    /\ scheduled = <<>>
    /\ todo = 0 /\ now = 0
    /\ stopping = FALSE /\ stopped = FALSE

LoopStep == \/ RunStep \/ RunWakeup \/ RunGatherDone \/ RunSetResult \/ RunTimeout
            \/ RunStop \/ SkipCancelled
            \/ \E time \in now .. MaxTime : BeginTurn(time)
            \/ StopLoop

CoroutineCalls ==
    \/ \E f \in Future : CreateFuture(f)
    \/ \E t \in Task : CreateTask(t)
    \/ \E g \in Gathering, n \in 1 .. MaxChildren :
          \E children \in [1 .. n -> Awaitable] : Gather(g, children)
    \/ \E f \in Future, failed \in BOOLEAN : SetOutcome(f, failed)
    \/ \E f \in Awaitable : CallCancel(f)

CoroutineEnds ==
    \/ Return
    \/ \E cancelled \in BOOLEAN : Raise(cancelled)
    \/ \E f \in Awaitable : Await(f)
    \/ \E f \in Future, delay \in Delay : Sleep(f, delay)
    \/ SleepZero
    \/ BadYield
    \/ \E f \in Awaitable, delay \in Delay : WaitFor(f, delay)

Next == LoopStep \/ CoroutineCalls \/ CoroutineEnds \/ Stopped

Spec == Init /\ [][Next]_vars

\* The loop never rests while it has work, the coroutine it steps always
\* reaches its next suspension, and the clock moves on between turns.
FairSpec ==
    /\ Spec
    /\ WF_vars(LoopStep)
    /\ WF_vars(CoroutineEnds)
    /\ SF_vars(\E time \in now + 1 .. MaxTime : BeginTurn(time))

-----------------------------------------------------------------------------
(* Properties *)

\* the resumptions of t that are queued with the loop or left with a future
Resumptions(t) ==
    Cardinality({i \in DOMAIN heap.ready :
                    heap.ready[i].call \in {"step", "wakeup"} /\ heap.ready[i].of = t})
    + Cardinality(UNION {{<<f, i>> : i \in {j \in DOMAIN heap.callbacks[f] :
                                heap.callbacks[f][j] = WakeupOf(t)}} :
                            f \in Awaitable})
    + IF running.task = t THEN 1 ELSE 0

\* A pending task has exactly one way to be resumed - it is running, a step
\* or wake-up of it is queued, or its wake-up is registered with the future
\* it awaits - and a finished task has none: no wake-up is lost and no
\* coroutine is stepped twice for one suspension, whatever cancellations,
\* timeouts and completions race (Task._step_run, _wakeup, cancel).
OneResumption ==
    \A t \in Task : Resumptions(t) = IF heap.state[t] = "PENDING" THEN 1 ELSE 0

\* _fut_waiter, through which cancel() reaches the await point, names the
\* future that will really wake the task.
WaiterWillWake ==
    \A t \in Task :
        LET f == heap.fut_waiter[t]
        IN  f # None =>
              \/ ~ Done(heap, f)
                 /\ WakeupOf(t) \in Range(heap.callbacks[f])
              \/ Done(heap, f)
                 /\ \E i \in DOMAIN heap.ready :
                        /\ heap.ready[i].call = "wakeup"
                        /\ heap.ready[i].of = t /\ heap.ready[i].arg = f

\* A gather yields results only when every child has one, and while it is
\* pending some child is, or a child's report is still queued
\* (_GatheringFuture._done).
GatherFaithful ==
    \A g \in Gathering :
        LET children == Range(gathers[g].children)
            reports == {i \in DOMAIN heap.ready :
                          heap.ready[i].call = "gather_done" /\ heap.ready[i].of = g}
        IN  /\ heap.state[g] = "FINISHED" /\ ~ heap.failed[g] =>
                 \A c \in children : heap.state[c] = "FINISHED" /\ ~ heap.failed[c]
            /\ heap.state[g] = "PENDING" =>
                 reports # {} \/ \E c \in children : heap.state[c] = "PENDING"

\* A timer is handed to the ready queue in the turn that finds its deadline
\* passed, neither earlier nor later, whatever the order in which the timers
\* were set (call_at, _run_once).
TimersOnTime ==
    [][\A i \in DOMAIN scheduled :
          LET timer == scheduled[i]
              Same(handle) == handle.call = timer.handle.call /\ handle.of = timer.handle.of
          IN  IF timer.when <= now'
              THEN \E j \in DOMAIN heap'.ready : Same(heap'.ready[j])
              ELSE \E j \in DOMAIN scheduled' :
                      scheduled'[j].when = timer.when /\ Same(scheduled'[j].handle)]_vars

\* When wait_for is over its timer is disarmed, so that a late timeout
\* cancels nothing (the finally clause of wait_for).
TimeoutDisarmed ==
    \A t \in Task :
        coro[t].wait_for = "no" =>
            /\ \A i \in DOMAIN heap.ready :
                  heap.ready[i].call = "timeout" /\ heap.ready[i].of = t =>
                      heap.ready[i].cancelled
            /\ \A i \in DOMAIN scheduled :
                  scheduled[i].handle.call = "timeout" /\ scheduled[i].handle.of = t =>
                      scheduled[i].handle.cancelled

\* run_until_complete gives up ("Event loop stopped before Future completed")
\* only when no task can ever run again: every pending one awaits a pending
\* future, and no timer or handle is left.
GivesUpOnlyStuck ==
    stopped /\ heap.state[Main] = "PENDING" =>
        /\ scheduled = <<>> /\ heap.ready = <<>>
        /\ \A t \in Task : heap.state[t] = "PENDING" =>
              heap.fut_waiter[t] # None /\ ~ Done(heap, heap.fut_waiter[t])

\* A task whose awaited future is done is resumed, unless the root task ends
\* the loop first (_schedule_callbacks, _run_once).
DoneWakes ==
    \A t \in Task :
        heap.fut_waiter[t] # None /\ Done(heap, heap.fut_waiter[t])
            ~> heap.fut_waiter[t] = None \/ stopped

\* A sleep ends, however long other tasks keep the ready queue full.
SleepEnds == \A f \in Future : f \in heap.hidden ~> Done(heap, f) \/ stopped

\* Whoever waits goes on: for what is done, and for a timer (_run_once).
WaitingEnds == DoneWakes /\ SleepEnds

\* a cancellation has reached f, or something f waits for
CancelReached(h, f) ==
    \E g \in WaitsFor(h, f) :
        h.state[g] = "CANCELLED" \/ (g \in Task /\ h.must_cancel[g])

\* A request to cancel a task that is not suspended (_must_cancel) is not
\* forgotten: it is thrown into the coroutine, or handed to what the task
\* waits for next, or it finds the task done.  The one exception is a task
\* that wakes to a failure: _step_run throws the failure alone.
CancelIsNotLost ==
    [][\A t \in Task :
          heap.must_cancel[t] /\ ~ heap'.must_cancel[t] =>
              \/ running'.task = t
                 /\ running'.thrown \in {"cancelled", "timeout", "error"}
              \/ Done(heap', t)
              \/ heap'.fut_waiter[t] # None /\ CancelReached(heap', heap'.fut_waiter[t])]_vars
=============================================================================
