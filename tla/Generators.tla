----------------------------- MODULE Generators -----------------------------
(***************************************************************************)
(* Generators of pyrust: next, send, throw, close, the for-loop trampoline *)
(* and `yield from`, together with the exception state of the interpreter  *)
(* that every suspension saves and every resumption installs               *)
(* (vm/entry.rs, vm/execute.rs, generator_protocols, iteration).           *)
(*                                                                         *)
(* One thread executes; `stack` is its chain of activations.  A generator  *)
(* body is Python code and is free: between two suspensions it may resume  *)
(* other generators, raise, catch, re-raise, enter and leave except bodies *)
(* in any order that its code allows.  The calls are split into the steps  *)
(* a nested resumption can come between; nothing interleaves with them.    *)
(***************************************************************************)
EXTENDS Naturals, SequencesExt

CONSTANTS
    Gen,         \* generator objects
    Main,        \* the frame at the bottom of the stack: top-level calls
    Errors,      \* exception objects the program raises
    Guarded,     \* generators whose code has exception handlers
    Reraises,    \* frames whose code has a bare `raise`
    Delegates,   \* pairs <<g, s>>: the code of g may `yield from` s
    Thrown,      \* exceptions given to throw()
    MaxNest,     \* bound, per frame: nesting of except bodies
    MaxSaved     \* bound: length of exc_saved_active

Frames == Gen \cup {Main}

NoExc == "none"

(* GeneratorExit, StopIteration, and every error the interpreter makes     *)
(* itself (already executing, ignored GeneratorExit, no active exception,  *)
(* PEP 479).                                                               *)
Exc == Errors \cup {"exit", "stop", "fault"}

ASSUME GeneratorsAssumption ==
    /\ Main \notin Gen
    /\ Guarded \subseteq Gen
    /\ Reraises \subseteq Frames
    /\ Delegates \subseteq Gen \X Gen
    /\ Thrown \subseteq Exc
    /\ NoExc \notin Errors
    /\ MaxNest \in [Frames -> Nat] /\ MaxSaved \in Nat

VARIABLES
    frame,     \* the suspended GeneratorFrame of each generator
    cell,      \* what its GeneratorCell holds
    stack,     \* activations, innermost last
    handled,   \* handled_exc_stack
    saved,     \* exc_saved_active
    active,    \* active_exception
    inside,    \* exceptions of the except bodies around each frame's pc
    signal     \* outcome of an activation on its way to its resumer

vars == <<frame, cell, stack, handled, saved, active, inside, signal>>

MaybeExc == Exc \cup {NoExc}

(* pc is "start" before the first resumption, "from" when the frame is     *)
(* parked on a YieldFrom instruction over sub, and "yield" past a yield.   *)
GeneratorFrame ==
    [pc : {"start", "yield", "from"}, done : BOOLEAN, sub : Frames,
     handled : Seq(Exc), saved : Seq(MaybeExc), active : MaybeExc]

(* How an activation was entered: by a Python call, by a for loop, by the  *)
(* YieldFrom of the activation below, or by a throw that the frame below   *)
(* forwards.                                                               *)
Call == {"main", "next", "throw", "close", "for", "from", "forward"}

(* hbase, sbase and prev are the depths and the active exception that      *)
(* run_bytecode_inner recorded on entry; seen is history: the exception    *)
(* state the resumer left.                                                 *)
Activation ==
    [who : Frames, via : {"script", "native", "drive"}, call : Call,
     phase : {"resume", "forward", "advance", "run"}, inject : MaybeExc,
     hbase : Nat, sbase : Nat, prev : MaybeExc,
     seen : [handled : Seq(Exc), saved : Seq(MaybeExc), active : MaybeExc]]

Outcome ==
    [kind : {"none", "yielded", "stopped", "raised"}, exc : MaybeExc,
     call : Call \cup {"here", "entry"}, gen : Frames]

TypeOK ==
    /\ frame \in [Gen -> GeneratorFrame]
    /\ cell \in [Gen -> {"frame", "borrowed", "driving"}]
    /\ stack \in Seq(Activation) /\ stack # <<>>
    /\ handled \in Seq(Exc)
    /\ saved \in Seq(MaybeExc)
    /\ active \in MaybeExc
    /\ inside \in [Frames -> Seq(Exc)]
    /\ signal \in Outcome

-----------------------------------------------------------------------------
Top == stack[Len(stack)]

ExceptionState == [handled |-> handled, saved |-> saved, active |-> active]

Quiet == [kind |-> "none", exc |-> NoExc, call |-> "here", gen |-> Main]

(* An exception raised by the current instruction of the top frame. *)
RaisedHere(e) == [kind |-> "raised", exc |-> e, call |-> "here", gen |-> Main]

(* One injected into a frame that has not run: no handler covers it. *)
RaisedOnEntry(e) == [RaisedHere(e) EXCEPT !.call = "entry"]

Fresh ==
    [pc |-> "start", done |-> FALSE, sub |-> Main,
     handled |-> <<>>, saved |-> <<>>, active |-> NoExc]

Bottom ==
    [who |-> Main, via |-> "script", call |-> "main", phase |-> "run",
     inject |-> NoExc, hbase |-> 0, sbase |-> 0, prev |-> NoExc,
     seen |-> [handled |-> <<>>, saved |-> <<>>, active |-> NoExc]]

Init ==
    /\ frame = [g \in Gen |-> Fresh]
    /\ cell = [g \in Gen |-> "frame"]
    /\ stack = <<Bottom>>
    /\ handled = <<>> /\ saved = <<>> /\ active = NoExc
    /\ inside = [w \in Frames |-> <<>>]
    /\ signal = Quiet

(* PEP 479: a StopIteration that escapes a generator body. *)
Pep479(e) == IF e = "stop" THEN "fault" ELSE e

-----------------------------------------------------------------------------
(* Entering a frame.                                                       *)

SetTop(act) == stack' = [stack EXCEPT ![Len(stack)] = act]

(* resume_generator_with_exc is entered with the cell borrowed; below is   *)
(* what the resuming activation becomes.                                   *)
Resume(g, call, inj, below) ==
    /\ stack' = Append([stack EXCEPT ![Len(stack)] = below],
                       [who |-> g, via |-> "native", call |-> call,
                        phase |-> "resume", inject |-> inj,
                        hbase |-> 0, sbase |-> 0, prev |-> NoExc,
                        seen |-> ExceptionState])
    /\ cell' = [cell EXCEPT ![g] = "borrowed"]
    /\ UNCHANGED <<frame, handled, saved, active, inside, signal>>

(* vm_enter_gen_drive: the frame moves into the consumer's dispatch loop   *)
(* and shares its exc_ctx_frame_base.                                      *)
Drive(g) ==
    /\ stack' = Append(stack,
                       [who |-> g, via |-> "drive", call |-> "for",
                        phase |-> "run", inject |-> NoExc, hbase |-> Top.hbase,
                        sbase |-> Top.sbase, prev |-> Top.prev,
                        seen |-> ExceptionState])
    /\ cell' = [cell EXCEPT ![g] = "driving"]
    /\ UNCHANGED <<frame, handled, saved, active, inside, signal>>

(* The frame is parked on a YieldFrom and has to pass the exception on.    *)
Forwards(act) == act.inject # NoExc /\ frame[act.who].pc = "from"

(* run_bytecode_inner on entry: record the depths, install the frame's     *)
(* slices, and raise the injected exception at the yield the frame is      *)
(* parked on, or where no handler is if it never ran.                      *)
Install ==
    /\ signal.kind = "none" /\ Top.phase = "resume" /\ ~Forwards(Top)
    /\ LET f == frame[Top.who] IN
         /\ SetTop([Top EXCEPT
                      !.phase = IF Top.inject = NoExc /\ f.pc = "from"
                                THEN "advance" ELSE "run",
                      !.inject = NoExc, !.hbase = Len(handled),
                      !.sbase = Len(saved), !.prev = active])
         /\ handled' = handled \o f.handled
         /\ saved' = saved \o f.saved
         /\ active' = IF f.active # NoExc THEN f.active ELSE active
    /\ frame' = [frame EXCEPT ![Top.who].handled = <<>>, ![Top.who].saved = <<>>,
                              ![Top.who].active = NoExc]
    /\ signal' = IF Top.inject = NoExc THEN Quiet
                 ELSE IF frame[Top.who].pc = "start" THEN RaisedOnEntry(Top.inject)
                 ELSE RaisedHere(Top.inject)
    /\ UNCHANGED <<cell, inside>>

(* What forwarding made of the injected exception, when it did not yield:  *)
(* the frame goes on past the YieldFrom, with no injection if the result   *)
(* is a StopIteration.                                                     *)
PastYieldFrom(e) ==
    /\ SetTop([Top EXCEPT !.phase = "resume",
                          !.inject = IF e = "stop" THEN NoExc ELSE e])
    /\ frame' = [frame EXCEPT ![Top.who].pc = "yield"]

(* The PEP 380 branch of resume_generator_with_exc, through                *)
(* yield_from_throw_forward.                                               *)
ForwardThrow ==
    /\ signal.kind = "none" /\ Top.phase = "resume" /\ Forwards(Top)
    /\ LET s == frame[Top.who].sub IN
         IF cell[s] = "frame" /\ ~frame[s].done
         THEN Resume(s, "forward", Top.inject, [Top EXCEPT !.phase = "forward"])
         ELSE /\ PastYieldFrom(IF cell[s] = "borrowed" THEN "fault" ELSE Top.inject)
              /\ UNCHANGED <<cell, handled, saved, active, inside, signal>>

-----------------------------------------------------------------------------
(* Leaving a frame.                                                        *)

(* Mutant: the resumer's active_exception is not put back. *)
LeaveKeepsActive(f, kind, e) ==
    /\ stack' = Front(stack)
    /\ cell' = [cell EXCEPT ![Top.who] = "frame"]
    /\ frame' = [frame EXCEPT ![Top.who] = f]
    /\ signal' = [kind |-> kind, exc |-> e, call |-> Top.call, gen |-> Top.who]
    /\ IF Top.via = "native"
       THEN /\ handled' = SubSeq(handled, 1, Top.hbase)
            /\ saved' = SubSeq(saved, 1, Top.sbase)
       ELSE UNCHANGED <<handled, saved>>
    /\ UNCHANGED active

(* The activation on top is popped, its frame becomes f, and its resumer   *)
(* gets the outcome.  Only a native entry restores the exception state.    *)
Leave(f, kind, e) ==
    LET w == Top.who IN
    /\ stack' = Front(stack)
    /\ cell' = [cell EXCEPT ![w] = "frame"]
    /\ frame' = [frame EXCEPT ![w] = f]
    /\ signal' = [kind |-> kind, exc |-> e, call |-> Top.call, gen |-> w]
    /\ IF Top.via = "native"
       THEN /\ handled' = SubSeq(handled, 1, Top.hbase)
            /\ saved' = SubSeq(saved, 1, Top.sbase)
            /\ active' = Top.prev
       ELSE UNCHANGED <<handled, saved, active>>

(* Mutant: the whole handled_exc_stack goes with the frame. *)
SuspendWithAll(pc) ==
    /\ Leave([frame[Top.who] EXCEPT !.pc = pc, !.handled = handled,
               !.saved = SubSeq(saved, Top.sbase + 1, Len(saved)),
               !.active = active], "yielded", NoExc)
    /\ UNCHANGED inside

(* Insn::Yield, and Insn::YieldFrom once its sub-iterator has yielded: a   *)
(* native frame takes its own part of the exception state with it.         *)
Suspend(pc) ==
    LET f == [frame[Top.who] EXCEPT !.pc = pc] IN
    /\ Leave(IF Top.via = "native"
             THEN [f EXCEPT
                     !.handled = SubSeq(handled, Top.hbase + 1, Len(handled)),
                     !.saved = SubSeq(saved, Top.sbase + 1, Len(saved)),
                     !.active = active]
             ELSE f, "yielded", NoExc)
    /\ UNCHANGED inside

(* The frame is finished: it returned, or e escaped it. *)
Finish(kind, e) ==
    /\ Leave([frame[Top.who] EXCEPT !.done = TRUE], kind, e)
    /\ inside' = [inside EXCEPT ![Top.who] = <<>>]

-----------------------------------------------------------------------------
(* An outcome reaches the activation that asked for it.                    *)

(* next(), send() and throw() hand it to the calling body. *)
DeliverCall ==
    /\ signal.call \in {"next", "throw"}
    /\ signal' = CASE signal.kind = "yielded" -> Quiet
                   [] signal.kind = "stopped" -> RaisedHere("stop")
                   [] signal.kind = "raised"  -> RaisedHere(signal.exc)
    /\ UNCHANGED <<frame, cell, stack, handled, saved, active, inside>>

(* close_generator_frame: yielding again is an error and ends the frame.   *)
DeliverClose ==
    /\ signal.call = "close"
    /\ frame' = IF signal.kind = "yielded"
                THEN [frame EXCEPT ![signal.gen].done = TRUE] ELSE frame
    /\ signal' = CASE signal.kind = "yielded" -> RaisedHere("fault")
                   [] signal.kind = "stopped" -> Quiet
                   [] signal.kind = "raised"  -> IF signal.exc = "exit" THEN Quiet
                                                 ELSE RaisedHere(signal.exc)
    /\ UNCHANGED <<cell, stack, handled, saved, active, inside>>

(* ForIter: the loop takes the value, leaves, or raises. *)
DeliverFor ==
    /\ signal.call = "for"
    /\ signal' = IF signal.kind = "raised" THEN RaisedHere(signal.exc) ELSE Quiet
    /\ UNCHANGED <<frame, cell, stack, handled, saved, active, inside>>

(* YieldFrom: pass the value on and park here, go on, or raise. *)
DeliverFrom ==
    /\ signal.call = "from"
    /\ IF signal.kind = "yielded" THEN Suspend("from")
       ELSE /\ SetTop([Top EXCEPT !.phase = "run"])
            /\ signal' = IF signal.kind = "raised" THEN RaisedHere(signal.exc) ELSE Quiet
            /\ UNCHANGED <<frame, cell, handled, saved, active, inside>>

(* The frame that forwarded a throw returns what its sub-iterator yielded, *)
(* without having run, or goes on past its YieldFrom.                      *)
DeliverForward ==
    /\ signal.call = "forward"
    /\ IF signal.kind = "yielded"
       THEN /\ stack' = Front(stack)
            /\ cell' = [cell EXCEPT ![Top.who] = "frame"]
            /\ signal' = [signal EXCEPT !.call = Top.call, !.gen = Top.who]
            /\ UNCHANGED frame
       ELSE /\ PastYieldFrom(IF signal.kind = "stopped" THEN "stop" ELSE signal.exc)
            /\ signal' = Quiet
            /\ UNCHANGED cell
    /\ UNCHANGED <<handled, saved, active, inside>>

Deliver ==
    /\ signal.kind # "none"
    /\ DeliverCall \/ DeliverClose \/ DeliverFor \/ DeliverFrom \/ DeliverForward

-----------------------------------------------------------------------------
(* An exception raised at an instruction of the top frame.                 *)

RaisedAt(w) ==
    signal.kind = "raised" /\ signal.call \in {"here", "entry"} /\ Top.who = w

(* handle_vm_error: the handler that covers the pc is at nesting depth d,  *)
(* so the except bodies from d on are left.  An entry for the exception    *)
(* that was active makes way for the new one.                              *)
Catch(w, d) ==
    /\ RaisedAt(w) /\ signal.call = "here" /\ w \in Guarded \cup {Main}
    /\ d \in 1 .. Len(inside[w]) + 1 /\ d <= MaxNest[w] /\ Len(saved) < MaxSaved
    /\ handled' = Append(IF Len(handled) > Top.hbase /\ Last(handled) = active
                         THEN Front(handled) ELSE handled, signal.exc)
    /\ saved' = Append(saved, active)
    /\ active' = signal.exc
    /\ inside' = [inside EXCEPT ![w] = Append(SubSeq(@, 1, d - 1), signal.exc)]
    /\ signal' = Quiet
    /\ UNCHANGED <<frame, cell, stack>>

(* Mutant: no PEP 479 conversion. *)
EscapeUnwrapped(g) ==
    /\ g \in Gen /\ RaisedAt(g)
    /\ Finish("raised", signal.exc)

(* No handler: the generator is done and the error goes to its resumer     *)
(* (resume_generator_with_exc, or vm_unwind_error for a driven frame).     *)
Escape(g) ==
    /\ g \in Gen /\ RaisedAt(g)
    /\ Finish("raised", Pep479(signal.exc))

(* The top-level call itself fails, and the next one starts afresh. *)
EscapeMain ==
    /\ RaisedAt(Main)
    /\ handled' = <<>> /\ saved' = <<>> /\ active' = NoExc
    /\ inside' = [inside EXCEPT ![Main] = <<>>]
    /\ signal' = Quiet
    /\ UNCHANGED <<frame, cell, stack>>

-----------------------------------------------------------------------------
(* What the code of a frame does.                                          *)

Running(w) == signal.kind = "none" /\ Top.phase = "run" /\ Top.who = w

RaiseHere(e) ==
    /\ signal' = RaisedHere(e)
    /\ UNCHANGED <<frame, cell, stack, handled, saved, active, inside>>

(* Mutant: a finished frame is resumed. *)
CallNextDone(w, g) ==
    /\ Running(w)
    /\ IF cell[g] # "frame" THEN RaiseHere("fault")
       ELSE Resume(g, "next", NoExc, Top)

(* advance_iterator, and generator_send, which differs in the value only.  *)
CallNext(w, g) ==
    /\ Running(w)
    /\ IF cell[g] # "frame" THEN RaiseHere("fault")
       ELSE IF frame[g].done THEN RaiseHere("stop")
       ELSE Resume(g, "next", NoExc, Top)

(* generator_send of a value other than None to a just-started generator.  *)
SendToFresh(w, g) ==
    /\ Running(w)
    /\ cell[g] = "frame" /\ ~frame[g].done /\ frame[g].pc = "start"
    /\ RaiseHere("fault")

(* generator_throw *)
CallThrow(w, g, e) ==
    /\ Running(w)
    /\ IF cell[g] # "frame" THEN RaiseHere("fault")
       ELSE IF frame[g].done THEN RaiseHere(e)
       ELSE Resume(g, "throw", e, Top)

(* generator_close; on a finished generator it does nothing. *)
CallClose(w, g) ==
    /\ Running(w)
    /\ IF cell[g] # "frame" THEN RaiseHere("fault")
       ELSE ~frame[g].done /\ Resume(g, "close", "exit", Top)

(* Mutant: the suspended exception state is not looked at. *)
DrivableWithState(g) ==
    ~frame[g].done /\ g \notin Guarded /\ frame[g].pc # "from"

(* classify_generator_loop_state: can the dispatch loop drive it itself?   *)
Drivable(g) ==
    /\ ~frame[g].done /\ g \notin Guarded
    /\ frame[g].handled = <<>> /\ frame[g].active = NoExc /\ frame[g].saved = <<>>
    /\ frame[g].pc # "from"

(* Mutant: a generator that is driven already is driven again. *)
ForIterUnguarded(w, g) ==
    /\ Running(w)
    /\ IF cell[g] = "borrowed" THEN RaiseHere("fault")
       ELSE /\ ~frame[g].done
            /\ IF Drivable(g) THEN Drive(g) ELSE Resume(g, "for", NoExc, Top)

(* Insn::ForIter; a finished generator ends the loop. *)
ForIter(w, g) ==
    /\ Running(w)
    /\ IF cell[g] # "frame" THEN RaiseHere("fault")
       ELSE /\ ~frame[g].done
            /\ IF Drivable(g) THEN Drive(g) ELSE Resume(g, "for", NoExc, Top)

(* The body arrives at a YieldFrom over s. *)
Delegate(g, s) ==
    /\ Running(g) /\ <<g, s>> \in Delegates
    /\ frame' = [frame EXCEPT ![g].sub = s]
    /\ SetTop([Top EXCEPT !.phase = "advance"])
    /\ UNCHANGED <<cell, handled, saved, active, inside, signal>>

(* Insn::YieldFrom, executed anew after every resumption: yield_from_advance. *)
AdvanceSub ==
    /\ signal.kind = "none" /\ Top.phase = "advance"
    /\ LET s == frame[Top.who].sub IN
         IF cell[s] = "frame" /\ ~frame[s].done THEN Resume(s, "from", NoExc, Top)
         ELSE /\ SetTop([Top EXCEPT !.phase = "run"])
              /\ signal' = IF cell[s] = "frame" THEN Quiet ELSE RaisedHere("fault")
              /\ UNCHANGED <<frame, cell, handled, saved, active, inside>>

Yield(g) == Running(g) /\ Suspend("yield")

Return(g) == Running(g) /\ Finish("stopped", NoExc)

Raise(w, e) == Running(w) /\ RaiseHere(e)

(* Mutant: nothing is being handled, and that is re-raised. *)
ReraiseNothing(w) ==
    /\ Running(w) /\ w \in Reraises
    /\ signal' = RaisedHere(active)
    /\ handled' = IF Len(handled) > Top.hbase THEN Front(handled) ELSE handled
    /\ IF Len(saved) > Top.sbase
       THEN active' = Last(saved) /\ saved' = Front(saved)
       ELSE active' = NoExc /\ UNCHANGED saved
    /\ UNCHANGED <<frame, cell, stack, inside>>

(* Insn::RaiseReRaise: a bare raise, in an except body or not. *)
Reraise(w) ==
    /\ Running(w) /\ w \in Reraises
    /\ IF active = NoExc THEN RaiseHere("fault")
       ELSE /\ signal' = RaisedHere(active)
            /\ handled' = IF Len(handled) > Top.hbase THEN Front(handled) ELSE handled
            /\ IF Len(saved) > Top.sbase
               THEN active' = Last(saved) /\ saved' = Front(saved)
               ELSE active' = NoExc /\ UNCHANGED saved
            /\ UNCHANGED <<frame, cell, stack, inside>>

(* Insn::EndExcept: the except body is left the normal way. *)
EndExcept(w) ==
    /\ Running(w) /\ inside[w] # <<>>
    /\ handled' = IF Len(handled) > Top.hbase THEN Front(handled) ELSE handled
    /\ IF Len(saved) > Top.sbase
       THEN active' = Last(saved) /\ saved' = Front(saved)
       ELSE active' = NoExc /\ UNCHANGED saved
    /\ inside' = [inside EXCEPT ![w] = Front(@)]
    /\ UNCHANGED <<frame, cell, stack, signal>>

Next ==
    \/ Install \/ ForwardThrow \/ AdvanceSub \/ Deliver \/ EscapeMain
    \/ \E g \in Gen : Yield(g) \/ Return(g) \/ Escape(g) \/ \E s \in Gen : Delegate(g, s)
    \/ \E w \in Frames :
         \/ Reraise(w) \/ EndExcept(w)
         \/ \E d \in 1 .. MaxNest[w] : Catch(w, d)
         \/ \E e \in Errors \cup {"stop"} : Raise(w, e)
         \/ \E g \in Gen :
              \/ CallNext(w, g) \/ SendToFresh(w, g) \/ CallClose(w, g) \/ ForIter(w, g)
              \/ \E e \in Thrown : CallThrow(w, g, e)

Spec == Init /\ [][Next]_vars

-----------------------------------------------------------------------------
(* Properties.                                                             *)

Activations(g) == {i \in DOMAIN stack : stack[i].who = g}

(* A generator body runs at most once at a time, however it was resumed:   *)
(* its cell is free exactly when no activation of it is on the stack, and  *)
(* otherwise tells the one there is, held by a native resumption or by the *)
(* dispatch loop of a for statement (the "already executing" guards).      *)
OneActivation ==
    \A g \in Gen :
        IF cell[g] = "frame" THEN Activations(g) = {}
        ELSE \E i \in DOMAIN stack :
               /\ Activations(g) = {i}
               /\ stack[i].via = IF cell[g] = "borrowed" THEN "native" ELSE "drive"

(* Whoever resumes a generator finds its own exception state afterwards as *)
(* it left it: whether the body yielded, returned or raised, and whatever  *)
(* it caught, re-raised or passed on to sub-iterators in between.          *)
CallerUndisturbed ==
    [][Len(stack') < Len(stack) => ExceptionState' = Top.seen]_vars

(* A suspended generator carries at most one handled exception, the one it *)
(* has active, and it is one that an except body around its yield caught:  *)
(* nothing of its resumer's.                                               *)
SuspendedSlice ==
    \A g \in Gen : cell[g] = "frame" =>
        \/ frame[g].handled = <<>>
        \/ /\ frame[g].handled = <<frame[g].active>>
           /\ \E i \in DOMAIN inside[g] : inside[g][i] = frame[g].active

(* The dispatch loop drives only a generator that has no exception state   *)
(* of its own, which it could not keep apart from the consumer's.          *)
DrivenHasNoState ==
    \A i \in DOMAIN stack : stack[i].via = "drive" =>
        LET f == frame[stack[i].who] IN
          /\ f.handled = <<>> /\ f.saved = <<>> /\ f.active = NoExc
          /\ inside[stack[i].who] = <<>>

(* A finished generator stays finished and its body is never entered again; *)
(* close() leaves a generator finished, also when its body, or one that it *)
(* delegates to, caught GeneratorExit and went on yielding.                *)
DoneIsFinal ==
    [][/\ \A g \in Gen : frame[g].done =>
             frame'[g].done /\ (Activations(g) = {} => Activations(g)' = {})
       /\ signal.kind # "none" /\ signal.call = "close" => frame'[signal.gen].done]_vars

(* A resumer sees StopIteration only because the body it resumed returned; *)
(* one that escaped the body arrives as another error (PEP 479).           *)
StopMeansReturned ==
    signal.kind \in {"stopped", "raised"} /\ signal.call \in Call =>
        frame[signal.gen].done /\ signal.exc # "stop"

=============================================================================
