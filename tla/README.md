# A TLA+ model of pyrust

pyrust is a Python interpreter written in Rust. Source text is lexed, parsed,
compiled to register bytecode, optimised, and run by a virtual machine whose
speed rests on inline caches and on register copies of what Python sees as one
mutable mapping. Almost everything runs on one thread; what makes the code hard
is not threads but *re-entry*: a finalizer, an `exec`, an `import`, a nested
generator or a done-callback runs arbitrary Python code in the middle of an
operation of the interpreter and finds its state half way.

This directory keeps specifications of the parts where a unit test says little:
state that exists in several copies told apart by generation counters, state
that is parked and brought back while others move on, and queues of callbacks
that race. `PROJECT.json` is the machine-readable index: which definition models
which lines, what each run checks, what could go wrong where.

Contents: [parts](#the-systems-parts) · [modules](#the-modules) ·
[runs](#the-runs) · [bounds](#bounds) · [fairness](#fairness) ·
[proofs](#what-is-proved) · [disagreements](#where-the-code-and-its-comments-disagree) ·
[not modelled](#what-is-not-modelled) · [plan](#plan)

## The system's parts

Paths are below `crates/`; `rt/` stands for `pyrust/src/interpreter/runtime/`
and `core/` for `pyrust-core/src/core/`.

| part | where | state | operations | talks to | hard because | correct when |
|---|---|---|---|---|---|---|
| root namespace and `LoadGlobal` cache | `core/environment`, `rt/namespaces`, `rt/fast_path/global_load.rs`, `pyrust/src/bytecode/cache/global.rs`, `rt/program_execution.rs` | EnvValues, globals dictionary, Script register mirrors, four saturating generations, three Bloom masks, one cache entry per name slot | load, store, delete, start and end of an `exec` frame, exposure of `globals()`, writes through the dictionary or the module object | VM instructions, module objects, finalizers | four copies of one binding, invalidated by generations that skip bumps nobody is interested in; `__del__` runs inside `del` | the copies are one mapping; a cache hit is what resolution would return |
| generator protocol and exception state | `rt/vm/entry.rs`, `rt/vm/execute.rs`, `rt/generator_protocols`, `rt/iteration` | a frame and a cell per generator; `handled_exc_stack`, `exc_saved_active`, `active_exception` of the interpreter | next, send, throw, close, for-loop drive, yield, yield from, catch, re-raise, end of an except body | every body may resume any other | three interpreter-wide stacks are cut and re-installed at every suspension; the for-loop trampoline does neither | a body is active at most once, its resumer gets its own exception state back |
| asyncio event loop | `pyrust/src/builtin_modules/bodies/asyncio_py.py` | futures with callbacks, tasks with a waiter and a cancel flag, gathers, ready queue, sorted timers | create, await, sleep, wait_for, gather, set_result, cancel, the turns of the loop | coroutines (generators) | a wake-up, a timer and a cancellation for the same task are queued at once | exactly one resumption per pending task; nothing is lost; timers fire when due |
| async generators | `rt/generator_protocols/coroutines.rs` | awaitables of asend/athrow/aclose, the owner of a running generator | asend, athrow, aclose | generators, event loop | two awaitables driven in turn | one owner at a time |
| import registry, module-class cache | `rt/namespaces/module_registry.rs`, `modules.rs` | the original registry dict, the mapping `sys.modules` is bound to, the owner map, two caches per interpreter | import, a body that returns or raises, reload, edits and rebinding of `sys.modules` | root namespace, module bodies | half-initialised modules seen by others; a file module runs in an interpreter of its own; a cache trusts three generations | owner map and registries agree; a failed import leaves no trace; no stale registry or class |
| attribute caches and class epoch | `core/class_epoch.rs`, `pyrust/src/bytecode/cache/attr.rs`, `rt/fast_path`, `rt/iteration/loop_advance.rs` | one inline entry per instruction, a mutation version per class, one class epoch | GetAttr, SetAttr, CallMethod, ForIter, class mutation, `__class__` and `__dict__` assignment | classes, descriptors, instance storage | an ancestor or a descriptor's class changes between fill and hit, or while the slow path runs Python code; a class dies and another takes its address | a hit does what the slow path would do now |
| functools.lru_cache | `pyrust/src/builtin_modules/bodies/functools` | dict, doubly linked recency list with free list, counters | call, cache_clear | user functions, `__eq__` of keys | the wrapped function and `__eq__` re-enter or clear during a miss | dict and list agree; the least recently used key goes first |
| dict storage | `core/prelude.rs`, `core/dict_probe_index.rs`, `rt/collection_keys` | ordered native map, CPython's probe table built on demand, deletion journal, structural version | lookup, store, pop, popitem, move_to_end, clear, copy | user `__eq__` | `__eq__` changes the dict in the middle of a lookup; the table is reconstructed from a history | one entry per equal key; a lookup answers for the dict as it is; the table is the eager one |
| dict iteration | `rt/iteration/guards.rs`, `state.rs`, `reduce_copy.rs`, `core/containers.rs` | a registration per dict (version, observers, watches, virtual layout), a cursor per iterator | iter, next, drop, `__reduce__`, every mutation helper | dict storage | mutation between two steps; cursors share one registration | no key twice; exhaustion means complete; an error is earned |
| call machinery | `rt/calls.rs`, `call_state.rs` | recursion depth, trampolines | call, return, unwind | VM | balance on every error path | the depth returns to where it was |
| exception objects, tracebacks | `rt/exceptions.rs`, `core/traceback.rs` | chains, frames | construction, rendering | VM | - | data |
| instruction loop | `rt/vm` | registers of one frame | the instruction set | all | - | local to a frame, apart from the parts above |
| lexer, parser, compiler, optimizer | `pyrust/src/lexer*`, `parser*`, `compiler*`, `optimizer*` | none that survives a call | text to tokens to trees to code | - | - | functions of their input |
| classes, descriptors, instance attributes, value model, formatting, introspection, built-in types, library bodies, derive macros, command line | see `PROJECT.json` | data | sequential | - | - | parity with CPython, which the repository's tests compare |

## The modules

| module | models | kind |
|---|---|---|
| `RootNamespace` | root namespace and `LoadGlobal` cache | component |
| `ModuleNamespace` | what a module namespace promises: one mapping per module | abstract specification, implemented by `RootNamespace` |
| `Generators` | generators, `yield from` and the interpreter's exception state | component |
| `EventLoop` | the asyncio loop | component |
| `DictTable` | CPython's key table as a value, and the journal it is rebuilt from | operators |
| `KeyTable` | what the table of a dict must be: one kept up to date by every operation | abstract specification of the table |
| `PyDict` | a dict and the operations of the interpreter on it | component |
| `DictIteration` | live iterators over one dict | component |
| `LruCache` | the wrapper of `functools.lru_cache` | component |
| `Imports` | module loading, the registries and their caches | component |
| `AttributeCache` | the inline cache of one attribute instruction, over classes and instances | component |
| `MCRootNamespace`, `MCGenerators`, `MCEventLoop`, `MCPyDict`, `MCDictIteration`, `MCLruCache`, `MCImports`, `MCAttributeCache` | small instances | model checking |
| `RootNamespace_proofs` | theorems about `RootNamespace`: types, the copies and the refinement, the cache | proofs |
| `EventLoop_proofs`, `Generators_proofs`, `PyDict_proofs`, `DictIteration_proofs`, `Imports_proofs`, `AttributeCache_proofs`, `LruCache_proofs` | theorems about the module of that name | proofs |

### RootNamespace

`ns[r]` is the `RootNamespaceState` of root `r` together with its EnvValues
(`values`) and its globals dictionary (`globals`); `disabled` means that the
dictionary has escaped to Python code and caching is off. `frames` is the stack
of live Script frames with their registers; `global_cache` holds one entry for
each name slot (`Site`).

| action | code |
|---|---|
| `LoadGlobal` | `load_global_cached` on a miss: resolve, register the name's mask, publish an entry; a hit changes nothing and is `Lookup` |
| `AssignName` | `assign_name` at module scope, and `global` names |
| `StoreScriptLocal` | a register store with its `SyncModuleGlobal` |
| `DeleteScriptLocal`; `BeginDelete`, `FinishDelete` | `DeleteLocal` and `DeleteModuleGlobal`; split in two where `__del__` runs between them, so that every other action can happen there |
| `DeleteName` | `Insn::DeleteName` |
| `StartScript`, `EndScript` | `run_exec_code`: register a mirror; drop it, then write the registers back by name |
| `ExposeGlobals`, `AliasKeyMutation`, `AliasFullMutation` | `globals()` and writes through the dictionary |
| `InsertAttr`, `RemoveAttr`, `BuiltinsMutation` | attribute writes on a filesystem module and on `builtins` |

Abstracted: names, values and code objects are model values; a Bloom mask is a
set of bits; `u64::MAX` is `MaxVersion`; a weak handle of a matching entry
upgrades, because the value is still bound. A value is either free to copy
(`AllocFree`) or an instance, perhaps with `__del__` (`Finalizable`).

`Visible(r, name)` is what Python code may observe. The refinement mapping takes
it as the binding of `ModuleNamespace` and the disabled roots as the escaped
ones; `OneMapping` is that module's specification under the mapping.

### Generators

`stack` is the chain of activations of the one thread, the top-level frame
(`Main`) at the bottom. A body is free Python code: between two suspensions it
may do anything its code allows (`Guarded`: it has handlers; `Reraises`: it has
a bare `raise`; `Delegates`: what it may `yield from`). A call is split where a
nested resumption can come between, so `resume_generator_with_exc` is
`Resume`, then `Install` (or `ForwardThrow` when the frame stands on a
`YieldFrom` and an exception is injected), then the steps of the body, then
`Suspend` or `Finish`, and the outcome travels in `signal` to whoever asked
(`Deliver...`).

| definition | code |
|---|---|
| `Resume`, `Install`, `Leave` | `resume_generator_with_exc`, entry and exit of `run_bytecode_inner`: record the depths, install the frame's slices, cut back to the depths |
| `Drive` | `vm_enter_gen_drive`: the for statement's own dispatch loop runs the body and shares its base |
| `Suspend`, `Finish` | `Insn::Yield`, return and escape |
| `ForwardThrow`, `PastYieldFrom`, `DeliverForward` | PEP 380 throw forwarding |
| `AdvanceSub`, `DeliverFrom` | `Insn::YieldFrom` |
| `Catch`, `Reraise`, `EndExcept`, `Escape` | `handle_vm_error`, `RaiseReRaise`, `EndExcept`, unwinding with PEP 479 |
| `CallNext`, `SendToFresh`, `CallThrow`, `CallClose`, `ForIter` | the methods of a generator and `Insn::ForIter` |

`seen` in an activation is history: the exception state its resumer left. All
errors the interpreter makes itself are the one exception `"fault"`.

### EventLoop

`heap` holds futures, tasks and the ready queue, `todo` how many handles the
current turn still runs, `scheduled` the sorted timers. Each handle kind is one
action (`RunStep`, `RunWakeup`, `RunGatherDone`, `RunSetResult`, `RunTimeout`,
`RunStop`); `BeginTurn` is the start of `_run_once`. A coroutine step is a
sequence of free calls (`CreateFuture`, `CreateTask`, `Gather`, `SetOutcome`,
`CallCancel`) closed by one way to end (`Return`, `Raise`, `Await`, `Sleep`,
`SleepZero`, `BadYield`, `WaitFor`).

`Cancel` passes a request on as the code does: a task to what it awaits, a gather
to each of its children in turn. The recursion is a function of the depth
(`CancelTo`), cut at the number of awaitables: nobody awaits itself (`WaitsFor`
in the guards of `Await` and `WaitFor`), so no chain of awaits is longer. The
`index` of a callback is the position of the child that it reports on, which tells
the reports of one child given twice apart.

### DictTable, KeyTable and PyDict

Most dicts of pyrust are only an ordered native map. Where keys of different
representation can be equal (an instance with `__eq__` and a string, a tuple that
contains an instance) the order in which candidates are compared becomes visible
to Python code, and must be CPython's. For that a dict can have a shadow table,
the `index`, which is built on demand; a dict that has deleted keys keeps a
`journal` of its mutations until then.

`DictTable` has the table as a record: `indices` (slots), `entries`, `usable`,
`live`, `unicode`. `ProbeSlots` is the perturbed sequence; `RecordInserted`,
`RecordRemoved`, `RecordPopped`, `Resize` and `CompactedCopy` are the methods of
`DictPythonHashIndex`; `UndoMutations` and `ReplayMutations` are the two halves of
`materialize`: undo the journal from the keys of today back to the base table,
then make the mutations again. The treap that the code uses as an ordered
sequence during the replay is a sequence here.

`PyDict` has `dict`, a record with the fields of `PyDict` (`moved` stands for a
`structural_version` that is not the observed one; `index`, an `Option` in the
code, is a sequence of no or one table), and `call`, the operation whose lookup
waits for an `__eq__`. `Same` holds the pairs of keys that a user's `__eq__` makes
equal; numbers that are equal natively are one key. `answer` and `inserts` are history and bound.

| action | code |
|---|---|
| `Begin` | `dict_insert_value` (`PreparedStore`, `Store`), `dict_lookup` for get, setdefault, pop and `OrderedDict.move_to_end` to either end: answer at once from the native map, or read the candidates and call `__eq__` (`Look`, `Probe`) |
| `Compared`, `EqRaises` | the loop of `dict_lookup_dynamic` after `__eq__` returned: restart if the version moved, hit, miss or next candidate; or it raised |
| `NestedStore`, `NestedMove` | a complete assignment, a complete `move_to_end` to either end, from inside `__eq__` |
| `ShiftRemove`, `SwapRemove`, `PopItem`, `ShiftRemoveMany`, `Clear`, `Copy` | the methods of `PyDict` under those names, also from inside `__eq__` |

`KeyTable.EagerSuccessors` says how the table of CPython would change in one
step; `TableIsEager` states that the table a dict stands for (`TableOf`, whether
it is built or only remembered) makes no other step.

### DictIteration

`dict` is the sequence of live keys, `reg` the registration
(`CollectionMutationStateInner`), `cursors` the iterators, each in one of the
forms `history`, `snapshot` and `seen`, `probe` the throwaway copy that
`__reduce__` drains. `walk` is history: the keys at the start, the keys handed
out, and whether each step met the original order.

| action | code |
|---|---|
| `Iter`, `Drop` | `LiveKeyCursor::new`; dropping an iterator, which leaves its watch on a key behind |
| `StepSizeError`, `StepKeysError`, `StepExhausted`, `StepSnapshot`, `StepLive` | the ends of `advance_live_key_cursor` |
| `ReduceCopy`, `ProbeDone` | `reduce_copy.rs` |
| `Insert`, `ShiftRemove`, `ShiftRemoveMany`, `Clear`, `Extend` | the tracked mutation helpers |

`Without` is the stable removal of `shift_remove` and `retain`. `TrackedMutation`
is what a mutation does to the registration; `LayoutsAfter` lists the layouts of
the virtual table after each of its insertions, from which the position of a key
that came back is read.

### LruCache

`stack` holds the calls of the wrapper that have not returned, each with the dict
it fetched (`held`): `cache_clear()` installs a new one, so a call may hold a dict
that is no longer the cache. `links` is `LruLinks` with its free list. `Call`,
`Hit`, `Miss`, `FunctionReturns`, `Raises`, `AlreadyThere`, `Store` and
`CacheClear` are the stretches of `__call__` and `insert_cache` between two points
where user code runs. `torn` marks what the properties leave out (see below).
`RecencyOf` is the order in which the list goes through the live nodes, from the
least to the most recently used; `LruOrder` says of every step what it does to
that order.

### Imports

`owner` is `module_cache`, `regs` the contents of the registries, `levels` the two
caches of each interpreter (a file module has one of its own), `stack` the bodies
that run, innermost last. `LoadInternal`, `LoadVisible`, `LoadMissing`,
`LoadFresh` and `LoadRefused` are the ways through `load_module`;
`CachedModuleClass` is a miss of the class cache; `BodyReturns` and `BodyRaises`
end a body; `EditEntry`, `Rebind` and `PatchClass` are what a program may do to
`sys.modules` and to a module. `EditEntry` deletes an entry, or stores any module
created so far or something made up, under any name and in any registry: an alias,
a saved module put back, and, entry by entry and followed by `Rebind`,
`sys.modules = dict(sys.modules)`. `touched`, `aliases`, `stray` and `missed` are
history; `aliases` holds the entries in which the program put a module under
another name, in another mapping than it was published in, or again after its body
had failed.

### AttributeCache

`site` is the kind of the one instruction whose `entry` is modelled: a read, a
method call, a write of `obj.attr`, or a for loop, for which `attr` stands for
`__next__`. `attrs`, `version` and `epoch` are the classes with their counters,
`class` the class of each instance, `inst` its storage: inline `entries`, the
`dict` assigned to `__dict__`, the `cell` of a slot. A class is its address;
`alive` says which addresses hold one. `running` is the receiver whose slow path is
in Python code and has not filled the entry yet.

| action | code |
|---|---|
| `RaiseAtOnce`, `FillAtOnce` | a miss whose slow path runs no Python code: an error, or the effect and the fill |
| `StartPython`, `FillLate`, `RaiseLate` | a miss that runs a hook, a descriptor or the method called; it fills afterwards from what the classes are *then* |
| `WriteHit` | a hit of `exec_set_attr`; a hit that reads changes nothing and is `Hit` |
| `SetClassAttr`, `DeleteClassAttr` | `assign_attr_class`, `delete_attr_kind_class`, which bump version and epoch |
| `Retype` | `obj.__class__ = C`, which bumps nothing |
| `EditEntries`, `EditDict`, `EditCell` | the instance's storage changed elsewhere |
| `Die`, `NewClass` | a class is dropped; a class statement, at a free address |

`Slow` is the instruction without its cache, `ReadPlan`, `MethodPlan` and
`WritePlan` are what a completed lookup allows to be cached.

## The runs

Passing runs:

| run | instance | shows |
|---|---|---|
| `namespace_filesystem` | one module root, two names whose masks share a bit, one of them also a builtin, two nested frames, a root-scope and a function slot, generations up to 2 | `CacheCoherent`: a hit is what resolution would return, also at saturation, and a bump is skipped only when no entry needs it; `CopiesAgree`: registers, EnvValues and a dictionary that must be live agree; `TypeOK` |
| `namespace_mapping` | a script root, two names, a code object with registers for both and one that keeps a name in a cell | `OneMapping`: the copies implement `ModuleNamespace`; `MovesAreInvisible`: frames coming and going, cache fills and `globals()` change no name; `ResolutionSound` |
| `generators` | top level, a generator with handlers and one without, delegating to each other | `OneActivation`, `CallerUndisturbed`, `SuspendedSlice`, `DrivenHasNoState`, `StopMeansReturned`, `TypeOK`; `DoneIsFinal`: a finished frame stays finished, and `close()` finishes |
| `event_loop` | two tasks, a future, a gather of two children, one delay | `OneResumption`, `WaiterWillWake`, `TimeoutDisarmed`, `GivesUpOnlyStuck`, `GatherFaithful`, `TypeOK`; `CancelIsNotLost`: a request to cancel stays until the coroutine has been told |
| `event_timers` | two tasks, a future, two delays, fairness | `TimersOnTime`, and the liveness property `WaitingEnds`: a task whose awaited future is done is resumed, a sleep ends |
| `dict_lookup` | a string, a tuple, a tuple with an instance and two instances, all in one probe chain, with equal pairs across representations | `OneEntryPerKey`, `AnswerIsCurrent`: `__eq__` may do anything to the dict and the lookup still answers for the dict it leaves; `ShadowComplete`: counters and table are those of the entries, and `ProbeFindsEveryKey`, which the proofs take from the table |
| `dict_journal` | two keys of different kind, six insertions, presized tables | `TableIsEager`, `ProbeFindsEveryKey`: journal, rebasing, replay and copies |
| `dict_iteration` | three of four keys at a time, two iterators, snapshots from two keys on | `YieldsSound`, `SnapshotIsCurrent`, `RegistrationSound`, `StopMeansComplete`, `ErrorIsEarned` |
| `lru_cache` | unbounded and sizes 0, 1 and 2, three keys, two of them with `__eq__`, six calls nested up to three deep, one clear | `ListIsSound`, `ListIsCache`, `LruOrder` |
| `imports` | `sys`, a built-in with a body, a file, a name that cannot be found; three registries, one of them no dict | `RegistryCacheSound`, `ClassCacheSound`, `RegistriesAgree`, `TypeOK` |
| `attribute_cache` | a base class with a member slot, a class derived from it that may die, an object as class attribute with two possible classes; each kind of instruction, on an instance and on the class; versions up to 1, epoch up to 2 | `HitSound`: whatever changed since the fill, a hit does what the slow path would do now |

Every property of a passing run has a mutant in `PROJECT.json`: a changed form
of one definition, as a plausible bug would change it, under which the run
reports the property violated. The mutants stand beside the definitions they
change, under the comment "mutant".

Some properties leave out a case in which the code really behaves otherwise than
they say. Each is marked in the state and named in the property's comment:

| property | leaves out | what happens there |
|---|---|---|
| `TableIsEager` | steps from a `ConvertedEmpty` dict (`core/prelude.rs:414`) | a dict of strings with a journal is emptied and takes another key: base size and kind are reset, what the journal has left of the old table is not; a later copy or rebase has another layout than CPython's |
| `ListIsCache`, `LruOrder` | what follows a `torn` clear (`lru_cache.inc.rs:50`) | `__eq__` clears the cache during the second lookup of a miss: the node goes to the new list, the entry to the old dict |
| `LruOrder` | a hit in a dict that was replaced during the lookup | the promoted node is one of the new list |
| `StopMeansComplete` | `relinked` (`rt/iteration/guards.rs:737`) | the key yielded last was removed, put back, and shifted to its old index by other removals: the iteration is not restarted and may miss keys |
| `ClassCacheSound` | `stray` modules (`modules.rs:406`) | `load_module` returns the object it made even if its own body took it out of `sys.modules`, and the class cache is filled from it |
| `RegistriesAgree` | `aliases` (`modules.rs:141`) | `unregister_failed_module` removes one name from one mapping: an alias that the program stored of a module whose body then raises stays, and an import of that name finds the failed module |
| `RegistriesAgree` | `missed` failures (`modules.rs:143`) | `sys.modules` was rebound while the body ran: the failed module is removed from the new mapping and stays in the old |
| `CancelIsNotLost` | a task that wakes to a failure (`asyncio_py.py:176`) | the request to cancel is dropped, see below |
| `HitSound` | `slipped` (`instance_attributes.rs:468`) | an object that is a class attribute is given another `__class__` and so becomes, or ceases to be, a descriptor: no counter moves and hits go on as before |
| `HitSound` | `ReadsOldDict` (`core/instance_attrs/storage.rs:319`) | after `obj.__dict__ = d` a warmed read still finds the old inline entries, because `InstanceAttrs::get` does not follow `dict_ref` |

## Bounds

* `RootNamespace`: `MaxVersion` is small on purpose, so that saturation happens
  within the run. Two values suffice to tell a stale copy from a fresh one; two
  frames are the smallest nesting in which a sibling mirror exists. The mirror
  epoch is the one counter kept below its limit (`EpochLimit`): with a saturated
  epoch `namespace_fastlocal_cache_source` finds no registers at all, so names
  that live only there would disappear. It takes 2^64 - 1 frame turns to get
  there, far beyond any program. In `namespace_mapping` `EpochLimit` is
  2 and `MaxVersion` 4 for that reason: each frame turns the epoch twice, so it is
  saturated only once all frames are gone.
* `Generators`: the depth of the stack needs no bound, because no generator is
  active twice (`OneActivation`). `MaxNest` bounds the except bodies around a
  pc, `MaxSaved` the length of `exc_saved_active`. One step of nesting above the
  resumer's is enough to separate "own" from "foreign" entries, the generator
  nests two. The same properties also held with `MaxSaved` = 3 (16.9 million
  states), which is too long to repeat on every change. `Reraises` leaves out the
  generator without handlers; with it `CallerUndisturbed` fails (see below).
* `EventLoop`: `MaxTime` bounds the deadlines. Two tasks, a future and a gather
  put a wake-up, a timer and a cancellation of one task in the queue together in
  every order; larger instances have not been explored. `MaxChildren` is 2: a
  gather is given one awaitable or two, which may be the same one twice.
* `PyDict`: three insertions of new keys suffice to put an instance, its equal of
  another representation and a third key in one chain and to change all of that
  during a comparison; the hashes put all keys of `dict_lookup` in one slot of a
  table of 8 and in two of a table of 16. In `dict_journal` six insertions of two
  keys exceed the five entries of a table of 8, so that the journal is rebased.
  `MaxLog` bounds the table at 128 slots, which no instance reaches. The views
  leave `answer` out of the state because no step reads it.
* `DictIteration`: `Threshold` stands for
  `ADAPTIVE_KEY_SNAPSHOT_THRESHOLD`, small enough that an iterator changes its
  form in the middle of a walk. `MaxVersion` bounds the mutations that one life of
  a registration sees, `MaxLeaks` the watches that dropped iterators leave.
* `LruCache`: three keys for at most two places force evictions; depth three lets
  a call be interrupted by a call that is interrupted itself. One clear is enough
  to leave a call with an old dict.
* `Imports`: `MaxGen` is the generation at which caching stops, reached within the
  run. Three objects and three edits allow a reload of `sys` and a cache that was
  filled, made stale and asked again; bodies nest two deep. `MaxAliases` is 1: an
  alias is never read differently from another, and one is enough to outlive the
  failure of its module.
* `AttributeCache`: `MaxVersion` and `MaxEpoch` are the values at which the
  counters stop, reached within the run; one change and a refill fit below them.
  The version is kept for the classes a receiver can have, because no stamp is
  ever taken of another. One slow path at a time runs Python code; that code
  executes the same instruction and changes classes like any other, so a fill from
  an interrupted lookup meets an entry filled meanwhile. The program sets only the
  special methods that the instruction asks for.

## Fairness

Only `event_timers` uses fairness, for liveness. Weak fairness of `LoopStep`:
`run_until_complete` calls `_run_once` in a loop and never rests while it has a
handle or a timer. Weak fairness of `CoroutineEnds`: the step of a coroutine
reaches its next suspension, return or exception (a body that loops for ever
without suspending blocks any event loop). Strong fairness of the turns that find
the clock advanced: the clock is monotonic and time passes between turns. There
is no fairness among tasks: the order is that of the ready queue.

## What is proved

TLAPS checks the theorems below for every value of the constants that satisfies
the modules' assumptions, so for any number of roots, names, frames, slots,
generators, tasks, futures, modules, classes, keys and nested calls, and any limit
of a counter.
The assumptions only say what kind of thing a constant is and keep markers apart
from values: `ConstantAssumption`, `FinalizerAssumption` (a value that is free to
copy has no `__del__`), `GeneratorsAssumption`, `NamesAssumption`,
`RegistriesAssumption`, `MarkersAssumption`, `GenAssumption`, `ClassAssumption`,
`ValueAssumption`, `LayoutAssumption`, `BoundAssumption`, `LruAssumption`,
`ThresholdAssumption`, `NoKeyAssumption`, `LoopAssumption` (there are finitely
many awaitables), `DictTableAssumption`, `PyDictAssumption` (equality is symmetric,
equal keys have equal hashes, and one of two keys that are equal and not identical
has an `__eq__`). TLC evaluates each of them on the instances. Three groups of
theorems have a hypothesis of their own, named below.

Hardly any of the properties is inductive. What each proof adds is the
interesting part, because it is what the code silently relies on.

### The namespace

`RootNamespace_proofs`, first part:

* `TypeCorrect`: `Spec => []TypeOK`. `TypeOK` is inductive by itself; one lemma
  for each helper (what `Advance`, `SetSlots`, `AssignedNames`, `FilledEntry` ...
  return) and one step for each action.

Second part, invariant `CopiesInv`: every name denotes one value
(`Meaning`), in which each copy agrees or, where the code allows it, is silent; a
register is bound only inside the layout of its code (`LayoutOK`); a name in
EnvValues is in the mask that tells a register store to write it through
(`EnvKnown`, without which a store could leave a stale value behind):

* `CopiesAlwaysAgree`: `Spec => []CopiesAgree`. The work is in the deletions with
  `__del__` between their halves and in the end of a frame, which drops a mirror
  before it writes the registers back.
* `MovesNeverShow`: `Spec => MovesAreInvisible`.
* `CopiesAreOneMapping`: `Spec => OneMapping`, the refinement of `ModuleNamespace`.
  `MeaningAfter` says what a step may do to `Visible`; each action is shown to do
  that or nothing, and each of those is a step of the abstract specification or
  a stutter.

Third part:

* `CacheAlwaysCoherent`: `Spec => []CacheCoherent`, invariant `CacheInv`. On top
  of `CopiesInv` it needs, for each kind of entry (`EntryOK`, `BuiltinOK`), that the
  entry is stamped at or below the current generations and never at the limit,
  that its name is in the interest set that guards the bump, and that as long as
  the stamps match it holds what the copies say. A bump that is skipped is then one
  that no entry can notice.
* `ResolutionAlwaysSound`: `Spec => []ResolutionSound` under the hypothesis
  `EpochLimit + MaxFrames <= MaxVersion`: the mirror epoch does not reach its
  limit while frames are live. In the code the limit is 2^64 - 1 and each frame
  turns the epoch twice; without the hypothesis names that live only in
  registers disappear (see the bounds). `EpochInv` says that the
  epoch and the position of a live frame in the stack together stay within
  `EpochLimit + MaxFrames`: each frame above it turns the epoch at most once more.

### Generators

`Generators_proofs`, each theorem under the hypothesis
`Reraises \cap Gen \subseteq Guarded` (code without an exception handler has no
bare `raise`), without which the code really fails (finding `driven_reraise`):

* `TypeCorrect`: `Spec => []TypeOK`.
* `ExclusiveExecution`: `Spec => []OneActivation`. However next, throw, close, for
  loops, `yield from` and forwarded throws nest, no body is entered twice.
* `ResumerUndisturbed`: `Spec => CallerUndisturbed`. Whoever resumes a generator
  has its own exception state back when the resumption ends.
* `SuspendedSlicesAreOwn`, `DrivenFramesAreClean`, `StopIterationMeansReturn`:
  `SuspendedSlice`, `DrivenHasNoState` and `StopMeansReturned` always hold.
* `FinishedForGood`: `Spec => DoneIsFinal`.

The invariant `IInv` adds what each step relies on:

* `Shape`: the top-level frame is the bottom of the stack and only that; each
  activation waits for the one above it in the way that one was called; only
  generators without handlers are driven;
* `Activated`: no frame occurs twice on the stack and the cells say which
  generators are on it;
* `Kept`: for *every* activation, not only the top one, the exception state that
  the activation above it found (or the current one) still contains, below the
  recorded bases, what its own resumer left. This is the heart: cutting at the
  bases is right only because nobody ever reached below them;
* `SignalOK`, `DelegateOK`, `HandlersOK`: an outcome finds the activation that
  waits for it, a frame at a `YieldFrom` has a sub-iterator, a generator without
  handlers is in no except body.

The proof has three lemmas about the stack (`TopChanges`, `Pushed`, `Popped`), one
for each step actions are made of (`ResumeSound`, `DriveSound`, `GoOnSound`,
`StaySound`, `PopSound`, `LeaveSound`), and one for each action, all with the
conclusion `Sound`: `IInv` holds again and, if an activation ended, the exception
state is the one its resumer left. The hypothesis is used in one place,
`ReraiseSound`. The last four theorems rest on `SInv`, kept beside `IInv`: every
activation that entered its frame owns at most one entry above its base
(`Owned`), a suspended frame has parked at most that (`Slices`), and an outcome
that is no yield comes from a finished frame (`OutcomeOK`).

### The event loop

`EventLoop_proofs`, one invariant `IInv` for all safety properties of the loop,
for any finite set of tasks, futures and gathers, gathers of any number of
children and any delays:

* `LoopTypeCorrect`: `Spec => []TypeOK`;
* `ResumedOnce`: `Spec => []OneResumption`; `WaiterAlwaysWakes`:
  `Spec => []WaiterWillWake`;
* `TimeoutsDisarmed`: `Spec => []TimeoutDisarmed`; `GivesUpOnlyWhenStuck`:
  `Spec => []GivesUpOnlyStuck`; `GathersFaithful`: `Spec => []GatherFaithful`;
* `CancelNotLost`: `Spec => CancelIsNotLost`; `TimersAlwaysOnTime`:
  `Spec => TimersOnTime`.

The argument counts tokens. The right to resume a task is a token, and so is the
report of the k-th child of a gather; a token is a callback left with a future or
a handle in the ready queue. `Body` says that each token is in one place only
(`OnceQueued`, `OnceLeft`, `QueuedOrLeft`) and what its place tells about the state
(`HandleOK`, `CallbackOK`: a wake-up is left with, or comes from, the future that
`_fut_waiter` names; callbacks are left with pending futures only). `TasksOK`: a
task has its token exactly when it is pending and not running, which is
`OneResumption`. `GatherOK`: a pending gather has counted exactly the children
whose token is gone, and each of those has a result.

* `ResolvedBody`, `ResolvedTokens`: resolving a future moves its tokens to the
  queue and neither makes nor loses one.
* `CancelHolds`: `cancel()`, however far it goes, only moves tokens, changes no
  waiter, and where it returns True has cancelled something the future waits
  for. The induction is over the depth of `CancelTo` and, inside a gather, over the
  children, by the least number at which the claim would fail (`LeastIn`).
* `SuspendInv`: `_fut_waiter` and the callback appear together, and a request that
  arrived during the step goes on to the new waiter; that no task comes to wait for
  itself (`StillApart`) is what keeps the order of these two harmless.
* The rest of `IInv` is about timers: sorted, with deadlines ahead of the clock
  (`TimersOK`), and disarmed where no `wait_for` is in force (`QueueDisarmed`,
  `TimersDisarmed`). `TimersAlwaysOnTime` needs the order: `_run_once` stops at the
  first timer that is not due.

Each action is shown to make a `StepOK`: `IInv` again, and the two action
properties for that step.

### Imports

`Imports_proofs`, one invariant `IInv` for all four:

* `TypeCorrect`: `Spec => []TypeOK`, which includes that there is one interpreter
  for each file module whose body runs;
* `RegistryCacheAlwaysSound`: `Spec => []RegistryCacheSound`;
* `ClassCacheAlwaysSound`: `Spec => []ClassCacheSound`;
* `RegistriesAlwaysAgree`: `Spec => []RegistriesAgree`.

`Caches` is the part for the two caches: no cached generation is above that of
its object, and while both are equal and below the limit the cached registry (or
class) is the one in force. `Bodies` says that the bodies running are those of
distinct objects, `Homes` that an entry which is not an alias holds an object under
its own name, in the registry it was published in, and not after its body failed:
without them the removal after a failure could hit another module's entry. That
every write keeps `aliases` exact is `WriteMarks`. `Agree` relates the
owner map to both registries for every name that Python code left alone.

### Attribute caches

`AttributeCache_proofs`:

* `HitAlwaysSound`: `Spec => []HitSound`, with the invariant `Types`, `AliveOK` (the
  class of a receiver is alive), `EntryOK` (a stamp is at or below the current
  epoch, and an entry whose epoch is the current one, below the limit, is the plan
  that a lookup would make now).

The proof uses the class epoch of the stamp only: the per-class version is
redundant for soundness as long as every class mutation bumps the epoch. It is
what lets the code tell a receiver's class apart cheaply, not what makes a hit
right.

### functools.lru_cache

`LruCache_proofs`, one invariant `IInv`:

* `ListAlwaysSound`: `Spec => []ListIsSound`; `ListAlwaysCache`:
  `Spec => []ListIsCache`; `OrderAlwaysLru`: `Spec => LruOrder`.

`ListOK` says that some sequence of distinct nodes is the list (`ListOf`: each
link is the neighbour in the sequence) and covers exactly the nodes that are not
free; every change of the links is shown to be a removal from or an append to that
sequence. `OneOrder` shows that there is at most one such sequence, so the order
that `LruOrder` speaks of is determined by the links. `Entries` matches list and
dict unless `torn`; `StackOK` says that a call in its second lookup holds the
current dict unless `torn`, which is exactly the case the code does not cover.

### Dict lookup

`PyDict_proofs`, for any keys, hashes and equalities and any number of insertions:

* `NoEqualEntries`: `Spec /\ []ProbeFindsEveryKey => []OneEntryPerKey`;
* `AnswersCurrent`: `Spec /\ []ProbeFindsEveryKey => AnswerIsCurrent`.

The hypothesis is all that the proof takes from the key table: a probe meets every
entry of its hash once. It is an invariant that both dict runs check; for every
table it would need induction over data (see below). The theorems divide the
work: layout and replay of the table with TLC, the protocol of a lookup that user
code interrupts with the prover.

The invariant `IInv` (`DictInvariant`) has two halves. `DictOK`: no two entries are
equal, the counters of instances and of dynamic keys are exact, and a dict in
which keys of different representation meet has its table. Without the last part
the shortcuts would be wrong: a dict without a table has no tuple with an instance
and either no instance or nothing else, so that the bucket of the native map holds
every equal entry (`CandidatesComplete`), a lookup that asks only the native map
misses none (`ImmediateRight`), and an assignment may skip the lookup
(`NoDedupRight`). `CallOK`: unless the version moved, what is left of the candidates
of a waiting lookup is a part of the entries that has every entry equal to the
key. That is why every method must change `structural_version` exactly when it
changes the set of keys, which is shown method by method; `move_to_end` changes
only the order and need not.

### Dict iteration

`DictIteration_proofs`, for any finite sets of keys and iterators, any threshold
and any bound on versions:

* `SnapshotAlwaysCurrent`: `Spec => []SnapshotIsCurrent`; `YieldsAlwaysSound`:
  `Spec => []YieldsSound`; `RegistrationAlwaysSound`: `Spec => []RegistrationSound`.
* `StopAlwaysComplete`: `Spec => StopMeansComplete`; `ErrorAlwaysEarned`:
  `Spec => ErrorIsEarned`.

The invariant `IInv` relates each walking cursor to its history. `Form` says that
each of the three forms tells exactly which keys were handed out: the first `pos`
of a snapshot, the order of a history, the set `seen`. `Current` is what a cursor
may rely on while it sees the version it observed, `Yields` that no key came
twice. `Reached` is what completeness needs: unless the last key was removed
since, every key up to it was handed out, so the index walk may go on behind it.
The one gap, a last key that was removed and is found at its old index, is the
flag `relinked`, and `StopMeansComplete` excludes it by name. `Watch` says that a
note about the last key of a quota was made since that key was yielded, which
makes the "keys changed" error earned; `Counted` that the registration counts the
walking cursors and has at least their watches; `NotesOK` that only watched,
missing keys are pending.

A mutation is treated once, by what it may do to an order (`Edit`: surviving keys
keep their relative order, new keys come behind them), and each helper is shown to
be such an edit. A step of a cursor is split into what preparing it leaves
(`Ready`, `ReadySnapshot`, `ReadyLive`, `ReadyFlags`) and what the yield or the end
makes of that.

`RInv` adds what `IInv` leaves open of the registration: the virtual table counts
the keys (`RegOK`). `LayoutsAfterOK` follows the layout through the insertions of
one transaction, by the first insertion that would go wrong. `SizesSuffice` shows
that a table of three times the keys has room for one more, so the saturating
subtractions of `for_len` and `insert` never saturate.

### Only model-checked

* Liveness (`WaitingEnds`) needs fairness, which the prover does not handle.
* `PyDict`: what the recursive functions and folds of `DictTable` compute for every
  input (`ProbeSlots`, the replay of a journal) would need induction over data,
  which the installed provers cannot do. So `ProbeFindsEveryKey`, `TableIsEager` and
  the part of `ShadowComplete` about the table stay with TLC.

## Where the code and its comments disagree

One run expects a violation of a property that a comment of the code states:
`driven_reraise` checks `CallerUndisturbed` where a generator without handlers
has a bare `raise`. The comment says that the pop is "Bounded by this frame's base
depth so we never reach into caller entries" (`execute.rs:1197`); a generator that
a for statement drives has no base of its own, and the bare `raise` removes the
consumer's entry.

Six more disagreements were met while modelling. They have no run of their own:

* a finalizer runs "only after the last Python-visible binding is gone"
  (`namespace_ops.rs:205`); in a nested `exec`, `__del__` runs while the register
  of the outer frame still binds the name (`namespace_ops.rs:133`);
* `_must_cancel`: "the next step throws CancelledError into the coroutine"
  (`asyncio_py.py:146`); a task cancelled between the failure of its awaited
  future and its wake-up sees the failure, and the cancellation is dropped
  (`asyncio_py.py:176`);
* the timer of `wait_for` flags "that *it* triggered the cancellation (vs an
  external cancel)" (`asyncio_py.py:464`); an inner task cancelled from outside
  and not yet resumed is claimed by the timer;
* "the outer handler's exception is visible again after an inner handler exits"
  (`interpreter.rs:162`); an exception re-raised inside an except body and caught
  again there leaves the body without an active exception (`execute.rs:1206`);
* "Hot-path callers (VM inline cache) consult this to skip the `entries` fast path"
  (`core/instance_attrs/storage.rs:119`, of `is_dict_backed`); no hot path calls it, and `exec_get_attr`
  reads `entries` of an instance whose `__dict__` was replaced;
* that no data descriptor of the name exists on the class is a fact "invalidated by
  the existing `mutation_version` (this class mutated) + `class_epoch` (any ancestor
  mutated) guards" (`bytecode/cache/attr.rs:86`); giving the attribute's value
  another `__class__` moves neither.

## What is not modelled

Within the modelled parts:

* `RootNamespace`: `exec`/`eval` with caller-owned dictionaries, PEP 695
  type-parameter scopes, class annotation scopes, `import *`, rebinding of
  `__builtins__`, builtin exception classes as a fallback. The runs have one root;
  that no cache entry answers for another root with equal counters
  (`global.rs:110`) was checked once with two and is not among the runs. A
  saturated mirror epoch (`lexical_scope.rs:367`) hides names that live only in
  registers; see the bounds.
* `Generators`: async generators, `PushExcContext` (an exception that leaves an
  except body through a finally clause), the call trampoline, the recursion
  limit, built-in iterators as sub-iterators, values and tracebacks, errors
  specific to coroutines. Known and not stated as a property: `close()` of a
  delegating generator whose sub-iterator swallows GeneratorExit (`entry.rs:100`),
  the `active_exception` of its first resumer that a suspended generator keeps
  (`execute.rs:1732`), and the entry that stays on `exc_saved_active` when an
  exception leaves an except body for an outer handler of the same frame
  (`entry.rs:747`).
* `EventLoop`: user done-callbacks (one that raises leaves `_run_once` in the
  middle of a turn, `asyncio_py.py:298`), `set_result` on a task, cyclic awaits, the refusal of a
  nested `asyncio.run`, `wait_for` on something already done.
* `PyDict`: values, hashing, access to the native map that bypasses the methods
  (`DerefMut`, which marks the metadata as imprecise), the bulk paths of
  `update`, saturation of `structural_version`. An assignment or a `move_to_end` inside
  `__eq__` is one step. Sets (`set_probe_index.rs`) have a table of another shape and are not
  modelled.
* `DictIteration`: values and items (the same cursor), reversed and set iterators,
  OrderedDict, containers whose dictionary can be replaced.
* `LruCache`: an `__eq__` that goes on calling the wrapper after its own calls have
  evicted every key with an `__eq__`, how arguments become a key (`lru_key.inc.rs`), `cache_info`,
  `cache_parameters`.
* `Imports`: submodules and the attributes of module objects, `sys.path` and
  finding a file, `importlib` beyond `load_module`. `PatchClass` patches modules that
  were loaded as the built-in; a file module stored under its name has no class
  attribute in the model.
* `AttributeCache`: the construction cache, metaclasses, `__getattr__`,
  `__delete__`, class and static methods written in Python, attributes of
  exceptions and numbers, receivers that are neither instance nor class. A value
  that an entry holds weakly is alive as long as the class attribute is.

The modelled definitions stand for about 9,200 of the 178,000 lines of the
implementation. The rest is mostly sequential: tables, conversions, and the many
bodies of built-in types and library modules.

Other parts: lexer, parser, compiler and optimizer are functions of their input
with nothing to interleave, and equality of two programs for every input is not
something small instances say much about. Value layout, reference counts and
unsafe code lie below the level at which an object is one model value. Built-in
types and library bodies are sequential data transformations that the
repository compares with CPython. The parts marked "planned" in `PROJECT.json`
come next.

## Plan

In this order; each new module brings its instance, its mutants and, where the
prover can reach it, its theorems.

1. `AsyncGenerators`: the awaitables of asend, athrow and aclose over the frame
   states of `Generators`.
2. `CallDepth`: the recursion counter on every exit path.

A new component should bring few and strong properties: the whole set of runs and
mutants is meant to be repeated on every change.
