# A verification of WeaveFFI

WeaveFFI turns an annotated Rust library (the *producer*) into packages for
other languages (the *consumers*). This directory holds TLA+ models of the parts
whose correctness depends on order: what the runtime does when calls, threads,
callbacks, cancellations and panics interleave, and what the generator does to a
user's directory. TLC checks each model on small instances; TLAPS proves the
invariants of the core modules for every value of the constants.

## 1. Inventory

The system has four layers.

**The C-ABI runtime** (`crates/weaveffi/src/rt`), linked into every producer.
Every exported symbol runs through it. It is the part with real concurrency:
consumer threads, executor threads and callbacks share its state.

| Part | State | Operations | Hard behaviour | What makes it correct |
|---|---|---|---|---|
| async calls (`spawn.rs`, `call.rs`) | `Completion` (completion, `launching`, `dropped`) behind a mutex, shared by the launcher and the task's `Guard`; the `SPAWNER` slot | `launch_async`, `run_async`, `spawn`, `default_spawn`, `Guard::complete`, `Guard::drop` | the executor may run, hand off, drop or refuse the task, or panic, while the launcher is still inside `spawn` | the completion fires exactly once, with the outcome of what happened |
| cancel tokens (`cancel.rs`) | flag, registrations, a waker slot per call, the `Arc` count | create, cancel, destroy; `Cancellable::poll` and `drop`; `CancelToken::from_raw`, `clone`, `drop` | a cancel racing a poll; destroying the token while calls are in flight | no missed wake-up, no slot left behind, an exact count |
| iterators (`iter.rs`, `iter_step`) | `Mutex<Option<Iter>>` | `_next`, `_destroy` | concurrent and re-entrant `_next`, panics of the producer's `next` | one advances at a time, nothing lost, nobody waits |
| objects (`object.rs`) | an `Arc` per reference the consumer holds | lend, lift, lower, clone, destroy, tokens in buffers | references crossing in buffers, adopted or lost half-way through a failed lift | the count of references, each released once |
| callbacks (`callback.rs`) | vtable, context, the thread that owns a thread-bound implementation | adopt, entry lookup, call, drop | calls off the owner's thread, a throwing implementation, a producer that drops the last reference anywhere | `free` called once; a failure never unwinds into C |
| errors (`error.rs`) and runs (`run.rs`, `buffer.rs`) | an owned message and payload; an allocation handed over C | store, clear, adopt, free | one owner at a time, on every failure path | every allocation is freed once |
| types and metadata (`types.rs`, `meta.rs`) | none (const tables) | lift and lower each family | boundaries of integers, tags, lengths | a malformed value fails the call and releases what was lifted |

**The macros** (`crates/weaveffi-macros`) expand `#[weaveffi::export]` into
thunks that call the runtime; `crates/weaveffi-model` is the IDL, its validation
and the ABI model (names, signatures, contracts). Both are sequential and pure; in
the validation, searches that depend on the order of the declarations must give results
that do not.

**The generator** (`crates/weaveffi-cli`) builds the producer, reads its metadata,
plans every target's files (`codegen/mod.rs`), compares the plan with the output
directory and its records (`record.rs`), and writes, checks or prints
the difference (`commands/generate.rs`). Before that, the model crate validates the
API: what its rules accept must lower, and what they reject must be impossible. Its state is the file system: a run may
stop between any two writes, the user edits files between runs, and targets may
share directories. It must remove what it no longer generates and touch nothing
else.

**The consumer runtimes** (`crates/weaveffi-cli/src/targets/*/runtime`), one per
language, hold the other half of every protocol above: handles that must not be
released while a call borrows them, completions that arrive on a foreign thread,
cancellation of an awaiting task, callbacks kept alive for the producer. Each is
written anew for its language's threads, locks and garbage collector.

| Consumer | Object wrapper | Asynchronous call | Callbacks |
|---|---|---|---|
| Go | `wvRef`: one atomic word, closed by calls, closers and the runtime's cleanup | `wvAwait`: the goroutine cancels, and waits on a channel | any thread |
| Kotlin | `NativeHandle`: the same word, with a cleaner thread | `awaitNative`: a coroutine, its cancellation handler, a monitor around the token | any thread |
| Python | `_Object`: a lock, a count, a closing flag, `__del__` | a future of the event loop; a cancelled task waits for its call | any thread |
| Ruby | the same, but the flag is cleared with the pointer | a queue; interruptions of the thread | any thread |
| .NET | `SafeHandle` (the platform's) | `FfiCall`: a gate and two flags decide who destroys the token | any thread |
| Dart | as Python, on one thread | the event loop | bound to the isolate: calls and the release are messages |
| JavaScript | as Python, on one thread | the event loop | the one thread |
| Swift, C++ | the language's own reference counts | a continuation, a promise | any thread |

How they interact: a consumer runtime calls the thunks over C; a thunk lifts the
inputs, calls the producer and lowers the result, so each resource (object
reference, run, callback, token, iterator) changes owner at a call boundary; an
async launcher returns at once and later calls the consumer's completion from any
thread; a callback calls back into the consumer with the producer's stack below.

The rows of `PROJECT.json` under `components` say for each part whether it is
modelled, and under `hazards` what can go wrong at which line and which property
is about it.

## 2. Plan

Ordered by how much depends on the part and how little a test can reach it.

| Step | Module | About | Abstract specification | State |
|---|---|---|---|---|
| 1 | `AsyncCall` | launcher, executors, task, Guard | `CompletionPromise` (fires once, with a justified outcome) | done, proved |
| 2 | `CancelToken` | tokens and the `Cancellable` future | none: the invariants say it | done, proved |
| 3 | `IterHandle` | `_next` and `_destroy` | none | done, proved |
| 4 | `Generate` | planning, writing and recording the output of `generate` | none | done, proved |
| 5 | `Crossing` | objects and callbacks crossing in synchronous calls, failing and panicking ones included | none: the counts say it | done, proved |
| 6 | `ForeignCallback` | an implementation that the producer's threads share, on its own thread or any | `Handle` | done, proved |
| 7 | `AtomicHandle` (Go, Kotlin), `LockedHandle` (Python, Ruby) | closing a wrapper while calls borrow it and the collector runs | `Handle`: freed once, after the last borrow, never lent after close | done, proved |
| 8 | `KotlinAwait`, `DotnetAwait`, `PythonAwait`, `GoAwait` over `AwaitCall` | the consumer's side of a completion, of a cancelled wait and of a failed launch | `AwaitPromise` | done, proved |
| 9 | `ErrorSlot` | who owns a message, a payload and a returned run when calls and callbacks fail | none: the count says it | done, proved |
| 10 | `Validate` | the type rules, the recursion and carrier searches, and the lowering they guard | reference closures | done for types, proved |
| 11 | `AsyncSystem` | one behaviour of a consumer's await, `AsyncCall` and `CancelToken` together | a call as the consumer sees it | to do |

`AwaitCall` stands for `AsyncCall` in step 8: the library completes a launched call
once, on any thread or inside the launch or the cancel, which is what
`CompletionPromise` allows. Step 11 would replace that by the module itself.

Theorems worth proving, in order: exactly-once and the refinement of step 1, no
lost wake-up and the exact count of step 2, exclusion and no lost item of step 3,
the exact counts and the adoption of step 5, the clean and current directory of
step 4, the refinements of `Handle` of steps 6 and 7, the refinements of
`AwaitPromise` of step 8, the count of step 9, the closures of step 10. All are done:
every invariant and every refinement that a passing run checks is a theorem, and
step 11 is what is left to model and then to prove.

## 3. The modules

### `CompletionPromise`, `AsyncCall`: async calls

`CompletionPromise` is what a launcher promises: after `Launch` the completion
fires once (`Complete`), and a call whose token had fired before the launch
never gets the producer's result. It knows no threads.

`AsyncCall` is `rt/spawn.rs` with the completion guard of `rt/call.rs`. Each
action is one critical section, one poll of the future, or one callback.

| State | Code |
|---|---|
| `complete`, `launching`, `dropped` | the three fields of `CompletionState` behind the mutex |
| `default`, `spawner`, `via` | the executor compiled in (Tokio, a thread per call, wasm32), the `SPAWNER` slot, the one the task went to |
| `launcher`, `spawned`, `error` | where `launch_async` is, what `spawn` returned, the outcome it will deliver itself |
| `task`, `holder`, `refused`, `verdict` | the async block of `run_async`, who has it, and the outcome it is about to deliver |
| `doomed`, `abandoned`, `unwound`, `fired`, `outcome` | history |

The launcher (`Launch`, `PrepareFails`, `SpawnOk`, `SpawnFails`,
`LauncherDecides`, `LauncherFires`) runs against the executor (`HandOff`,
`Refuse`, `ExecutorDrops`, `Wake`) and the task (`BeginPoll` ... `TaskFires`,
`GuardDrops`, `GuardFires`). A custom spawner may poll inline, drop the task or
panic; Tokio may refuse to build its runtime and a thread may fail to start; on
wasm32 no panic is caught.

### `CancelToken`: cancel tokens

`rt/cancel.rs`, one atomic operation per action. `flag` is the atomic, `slots`
the registrations, `waker` a slot's content, `refs` the `Arc` count. A cancel is
`CancelStores`, `CancelTakes`, then for each slot `CancelTakesWaker` and
`CancelWakes`; a poll is `BeginPoll`, `RegisterSlot`, `StoreWaker`, `CheckSet` or
`CheckClear`, then `InnerReady` or `InnerPending`; `Deregister` and `Leave` are
the end, in the order the fields are dropped. `woken` is the executor's side: a
task is polled only after its waker was called.

### `IterHandle`: iterators

`rt/iter.rs` and `iter_step` of `rt/call.rs`. `slot` is `IterHandle.inner` being
`Some`. `_next` is `Next_` (or `NullOutItem`, which fails before the iterator
is touched), `Take` (the iterator, or "already being advanced"), the producer's `next`
(`Yields`, `Ends`, `NextPanics`), `PutBack`, `Lower`. A call may be made by the
producer's code of another call (`outer`). `_destroy` is allowed when no call is
in flight, which is the C ABI's contract.

### `Crossing`: objects and callbacks in synchronous calls

`rt/object.rs`, the lifts of `rt/types.rs`, adoption in `rt/callback.rs`, the
counters of `rt/leak.rs`, `call` of `rt/call.rs` and the thunk
`weaveffi-macros/src/function.rs` expands to. An argument is the sequence of the
parts that matter here: a borrowed object, an owned one, an object token in a buffer, a
callback, a lift that fails, a lift that panics. `place[p]` says where part `p`
is: sent, adopted by the thunk (`local`), stored by the producer (`kept`) or
released.

| Actions | Code |
|---|---|
| `Clone`, `Destroy` | `object_clone`, `object_destroy` |
| `Begin`, `EncodeToken`, `PassCallback`, `Enter` | a binding that encodes its arguments and calls the thunk |
| `LiftBorrow`, `LiftArc`, `LiftToken`, `LiftCallback`, `LiftNext` | the thunk's lifts, all of them, one after the other |
| `Reject`, `Unwrap` | a lift that returns an error ends that argument; the thunk reports the first one after the last lift |
| `LiftPanics` | a custom type's lift panics, caught by `call` around the whole body |
| `Lend`, `MethodReturns`, `AdoptLifts`, `AdoptReleases`, `DropResult` | the producer calls a callback's method that takes and returns the object |
| `Keep`, `ReturnsObject`, `Returns`, `Drop`, `Done`, `DropKept` | the producer stores, returns or drops what it was given |

### `Generate`: writing the output directory

`codegen/mod.rs` and `record.rs` of the CLI. `disk` is the output directory,
`record` the generation records. `Plan` compares the rendered files with both;
`Apply` takes a target, `Write` and `Remove` carry out one entry, `Records`
writes the record, `Finish` ends the run. A run may stop between any two steps
or inside a write (`Interrupted`, `WriteInterrupted`, `RecordInterrupted`), and
the user writes or removes files at any time (`UserWrites`) and edits or damages
records (`UserEditsRecord`). `Fold` makes the file system fold case.

### `Handle` and its implementations: `AtomicHandle`, `LockedHandle`, `ForeignCallback`

`Handle` is what a resource that one side holds for the other promises: `Lend` to a
call unless closed, `Return`, `Close`, `Free` once, when closed and lent to
nobody. `HandleThreads` and `CallbackThreads` declare the threads.

`AtomicHandle` is `wvRef` of `go/runtime/runtime.go` and `NativeHandle` of
`kotlin/runtime/Runtime.kt`. `state` is the atomic word (bit 0 closed, the rest
counts calls), `seen[t]` what thread `t` loaded; `Acquire`, `Release` and `Close`
are the compare-and-swaps that follow `Load`, `Retries` a swap that lost,
`Destroy` the native destroy of the thread that brought the word to "closed, no calls".

`LockedHandle` is `_Object` of `python/runtime/core.py` and the wrapper of
`ruby/runtime/runtime.rb`. `held`, `closing` and `calls` are the fields; `Acquire`, `Refused`,
`Release` and `Close` are the critical sections, `Finalize` is the collector's, `Free`
the destroy after the lock is left. When the pointer leaves the wrapper Ruby clears the
closing flag and Python leaves it set: the model leaves the flag open then, which covers both.

`ForeignCallback` is the proxy of `rt/callback.rs` that the producer's threads share
through an `Arc` (`holders`); `affine` says whether its vtable is bound to a thread. `Runs` and `Returns` are a call on its thread,
`Refused` a failed `check_thread` or `entry`, `Posts` and `Receives` Dart's messages to
the isolate (`dart/runtime/callbacks.dart`), `Frees` the vtable's `free`.

### `AwaitPromise`, `AwaitCall` and the awaits

`AwaitPromise` says what an await owes its caller: the completion finds its entry
and takes the outcome once, the token is destroyed once and not under a native
cancel, and the wait ends only with what happened. `AwaitCall` holds what the
consumers share: one call, the native library (`native`: running until it fires an
outcome), the caller, a canceller and the completion, which runs `on` a worker or
inside the launch or the cancel. Each consumer adds its call object (`call`) and steps:

| Module | Code | Its own state |
|---|---|---|
| `KotlinAwait` | `awaitNative`, `NativeCompletion` (`Async.kt`) | continuation, monitor held while cancelling, token left to it |
| `DotnetAwait` | `FfiCall` (`Runtime.cs`) | task, the registration, `completed` and `cancelling` under the gate |
| `PythonAwait` | `aio.py`, `cancel.py` | the future, what the loop is to resolve, how often the task was cancelled |
| `GoAwait` | `wvAwait` (`runtime.go`) | the channel, what was received, the context |

A completion may fail to read what it is given. A value it cannot read becomes a failure
(`Received`), and so, in .NET, Python and Go, does an error it cannot read. Kotlin makes
the exception of an error where nothing catches what that throws but the callback's last
resort, which ignores it: `SettleThrows` ends the completion and leaves the coroutine
suspended. `AwaitEnds` names that case (`Abandoned`) and excludes it; section 6 says what it means.

### `ErrorCodes`, `ErrorSlot`: failures and the runs they own

`ErrorCodes` declares the codes of an error domain. `ErrorSlot` is
`rt/error.rs` and the outcomes of `rt/callback.rs` and `rt/call.rs`. A call is
`Begins` ... `Returns` or `Throws`, then `Releases` (or `Discards`, without a
completion). In between a callback's method may allocate its return
(`Allocates`), report failures (`Reports`, `Attaches`), again and again, and `Answers`
takes its outcome, or a custom type's lift panics in it (`AdoptPanics`). `err` is the
proxy's slot and `out` the consumer's or the box of a completion; `runs` is the
ALLOCATIONS counter of `rt/leak.rs`.

### `MCConsumers`

One instance for all of the above: a behaviour is of one part (`part`: "atomic", "locked",
"callback", the call of Kotlin, .NET, Python or Go, or "errors"), the variables of
the others are constant. What several parts promise is one property:
`HandlePromise`, `HandleFreed`, `AwaitPromise`, `AwaitEnds`.

### `Validate`: types and where they may be used

`rules.rs` and `model/build.rs` of the model crate. A type is the sequence of its parts
in the order `TypeRef::walk` visits them (a map, its key, its value), so a rule that
walks a type quantifies over its positions, and `Open` tells which sequences are types.

| State and actions | Code |
|---|---|
| `carriers`, `before`, `todo`: `Visit`, `NextPass` | `object_carriers`: one declaration of a pass; another pass while one adds something |
| `found`: `Declarations` | `rules::check` and `Cx::declarations`, each rule an operator that returns its violations (`type_ref`, `interface_positions`, `no_callback_interface`, `Param`, `Returns`, `callback_method`, `no_object_in_payload`) |
| `starts`, `start`, `stack`, `visited`: `Search`, `Follow` | `check_recursion`: a depth-first search from each type with an edge |
| `Judge`, `Build` | the decision, and the lowering of an accepted API, which may fail |

A pass visits its declarations and a search its stack in any order: the code's order is
one of them, so the results are shown not to depend on it.

## 4. What the runs show

| Run (cfg) | Instance | Checked | Shows |
|---|---|---|---|
| `async_call` (`AsyncCall.cfg`) | 1 call with a token | `AtMostOnce`, `NoLostCompletion`, `CancelledForAReason`, `Promise`, `CancelCompletes`, `EveryLaunchCompletes` | the completion fires once on every executor and for every order of launcher, task, Guard and cancel; the protocol implements `CompletionPromise`; a cancelled call completes whatever its future does, any call does unless its future stays pending for ever |
| `async_call_unwinds` (`AsyncCallUnwinds.cfg`) | 1 call | `NeverUnwinds`: violated | finding 1 |
| `cancel_token` (`CancelToken.cfg`) | 2 calls on 1 token, 2 cancelling threads | `NoLostCancel`, `RegistrationsInFlight`, `CountsHolders`, `CancelEndsCalls` | no wake-up is missed, no slot outlives its call, the count is exact, a cancelled call ends |
| `iter_handle` (`IterHandle.cfg`) | 3 calls, 3 items | `AdvancedByOne`, `BusyOnlyWhileAdvancing`, `InOrder`, `NoItemLost`, `NextReturns` | one call advances at a time, no panic wedges the handle, nothing is lost or reordered, nobody waits |
| `generate` (`Generate.cfg`) | 2 targets, 2 APIs, 2 paths, damaged records | `UpToDate`, `NoStaleFile`, `OwnFilesOnly` | a run that completes leaves its targets up to date and without stale files, after any interruptions for the same API and any edits of files; whatever a record says, a run changes only files of its own targets that it renders or that the record lists |
| `generate_stale` (`GenerateStale.cfg`) | 2 targets, 2 APIs, 3 paths | `NeverStale`: violated | finding 2 |
| `generate_folded` (`GenerateFolded.cfg`) | the same, case folded | `UpToDate`: violated | finding 3 |
| `crossing` (`Crossing.cfg`) | 2 calls, each with any of 5 argument lists | `CountExact`, `CountersExact`, `OthersAdopted` | every reference and callback is counted and released once, and adopted unless its own argument fails |
| `crossing_panics` (`CrossingPanics.cfg`) | the same | `AllOthersAdopted`: violated | finding 4 |
| `consumers` (`Consumers.cfg`) | 2 calls, 2 closers and the collector on a wrapper; 3 producer threads and 3 calls on a callback; one await of each consumer; failing calls with 2 error codes | `HandlePromise`, `HandleFreed`, `CountsCalls`, `FreedOnce`, `AwaitPromise`, `AwaitEnds`, `WaitsForNative`, `RunsOwned`, `FieldsOfTheCode` | wrappers and implementations are freed once, never under a call, and are freed; awaits keep what they promise through every race of completion, cancellation and failed launch, and end, but for Kotlin's unread error (section 6); every run has one owner, and a typed error its own fields |
| `consumers_python` (`ConsumersPython.cfg`) | the same | `NothingOutlivesCall`: violated | finding 5 |
| `validate` (`Validate.cfg`) | 15096 small APIs | `AcceptedBuilds`, `RecursionExact`, `NoTokenInPayload`, `RejectedForAReason`, `Decides` | what the rules accept lowers, what they reject could not be generated; the searches find what they should in whatever order they go, and end |

The runs `async_call`, `cancel_token`, `iter_handle` and `crossing` also check their module's
`TypeOK`, which says that no count goes below zero; those of `Generate` and `MCConsumers`
are only proved (`TypeCorrect`), and `Validate` has its types in the invariant of its proofs. For each property `PROJECT.json` names a variant of one
definition, a plausible defect of that code (a decision that ignores the drop, a
slot registered too late, an item pulled before its out-pointer is checked),
under which the property fails; the variants stand next to what they vary in
the modules, and no `Next` uses them.

### Bounds, and why they are enough

- `AsyncCall`: calls share nothing but the installed spawner, which may be installed
  at any time before one is launched, so one call suffices. The theorems hold for any set.
- `CancelToken`: a race needs one call and one cancel; the second call makes
  registrations interleave on one token, the second thread cancels at the same
  time. The theorems hold for any number.
- `IterHandle`: an advancing call, one its own producer code makes, and one of
  another thread; three items, so that each may get one. `Items` and the
  set of calls are arbitrary in the theorems.
- `Crossing`: two calls at once; the argument lists (`MCCrossing`) put a failing
  or panicking argument before, between and after arguments that carry a token, an owned
  object or a callback. `Width` bounds arguments and the parts of one.
  `MaxHandles` = 2 bounds `Clone`: the consumer has a spare reference or its last.
  Calls are alike, so they are taken up to renaming. The theorems hold for every
  number of calls, `Width` and set of argument lists.
- `Generate`: a rename needs two APIs and two paths of one target; the second
  target's record may come to list the first one's files, which its runs must leave alone. Runs are
  unbounded in number. The theorems hold for any targets, APIs and paths.
- `consumers`: a wrapper is contended by two calls, two closers and the collector,
  which makes every pair of them race while a third moves. `MaxCalls` = 3 and three threads:
  a callback runs, has a message under way and is dropped at once. An await is one
  call, whose races are between its own threads; a Python task is cancelled at most
  twice, since after the second time nothing waits. `MaxLost` = 1 bounds the
  panics of an adoption; a slot's states repeat from the second report on, so the number
  of reports is unbounded. The theorems hold for any calls, closers, workers, `MaxCalls`,
  codes and `MaxLost`.
- `validate`: the rules look at one type at a time, nested up to three constructors,
  and at the graph of the declarations. A record, a second type of every kind, an
  interface or callback interface and an error domain give it every kind in every position;
  three types that hold one another and an interface in all 4096 ways (`Graphs`) give it the
  cycles, the chains longer than a pass and the two branches that meet. The theorems
  hold for any APIs.

Deadlock is not checked: calls are made once each, wrappers are closed, an API is
validated once, and a project may stay as it is, so every instance may stop. What must not stop is in the liveness properties.

### Fairness, and why the code justifies it

- `AsyncCall!Fairness`: `spawn` returns (`Spawner::spawn` must not block), the executor takes
  a task or refuses it and polls what was woken (the trait's
  documentation), the launcher's thread runs on, and the token wakes a task it
  has cancelled, which is `CancelEndsCalls` of `CancelToken`. The producer's
  future is not assumed to resolve.
- `CancelToken!FairSpec`: a thread inside `cancel` runs to its end, and the executor polls
  a woken task. Neither the producer's future nor its wake-ups are counted on.
- `IterHandle!FairSpec`: a call of `_next` runs on, the producer's `next` included.

- `consumers`: a thread that took the pointer or dropped the last share frees it,
  a callback's method returns, Dart's isolate runs its event loop (`Progress` of each handle),
  and the steps of an await's own program run (`Program`): the native library
  completes what it launched, which `EveryLaunchCompletes` shows, completions run to
  their end, event loops and goroutines run. What the environment does is not
  fair: a coroutine or task is cancelled, a context is done, a launch throws
  only if it happens. Kotlin's and .NET's critical sections are single steps, so a
  lock is never held for ever.
- `Validate`: the validator runs on; it is one thread, and nothing it waits for.

The executor's fairness is an assumption about custom spawners: one that keeps a
task without polling or dropping it never completes the call.

## 5. What is proved

TLAPS checks every proof; `tlapm` leaves no obligation open.

| Module | Theorem | Of |
|---|---|---|
| `AsyncCallProofs` | `TypeCorrect`, `FiresAtMostOnce`, `NeverLost`, `CancelledOnlyForAReason` | `TypeOK`, `AtMostOnce`, `NoLostCompletion`, `CancelledForAReason` |
| | `ImplementsPromise` | the refinement `Promise` |
| `CancelTokenProofs` | `TypeCorrect`, `CancelNotLost`, `SlotsInFlight`, `CountExact` | `TypeOK`, `NoLostCancel`, `RegistrationsInFlight`, `CountsHolders` |
| `IterHandleProofs` | `TypeCorrect`, `Exclusive`, `NeverWedged`, `NothingLost`, `DeliversInOrder` | `TypeOK`, `AdvancedByOne`, `BusyOnlyWhileAdvancing`, `NoItemLost`, `InOrder` |
| `CrossingProofs` | `TypeCorrect`, `Counted`, `CountersTrue`, `Adopts` | `TypeOK`, `CountExact`, `CountersExact`, `OthersAdopted` |
| `GenerateProofs` | `TypeCorrect`, `OwnFiles` | `TypeOK`, `OwnFilesOnly` |
| | `CompletedIsUpToDate`, `StaleFilesGo` (where every path names its own file) | `UpToDate`, `NoStaleFile` |
| `ConsumersProofs` | `TypeCorrect`, `CountIsExact`, `FreedExactlyOnce`, `NativeIsWaitedFor`, `EveryRunOwned`, `TypedWithItsFields` | `TypeOK`, `CountsCalls`, `FreedOnce`, `WaitsForNative`, `RunsOwned`, `FieldsOfTheCode` |
| | `HandlesKeepTheirPromise`, `AwaitsKeepTheirPromise` | the refinements `HandlePromise`, `AwaitPromise` |
| `ValidateProofs` | `AcceptedIsBuilt`, `RecursionFound`, `NoTokenDiscarded`, `RejectsForAReason` | `AcceptedBuilds`, `RecursionExact`, `NoTokenInPayload`, `RejectedForAReason` |

`HandleProofs` holds the lemmas of `ConsumersProofs` about wrappers and callbacks, one invariant
and one step-by-step refinement for each.

They assume what the modules state of their constants and nothing else: tokened
calls are calls, the calls of a token and those of a crossing are finitely many
(a count is a cardinality), each call has a token, argument lists are
sequences of parts no wider than `Width`, the threads of a wrapper are finitely
many and distinct, a callback's owner is one of its threads, the codes of a domain are none of the
codes every callable may report, and the types of an API are types (`ApisAssumption`; the
names of an API need not even be finitely many). Two theorems of
`GenerateProofs` have the hypothesis `DistinctFiles`, that the file system folds
no path onto another: without it they are false, which is finding 3.

Each follows from an inductive invariant, in most cases more than the
properties say.

- `AsyncCall`. The completion is one ticket (`OneTicket`): exactly one of the
  shared state, the launcher, the task and the consumer has it. To keep it there the
  launcher's place must fix the shared flags (`Phases`: `launching` is set
  exactly while `spawn` runs or is being judged, a ticket left by a task that is
  gone has `dropped` set while the launcher still looks), a token that had fired
  keeps the future unpolled (`Doomed`), and a cancelled outcome is traced to
  its cause (`Reasons`). The refinement maps `launched` to "the launcher has
  been entered"; `LauncherFires`, `TaskFires` and `GuardFires` are the abstract
  `Complete`, `Launch` and `PrepareFails` its `Launch`, and the other steps but
  `Cancel` stutter.
- `CancelToken`. A cancel that stores its flag after a call read it takes that
  call's slot later, so the slot must be there (`Slotted`), its waker in it or
  already called (`Armed`), and a call that goes on under a set flag must have a wake-up
  under way (`Heeded`). The count is proved apart: each step moves the call
  between sets whose cardinalities the count adds up (`CountMove`).
- `IterHandle`. The iterator is in one place (`OnePlace`), each item up to `pos`
  has exactly one call (`Accounted`), and what a call got follows from where it is
  (`Pulled`, `Ordered`).
- `Crossing`. That counts are natural numbers follows from their being exact, so
  `Types` leaves it out and `TypeCorrect` is proved last. Every step is shown to
  have one of four effects (`Effect`): it moves a handle, one part, one result,
  or begins a call; what an effect does to the cardinalities is one lemma each
  (`PartMoves`, `ResultMoves`). `OthersAdopted` needs the order of lifting: a
  part not lifted yet is ahead of the cursor or in a failed argument (`Order`).

- `Generate`. `OwnFilesOnly` follows from what a plan holds (`Planned`: writes are files
  the API renders for the target, removals files of the target's record). That a
  completed run is up to date needs what is left to do at each point of a run
  (`Rest`: what the plan of a pending target does not name is as it should be), and what an
  interrupted one leaves (`Covered`: each generated file is listed by its target's
  record or rendered by an API whose run began since the target was completed).
- `AtomicHandle`. The word is twice the calls that borrow plus one if closed
  (`CountsCalls`); a thread that goes on to swap loaded an open word
  (`AtomicLoadedOpen`), so a swap that succeeds moves an open word. "Closed and no calls"
  equals "one thread frees, or freed" (`FreedOnce`). `LockedHandle` has the
  same shape with the pointer in place of the word (`LockedCounted`): once it has left
  the wrapper no call borrows it, whatever the closing flag says.
- `ForeignCallback`. A call is in one place, a thread or a message (`CallbackSeparate`), and the
  release is last in the queue, after the last share and before the one free (`CallbackReleased`).
- The awaits. What they have in common is `CallInv`: where the caller is fixes what exists,
  and the completion runs once, with its entry. Each adds who may still destroy the token
  (`HoldsToken` where it is the caller; in .NET the flags `completed` and
  `cancelling` under the gate, tied to where the completion and the canceller are), and that
  what the wait received is what the native call ended with, or the failure to read it
  (`Fits`). `WaitsForNative` follows for Go and .NET; for Python it does not, which is finding 5.
- `ErrorSlot`. That the live runs are those owned by a slot, a return or a result, and the lost
  ones, is inductive once a slot that nobody may read is known to be empty (`ErrorsInv`); each
  step moves one owner's runs (`OwnedRuns`, `Emptied`).
- `MCConsumers`. `IInv` says of the part that runs what its own invariant says and of the others
  nothing, and a step of `Next` is a step of one part; so the theorems are about each part as such.
- `Validate`. Reachability is stated without paths: `m` is within `n` when it is in every set
  that has what `n` holds and is closed (`Reaches`), which needs no induction. A search ends
  with a set that is closed but for what its stack still has to follow (`SearchInv`), so an
  empty stack makes it a closed set, and a start that is not reported is not in it
  (`SearchEnds`). A pass keeps two bounds (`PassesInv`): what is in `carriers` leads to an
  interface, and what the types known when the pass began lead to is in it, once visited; the last pass
  added nothing, so both meet. That an accepted API lowers goes through what the rules require of
  a type (`RulesRequire`), part by part, and that rejection has a reason through its
  converse (`RejectedTypes`).

Only model-checked: the liveness properties (`CancelCompletes`, `EveryLaunchCompletes`,
`CancelEndsCalls`, `NextReturns`, `HandleFreed`, `AwaitEnds`, `Decides`), since they rest on fairness and so on
`ENABLED`, which is out of the prover's reach. The runs that expect a violation are about instances.

## 6. Findings

1. `async_call_unwinds`, documentation. `rt/spawn.rs:36-38` says a spawner never
   observes an unwinding future. `Cancellable::poll` drops the producer's future
   outside `CatchUnwind` (`cancel.rs:255`), so a panic in one of its destructors unwinds into
   the executor. The completion still fires.
2. `generate_stale`, documentation. `record.rs:5-7` says a renamed type never leaves
   a stale file. The record is written after a target's files (`codegen/mod.rs:289`); a run that stops
   in between leaves files no record lists, and if the next run renders another
   API they stay for good.
3. `generate_folded`, a bug. Paths are compared as strings and new files are
   written before stale ones are removed (`codegen/mod.rs:283`), so where the file system folds case a
   rename that changes only the case deletes what was just written, and the run
   reports success.
4. `crossing_panics`, documentation. `docs/src/reference/abi.md:315-318` says every
   argument is lifted even when another fails. A custom type's lift that
   panics (`rt/types.rs:813`) ends the lifting, and what later arguments carry is
   never adopted.

5. `consumers_python`, documentation. `python/runtime/cancel.py:11-13` says that nothing outlives
   the call. A task that is cancelled again while it waits for its cancelled
   completion swallows the second cancellation (`cancel.py:19`), destroys its token and
   raises with the native call still running.

Two more are in the models and have no run of their own; the properties of `consumers` name
them and leave them out.

- A bug in Kotlin. `NativeCompletion.complete` makes the exception of a failed call outside the
  `try` that guards the reading of a value (`kotlin/runtime/Async.kt:63-71`). A typed error's payload
  that does not decode throws (`Buffers.kt:121`, through the `fromCode` of `kotlin/entities.rs:576`);
  the call has left `PendingCalls` (line 107), line 114 ignores what was thrown, and the coroutine is
  not resumed: it stays suspended unless it is cancelled. Line 104 says that a completion
  "hands its outcome to the call's coroutine", and line 121 that `awaitNative` "suspends until it
  completes" (`SettleThrows` of `KotlinAwait`; `AwaitEnds` without `Abandoned` fails on it).
- A custom type's lift that panics while a callback's return is adopted (`rt/types.rs:177`)
  leaves the run of the return unreleased (`AdoptPanics` of `ErrorSlot`; `RunsOwned` counts it apart).

## 7. What is not modelled

`PROJECT.json` lists every part with its reason. In short:

- planned: the composition of step 11;
- the rules of validation about identifiers, duplicate names, throws, codes, symbols,
  cancellable functions and constructors that return or are asynchronous, which look at
  one declaration at a time;
- what lending a callback's arguments leaves behind when one of them panics
  (`weaveffi-macros/src/callback.rs:250`), Ruby's await with the interruptions of its thread
  (`runtime.rb:673`), and the callback tables and iterators of the consumers other than Dart's;
- wrappers and awaits that have no protocol of their own: .NET's `SafeHandle`, Swift's and C++'s
  reference counts, promises and continuations, JavaScript's and Dart's wrappers (`LockedHandle` on
  one thread);
- pure rendering, encoding and conversion, covered by unit, snapshot and fuzz tests:
  the macros' expansion, the generators, the codecs;
- sequential work over external tools without state of its own: discovery,
  cargo, building, packaging;
- details the models abstract: texts of messages, the values that cross, the
  memory order of atomics (the flag is sequentially consistent, the rest is
  under locks), optional and list forms of an argument, which repeat the parts
  `Crossing` has, and the leak counters of tokens and iterators.

The definitions stand for about one line in twenty of the implementation. Most of the rest has no
state that steps could disturb: the largest part is the renderers of the targets, the text of their
runtimes' codecs, and the samples; then the parser, the metadata and the codecs of values, the command
line's options and the build and packaging commands. A model of a renderer would repeat
its text, and a model of a codec is its inverse law, which the repository's round-trip and fuzz tests
state over the real bytes.
