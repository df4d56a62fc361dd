# A formal model of vllm-cpp-rs

TLA+ specifications of the parts of `vllm-cpp-rs` in which threads, processes or
failures meet, with TLC configurations that check them on small instances and
TLAPS proofs of what holds for every instance.

The repository wraps a native C++ inference library (`libvllm`, not part of the
repository) in a safe Rust crate, `vllm-cpp`, over a raw one, `vllm-cpp-sys`.
The definitions here are translated from the Rust code. The native library and
`hf-hub` are external: they are modelled from how the code uses them and from
what its comments rely on, and `PROJECT.json` marks these definitions so.

## 1. The system

| Component | State | Operations | Interaction |
|---|---|---|---|
| Request lifecycle (`request.rs`) | `Request { raw, callback, processor, engine }`, `AsyncCallbackState` (result, stopped flag, delivery thread), the queue of `CleanupJob`s | `submit`, `is_done`, `cancel`, `wait`, `drop`, the reaper, the callback trampoline | native code calls the trampoline on a delivery thread of its own; drops inside callbacks go to the reaper thread |
| Engine ownership (`engine.rs`) | `Arc<OwnedEngine>` | clone, drop, `vllm_engine_free` | held by `Engine` clones, requests and cleanup jobs |
| Logits processors (`params.rs`) | id counter, registry of `Weak` references, per processor its failure and its active threads | registration and its drop, the native trampoline | native workers call by id; a request's drop asks whether it runs inside its processor |
| Hugging Face resolver (`hf.rs`) | none of its own; the cache's refs and snapshots on disk | `resolve` online and offline, for GGUF and Safetensors | the cache is shared with other processes; `hf-hub` writes to it |
| Blocking calls (`engine.rs`, `callback.rs`, `error.rs`) | a callback state on the stack; a result guard | `complete`, `complete_tokens`, `complete_stream`, `chat*` | a synchronous trampoline; thread-local native diagnostics |
| Loading and marshalling (`engine.rs`, `params.rs`, `abi.rs`) | builders, owned storage behind raw structs, the ABI proof an engine keeps | setters, conversion, ABI check, overlay of settings on native defaults | hands versioned structs to native code |
| Transcription, embedding, video (`engine.rs`) | one exclusively owned handle | load, one blocking operation, free | single-threaded |
| Build planning (`vllm-cpp-sys`: `build.rs`, `build_config.rs`, `build_support.rs`) | the plan, the directories chosen, the directives printed | validation, native build or search for an installed library, linking | Cargo features, environment, CMake, file system, linker |
| Chat example (`examples/chat.rs`) | message history, the answer being streamed | turns with rollback, `/clear`, leaving | `chat_stream_json`, `chat_json`, the terminal |

What is hard about them:

* **Request lifecycle.** `vllm_request_free` joins the delivery thread. A request
  may be dropped anywhere, its own callback and its own logits processor
  included, where a join would wait for itself. The callback state, the
  processor registration and the engine must be released in an order that native
  code cannot trip over, while it may still be in a callback. `wait` has to say
  how a request ended although the callback, the canceller and native code race.
* **Logits processors.** Native code holds an integer and may use it late. The
  state behind it is destroyed by whoever holds the last `Arc`, possibly a native
  worker at the end of a call.
* **Resolver.** Downloads fail half-way, processes die, several of them share the
  cache, the branch moves on the hub, and `hf-hub` writes refs by itself.
* **Blocking calls.** A panic, a malformed delta, a processor failure and a native
  failure can meet in one call, and one of them is reported. Callbacks may make
  blocking calls themselves, on the same thread, and the native diagnostic is the
  thread's. Native results must be freed on each of many early returns.
* **Native values.** Counts come as signed integers of fixed width next to pointers
  without a length; sizes go the other way. Products and ranges can overflow, on a
  32-bit target before any other check fails.
* **Loading.** Setters come in any order, so what excludes each other is only seen at
  the conversion. A zero means "automatic" in one native field and "no limit" in
  another. Some calls check the ABI, others rest on the proof of an engine made before.
* **Build script.** What CMake compiles in and what is linked for it are two lists made
  apart from each other. The linker searches directories in the order in which they
  were printed, whatever directory a library was chosen from. One environment variable
  is read twice, by different rules.
* **Chat.** A turn can fail in the engine, in a chunk, on the terminal, or in several of
  them, after part of the answer has been shown; the history must stay a conversation.

## 2. Modules

| Module | Of | Lines of code |
|---|---|---|
| `RequestLifecycle` | requests, engine ownership, reaper, delivery threads, workers | `request.rs` 1-557, `engine.rs` 20-24 and 1376-1382, `params.rs` 514-517 and 551-599 in outline |
| `LogitsRegistry` | registrations and the processor trampoline | `params.rs` 422-606 |
| `RequestOwnership` | what requests and engines promise; `RequestLifecycle` refines it | the same, without threads |
| `HfCache` | resolution into a shared cache | `hf.rs` 127-139, 196-641 |
| `BlockingCall` | blocking calls, their callbacks, what they report and free | `callback.rs` 8-105, `error.rs` 123-146, `engine.rs` 1199-1360, 1749-1826, 1932-1993, 2453-2497 |
| `NativeResult` | sizes, counts and pointers that cross the C boundary | `engine.rs` 766-853, 1828-2443 |
| `EngineLoad` | builders, conversion, ABI check, defaults | `engine.rs` 133-1009, 1199-1201, 1376-1863 and 2336-2404, `params.rs` 76-405 and 639-647, `abi.rs` 5-59 |
| `ChatSession` | the interactive chat program | `examples/chat.rs` 17-82, 138-605 |
| `BuildPlan` | the build script of `vllm-cpp-sys` | `build_config.rs` 7-479, `build.rs` 39-412, `build_support.rs` 4-115 |
| `MC...` | the small instances for TLC | |
| `...Proofs` | theorems about `RequestLifecycle`, `RequestOwnership`, `LogitsRegistry`, `HfCache`, `BlockingCall`, `NativeResult`, `EngineLoad`, `ChatSession` and `BuildPlan` | |

`RequestLifecycle` composes the engine with its requests. It uses of a logits
processor only which threads are inside it and what failure it left
(`active`, `failure`); that this information is exact is what
`LogitsRegistry!ActiveIsExact` and `FirstFailureWins` say of the real
bookkeeping.

### RequestLifecycle

`stage[r]` says where a request is: being submitted by `actor[r]`, `live` in the
hands of the application, used by `cancel` or `wait`, `queued` for the reaper, or
at one of the steps of `CleanupJob::cleanup_now`, which are steps of their own
because other threads run between them: free, callback, processor, engine.
`delivery[r]` is the native delivery thread (waiting, inside the callback, done),
`active[r]` the threads inside the processor. `engineHolders` are the owners of
the `Arc`. The thread that acts is an application thread, the delivery thread of a
request (named by the request), a worker, or `Reaper`; `MayUse` says which of
them can reach a handle. With `CrossLifecycle` callbacks may use the handles of
other requests, without it only their own.

An operation that blocks is split at the call: `WaitEnter` / `WaitReturn`,
`FreeEnter` / `FreeReturn`. An operation that probes and then acts is split
between the two: `CancelProbe` / `CancelNative`. The code that runs on one
thread between two shared accesses is one step.

External: native submission, cancellation, delivery of events and its end, and
calls of the processor. Native code ends a delivery only between two callbacks,
and reports a request done only when its terminal callback has returned, which
`request.rs` relies on when it reads the result after `wait`.

### RequestOwnership

A request is held from its submission, closes when it is dropped, and is gone when
its native request is over and its owners are released. The engine is there for
clones and for requests that are not gone; whoever leaves it unused starts to free it.
There are no threads, callbacks, queues or reaper. `HandleSeen`, `NativeSeen` and
`ClonesSeen` in `RequestLifecycle` are the refinement mapping. A request counts as
held from the native submission on, although `submit` has not returned yet: callbacks
can already run. A drop closes it whether it is deferred or not, and the release is
the drop of its `Arc`. Its liveness is that of `RequestLifecycle` (`DropCompletes`,
`EngineFreed`) and is not part of the abstract specification.

### LogitsRegistry

A registration goes through new, claim, insert, live, remove, dropped; the
compare-exchange of the id is an action that succeeds, one that fails and one that
finds the counter exhausted and aborts. A worker's call is split at every access
to shared state: lookup and upgrade (under the lock), the test of `failure`, the
guard's push, the body, the record of a panic, the guard's `swap_remove`, the drop
of the `Arc`. Calls may be made with any id that was ever given to native code.

### HfCache

`refs` and `snapshots` are the cache on disk; `pc` and the local variables belong
to the processes. Every access to the disk or the hub is a step, and writing a ref
is two (create, which truncates, and fill), since a crash or a reader can come in
between. A cache may start empty or with what an earlier resolve left
(`EarlierCache`). What an online resolve downloads is computed by the functions of the
same names as in the code: the index comes first, and the weights after everything
else that is named. With `HonestHub = FALSE` a download can come from a commit other
than the one asked for, which is what the code's own checks are about (`hf.rs:554`).
An index is the set of the shards it names, `{}` for one that does not parse. `created`
notes a ref that has been truncated, until it is filled or the failure is reported.
A commit may hold a single weights file, an index, or both: then the file is what a plan
takes, but a snapshot that foreign downloads have filled can be complete by its index, and
is handed out offline. What makes a model (`HasModel`) is therefore stated apart from the
plans. Not modelled: syntax checks of names, the builder, the token, and the letter case of
a SHA.

### BlockingCall

A thread has a `stack` of calls: a stream callback can make blocking calls, whose
callbacks can again. A call is in native code, in its callback, at its `checks` or on
its way out (`leave`). When native code returns, the call gets the list of checks its
Rust function makes in the code's order (`complete_stream`, `complete`,
`chat_json`, ...), and each check is a step, because a worker may still fail in the
call's processor between two of them. Copies of the diagnostic and frees are steps of
the list too, since a free is a native call and clears the thread's diagnostic
(`last_error`). `unwinding` is a panic on its way to the trampoline that catches it,
or, resumed by an inner call, to the one around it.

Storage that native code allocated for a call is freed in one of three ways. A result is
held by a guard (`NativeResultGuard`, `NativeStringGuard`) from the step that arms it
(`ArmGuard`), and only then does `Return` free it; the load of a video engine frees the
handle of a failure itself (`FreeOutput`); and the handle of a load that succeeds moves to
the engine that is returned. Loads have no guard.

"result" stands for transcription, embedding, video generation and mux composition,
and "load" for every load but the video engine's: their control is the same. External:
native code sets its thread's diagnostic before it returns a failure, sends nothing
after the finished text or a callback that declined, and leaves nothing in the output of
a call that fails, except for the load of a video engine. The code assumes the latter too:
the other wrappers do not look at the output of a failure (`engine.rs:1760`), so a native
load that left a handle there would leak it. Applications do not catch panics inside their
own callbacks.

### NativeResult

A call is marshalled, answered and converted. `ValidSizes` are the checks on the way
to native code, and native code then answers anything its types allow: any count,
any pointer, any kind of string. The conversions are those of the code, with
`usize::try_from`, `checked_mul` and the checks before `from_raw_parts` written as what
they compute. The widths of the integers are constants. What a string or an argv holds
is reduced to what the code looks at: null, empty, valid UTF-8; terminated, or with a
null before its end. The five numbers of a video result are represented by the least
of them. `Honest` states native code's side of the contract. Not modelled: allocation
failure (`try_reserve_exact`), the parsing of chat JSON, and paths of platforms other
than Unix.

### EngineLoad

A call is built (`NewBuilder`, `Configure`), converted (`Marshal` or `MarshalFails`),
checked (`CheckAbi` or `AbiMismatch`; a call on an engine passes this over, because its
engine holds the proof), laid over native defaults, and made. A setting is reduced to
what the conversion tells apart: unset, valid, zero, too large for the signed native
field, empty, with a NUL, and too long for native code's buffer. The structs include the
parameters of a transcription, which are versioned too; a call on an engine can only be
made while there is one (`engines`). `scalars` stands for
the sampling parameters that are handed on without a look at them. External: native
defaults, and the outcome of a call. How the native call itself fails, what is reported
and who frees what it left is `BlockingCall`'s.

### ChatSession

One thread goes from `start` to the `prompt`, and for each message through `turn`,
`streaming` or `blocking`, and back, or to `exited`. `history`, `checkpoint`, `assistant`
and `failure` are variables of the program; `request` is what the engine was asked,
`transcript` what the user has said and seen, and `faults` what has failed around the
program. These three are not in the code: they are what its behaviour is compared with.
External: the user, the terminal, any of whose writes may fail, and the engine.
After a first error the stream callback only declines, and the event that says finished
adds nothing: neither is a step. Not modelled: parsing of the command line, sampling
options, and wording.

### BuildPlan

`main` goes from the plan (all of `build_config::plan`) to the sanitizers, the native
build or the system root, the search for the library, the directives that link it, the
check of the CMake cache, the remaining requirements and the sanitizers' runtimes. Each
stage is a step that succeeds or panics. `disk` says which directories hold which
libraries: any layout that CMake, the CUDA toolkit or the provider of a system library may
leave. The variables of the environment are reduced to what the script tells apart,
`chosen` is the directory each library was chosen from, and `native` what was compiled in.
External: CMake, the file system, and the linker, which takes the first match in the order of the
search directories and resolves from left to right.

A static system build prints the directory of `VLLM_CPP_BLAKE3_LIB_DIR` first
(`build.rs:248`). If it holds a `vllm` besides the archive, that one is linked, and not the
one the script chose: `LinkedAsChosen` excepts this case (`Shadowed`), without which TLC
violates it. No document says that the directory may hold one, so this is a hazard in the
list, and not a finding.

CUDA libraries have the same trouble. `link_cuda_component` checks the file in CMake's
cache, but prints its directory and the library's name (`build.rs:318-322`). If `cudart`
lies in one directory and CMake's `cublasLt` in a second, a `cublasLt` in the first is
linked, although `vllm-cpp-sys/README.md:29` says "Static mode links CMake's exact
`CUDA_CUDART` and `CUDA_cublasLt_LIBRARY` results", and line 31 the same of the driver for
Triton. So `LinkedAsChosen` is stated of vllm and its archive only; stated of a CUDA
library as well (`LinkedFromChosen("cublasLt")`), TLC violates it with such a layout. Of
MLX, the frameworks and the platform's libraries the model knows that they are linked, not
where the linker finds them.

## 3. Runs

| Run | Question | Instance; distinct states |
|---|---|---|
| `request_one` | One request with a processor: all ways to submit, use and drop it against delivery, a worker and the reaper | 1 request, 1 application thread, 1 worker, 1 event before the end, 2 processor calls; 30 thousand |
| `request_cross` | May callbacks touch other requests without a use after free or a self-join, and does the whole implement `RequestOwnership`? | 2 requests, one with a processor; 1.8 million |
| `request_crossjoin` | (violated) Is every dropped request joined, even from another's callback? | 2 requests |
| `registry` | Claims of ids up to the end of the counter, and calls against registration and removal | 3 registrations, a counter with room for 2, 2 workers, 1 call each; 213 thousand |
| `hf_faulty` | A hub that answers from the wrong commit, a crash, two resolves in a row | 1 process, an indexed commit, one with both kinds of weights, and the branch, any request; 1.4 million |
| `hf_two` | Partial snapshots, moving refs, a death, and offline readers next to online ones | 2 processes, an indexed commit, one with both kinds of weights, and the branch, any request, 1 crash, from an empty or an earlier cache; 1.2 million up to symmetry |
| `hf_sharef` | (violated) Does a revision's ref wait for a complete retrieval? | 1 process |
| `blocking` | What does a call report, and what does it free, when things go wrong at once and calls are nested? | 1 thread, all operations, 3 calls up to 3 deep, 1 event per stream; 1.1 million |
| `native_values` | Which sizes, counts and pointers get through, and what becomes of them? | 4-bit `i32`, 5-bit `i64` and `usize`; 1.2 million |
| `load` | What crosses the boundary, and when? | all calls, 2 in a row with 3 settings each, a library of either ABI; 995 thousand |
| `chat` | Is what the engine is told what the user saw, after any failures? | 3 messages or commands, streams of 2 events, 2 texts and 2 pieces; 1.0 million up to symmetry |
| `build` | Does a script that succeeds link what it built, vllm and its archive from where they were chosen? | all selections of features Cargo allows, 3 targets, all environments, all layouts; 564 thousand |

What the properties say is written above each of them in the modules. In short:

* `RequestLifecycle`: callback state outlives native use (`CallbackOutlivesDelivery`),
  no self-join (`NoSelfJoin`), no abort (`DropNeverAborts`), no engine teardown on its
  own threads (`TeardownOffCallbacks`), truthful, complete and repeatable outcomes of
  `wait` (`OutcomeSound`, `EndIsClassified`, `WaitStable`), and that drops, waits and
  the engine's release come to an end (`DropCompletes`, `WaitReturns`, `EngineFreed`).
* `RequestOwnership`: implemented by `RequestLifecycle` (`ImplementsOwnership`): the
  engine outlives every native request, and ends come before releases.
* `LogitsRegistry`: calls reach their own processor or none (`OwnProcessorOnly`), states
  live as long as they are used (`StateOutlivesCall`), active threads are exact
  (`ActiveIsExact`), late calls do nothing (`StaleCallsDoNothing`), the first failure
  wins (`FirstFailureWins`), every state is released (`StateReleased`).
* `HfCache`: a successful resolve is complete and of the commit asked for
  (`ResolvedComplete`), the branch's ref leads only to complete snapshots
  (`AliasComplete`), a ref is left empty only by a death or a failure that was reported
  (`EmptyRefIsReported`), and a pinned ref is honest when its resolve returns
  (`PinnedRefHonest`, for one process: another process' download may write it again at
  any time).
* `BlockingCall`: a callback's panic reaches the outermost caller through any nesting
  (`PanicReachesCaller`), success means that nothing went wrong (`SuccessIsClean`), a
  diagnostic is that of the failed call (`DiagnosticIsOwn`), and no path leaks a native
  result or handle: the guard, or the free of a failed video load, comes before every
  check that can end the call (`NothingLeaks`).
* `NativeResult`: sizes arrive as given (`SentAsGiven`), slices are defined behaviour
  (`SlicesAreSound`), a result fits its call (`ResultFitsCall`), and no honest result is
  refused (`HonestIsAccepted`).
* `EngineLoad`: no versioned struct crosses before the ABI is known (`AbiBeforeStructs`),
  and a struct holds only what native code takes, with the library's defaults where the
  application was silent (`NativeContract`).
* `ChatSession`: the engine always gets a conversation with alternating sides
  (`HistoryAlternates`), made of the finished answers as they were shown
  (`HistoryIsTranscript`); the program fails exactly if its surroundings do
  (`FaultsEndTheProgram`).
* `BuildPlan`: everything that was compiled in is linked, in order (`LinkIsComplete`),
  vllm and its archive from the directories they were chosen from, one case apart
  (`LinkedAsChosen`), and both readings of the sanitizers agree (`SanitizersAgree`).
  `LinkIsComplete` compares with `Needed`, the model's own list of what each component
  refers to; it is the table of `vllm-cpp-sys/README.md`.

### Why the bounds are enough

*Requests.* The invariants relate a request to the engine, to a second request
(through a callback that touches it, or the queue) and to the threads in its
callbacks; two requests reach every pair, and the proofs remove the bound for the
invariants. One non-terminal event distinguishes every order of events, stop, cancel
and end that `result` tells apart. Two processor calls give one that fails and one
that comes late.

*Registry.* Two workers in one processor make both orders of leaving, which is what
`swap_remove` can get wrong; the proof covers any number. Three registrations are
one more than the counter has room for.

*Cache.* The resolver's steps look at one commit's plan and one other commit that a
ref or a file can wrongly belong to. Two resolves in a row (`hf_faulty`), or a cache that
starts with what one left (`hf_two`), show what a failed or dead one leaves to the next.
The proofs cover any number of processes, commits, resolves and crashes.

*Blocking calls.* Three deep is a panic resumed in a callback around a callback, the
first case in which a thread resumes what it did not catch first. One event per stream
is enough to reach every mix of `error`, `panic` and `stopped`: delivery ends with the
first event that sets one. Threads share nothing, so there is one.

*Native values.* The integers are so narrow that every sum and product overflows
somewhere in the instance. `IsizeMax` is a bit wider than `I32Max`, so that an argv with
its terminator fits and a product of two counts does not. The proofs are for all widths.

*Loading.* The rules of the conversion relate at most three settings (a keyframe or a
reference, another one, and a third of any value), and a call depends on earlier ones
only through the engine one of them made: three settings and two calls. The proofs have
no such bounds.

*Chat.* A failed turn leaves its mark, if any, on the next turn's request; three inputs
are a turn, a command or a failure, and a turn after it. Two events make an answer that
breaks off in the middle.

*Build script.* There is no bound: the sets are those that the script tells apart. Only
the combinations that Cargo rules out, and variables without their feature, are left out
(`MCBuildPlan`).

All runs check deadlock but `request_cross` and `request_crossjoin`: callbacks that
join each other can really block each other (the finding below). Programs that end do so
with an explicit stuttering step (`Exited`, `Finished`).

### Fairness

`RequestLifecycle!Fairness`: threads that can take their next step do so (weak
fairness of `Resume`, of the reaper's receive and of engine teardown); user
callbacks and processors return after finitely many lifecycle calls of their own
(strong fairness, since each such call suspends the body); and native code ends the
delivery of a request that is cancelled, stopped or finished. No fairness makes a
generation finish by itself: `WaitReturns` is about requests whose end is due. Liveness is
checked with one request (`request_one`), so `DropCompletes` says nothing of a job that
waits in the reaper's queue behind another; that such a job is done at most once, and
after its request has ended, is part of `ImplementsOwnership`, with two.
`LogitsRegistry!FairSpec`: a call that native code made returns. `HfCache` has no
fairness and no liveness property; a network call may hang. `BlockingCall`,
`NativeResult` and `EngineLoad` have none either, as a native call may take for ever, nor
have `ChatSession`, whose user may never answer, and `BuildPlan`, which runs CMake.

## 4. Proofs

`tlapm` checks every leaf, with SMT, Zenon and, for temporal steps, LS4.

**Requests.** `TypeCorrect`, `Invariant`, and from it `CallbackLives`,
`EngineLives`, `NeverJoinsItself` and `NeverAborts`, for any requests, threads and
bounds. `CallbackOutlivesDelivery` is not inductive: that `FreeReturn` precedes the
drop of the box is only true because a request in the last cleanup stages has no
delivery any more, and `NoSelfJoin` needs that whoever acts inside a callback is
recorded as being there. `IInv` therefore ties the stages to the delivery, the box
and the holders of the engine (`HandleInv`), the queue to the stages (`QueueInv`),
threads to the places where they run (`ThreadInv`), and includes the reaper's
being up.

What `wait` returns (`OutcomesAreTrue`, `EndsAreClassified`, `WaitsAgree`) rests on a
second invariant, `ReportInv`. The callback's record says what became of the last event
(`CallbackInv`); the cause of the end agrees with that event, and a cancellation of a
request still in use is recorded by its handle, because the probe precedes the native
call (`EndInv`); so all a result is made of is settled when native code is done, and what
was returned once is what would be returned now (`WaitInv`). `TornDownOffCallbacks`
assumes callbacks that keep to their own request: then only application threads and the
reaper clean up (`TeardownInv`).

**Refinement.** `Refinement` is `Spec => Ownership!Spec`. One lemma says how the mapped
state follows a request from place to place, another (`OwnersInUse`, from `HandleInv`)
that the `Arc` has owners exactly as long as the abstract engine is in use; with them
`StepRefines` shows for each action which abstract step it is, or that it is unseen.
`PromiseKept` is what the abstract specification is good for, and holds of the detailed one
through the refinement: a native request always has a request that holds it, and a live
engine.

**Registry.** Two inductive invariants. `IdInv`: ids that are claimed lie below the
counter, differ, and entries are filed only for live registrations; from it
`IdsStayUnique`, `CallsReachTheirOwn` and the action property
`StaleCallsAreNoOps`. `StateInv`: strong counts equal the number of holders
(with lemmas on the cardinality when a worker joins or leaves), the list of
active threads holds each running worker exactly once, and the types; from it
`TypeCorrect`, `CountsAreExact`, `StatesOutliveCalls` and
`ActiveThreadsAreExact`. `SwapRemove` is the lemma on the list operation.
`FirstFailureStays` needs no more than the types.

**Native values.** All properties of `NativeResult`, for every width, element size and
set of inputs. The arithmetic is in three lemmas: a quotient of the byte limit bounds
the product (`Quotient`), what `validate_pointer_count` accepts is a range that
`from_raw_parts` permits (`ValidatedRange`), and the widths are ordered (`Widths`).
The inductive invariant adds `InOrder`: nothing is read or reported before the call's
end, the raw result is of the call's kind, and sizes were valid when native code is
called. `HonestIsAccepted` is inductive on top of it, one lemma for each conversion.

**Cache.** All properties of `HfCache`, for any number of processes, commits, resolves
and crashes (`CompleteWhenResolved`, `CompleteBehindAlias`, `EmptyIsReported`,
`TypeCorrect`), and `RepairedPinnedRef` for one process. The inductive invariant says of
each process where it is in its plan: the files it has fetched and the ones still to do
make up the plan of its commit, the weights come last (`WeightsLast`), every file it
recorded lies in the snapshot, snapshots hold only files of their commit's tree, and the
branch's ref names a snapshot that is complete. A lost file or a path from another
commit cannot get past `verify_snapshot_paths`, which is what makes the invariant hold
with a dishonest hub. The lemmas on plans (`Plan`, `IndexedPlan`) say what a plan lists and
when there is one; from them, what was fetched by a plan makes a model (`FetchedComplete`),
and so does what an offline plan is made from (`ListedComplete`).

**Blocking calls.** All properties of `BlockingCall`, for any threads, nesting and
number of calls. The inductive invariant follows the list of checks: as long as nothing
holds an output, its guard or its free comes before every check that can end the call
(`HeldInv`), a diagnostic that was not copied is
still the thread's, and a pending panic belongs to the frame that will resume it. The
nesting is by frames: only the topmost frame runs, the ones below wait in their callbacks.

**Loading.** All properties of `EngineLoad`, for any number of settings and calls:
`AbiFirst`, with the invariant that the steps behind the check, and the
existence of an engine, imply the ABI; and `ContractKept`, which carries what was
accepted at the conversion over to the struct.

**Chat.** All properties of `ChatSession`, for any texts, streams and number of turns:
`FaultsAreFatal`, `RolesAlternate` and `HistoryFollowsScreen`. `/clear` keeps what a filter
(`Filter`) leaves, and `Told`, the reference that `HistoryIsTranscript` compares with, reads
the transcript from its beginning; both are recursive functions, which are defined by
`CHOOSE`. The library's schemas of induction take an operator and cannot be used, so
`Induction` is proved for sets from the well-foundedness of `<`, `Recursion` from it that
a function obeying such an equation exists, and `ToldAppend` and `FilterFront` follow: what
one more entry adds. The inductive invariant `ConvInv` says that between turns the history
is the base (the system message, if any) and what `Told` makes of the transcript, that in a
turn it is that and the question, and that `checkpoint` is the length before the question,
so that the rollback of a failed turn restores exactly what was there.

**Build script.** The properties of `BuildPlan` that hold, for any set of inputs and any
layout of libraries: `LinksEverything`, `LinksTheChosen`, which is about vllm and its
archive, and `SanitizersMatch`. The
inductive invariant `BuildInv` has three parts besides the types. `ConfigInv`: what was
accepted stays accepted, and the native build has just what the plan defines. `ChoiceInv`:
the directories of vllm and the archive hold them, no other standard directory holds
another `vllm`, and where CMake installs, no archive lies next to it (`InstalledAlone`). `EmitInv`: the directives begin with the ones that link `vllm` (`Opening`), the
libraries the plan requires are printed or to come, and runtimes of sanitizers appear at
the end only.
`Names` and `Searched` are the sets of what a list links and searches; `NamesOfConcat` and
`PlanRequires` compute them for the lists of the plan. That these cover all that was
compiled in is `NeedIsPlanned`, where the rules between features are needed: the Triton
kernels refer to the driver, which is only linked for a CUDA build.

Assumptions: the named ones on the constants (names differ, the sets of workers are
finite, bounds are naturals), which TLC evaluates in every run.

Every invariant and action property of the runs that pass is stated by a theorem. Only
model-checked: liveness under fairness (`DropCompletes`, `WaitReturns`, `EngineFreed`,
`StateReleased`), which is out of reach of the provers, and the disagreements of section 5,
which are counterexamples.

## 5. Findings

* **Callbacks that drop each other's request block for ever.**
  `CleanupJob::finish` (`request.rs:432`) defers a drop only on the dropped
  request's own threads. Inside another request's callback it joins. Two requests
  whose callbacks hold and drop each other's handle never finish (`request_crossjoin`),
  while `vllm-cpp/README.md:59` says "dropping a live request cancels and joins it".
  `TeardownOffCallbacks` has the same limit: a callback that drops another request,
  the last owner of the engine, frees the engine on a delivery thread.
* **A full-SHA revision has its ref before the retrieval is complete.** Downloads are
  pinned with the SHA as revision (`hf.rs:283`), and `hf-hub` writes that ref after
  each file. `vllm-cpp/README.md:36` says the resolver "creates that revision's
  cache ref only after a complete successful retrieval" (`hf_sharef`). Offline
  resolution is not misled: it checks the snapshot and reports it as incomplete.

## 6. Not modelled, and what is left

Not modelled:

* the raw bindings: generated declarations without behaviour of their own;
* the other examples: argument parsing and straight-line calls;
* the repository's tooling: developer commands and CI;
* of the text calls, the serde forms of chat messages and the failure of an
  allocation (`try_reserve_exact`): data without control;
* of the resolver, the validators of names, the builder and the token, and three failures
  to read the disk (`hf.rs:279`, `:351`, `:466`), which end a resolve with an error before
  it writes anything more;
* of the chat program, its command line and its wording.

Left to do: a fair version of `RequestOwnership`, which would say `DropCompletes` and
`EngineFreed` abstractly. The refinement is to be kept in step with `RequestLifecycle` as
it grows.
