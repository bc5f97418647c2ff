# A verification project for rulisp

rulisp connects Common Lisp programs to Rust crates compiled as shared
libraries. A Rust author marks functions and types with attribute macros; the
macros generate `extern "C"` shims and a textual manifest; the Lisp side opens
the library, reads the manifest and generates one wrapper function per export.
The difficult part is not the calls but what outlives them: objects that Lisp
holds by a handle while other threads use or free them, libraries that are
reloaded while old handles and old wrappers are still reachable, images that are
dumped and started again in another process, Lisp conditions that must cross
Rust stack frames, and Rust threads that talk to Lisp through bounded queues.

This directory holds TLA+ modules that model those parts, TLC configurations
that check them on small instances, and TLAPS proofs of their main properties
for every value of the constants. Paths below are relative to the repository.

## Inventory

| Component | State it keeps | Operations | What is hard |
|---|---|---|---|
| Handle cells, `lisp/src/handle.lisp` | per handle: state `:live`/`:free-pending`/`:freed`, in-flight counter, crate, generation, session, free function, a lock | `cell-begin-call`, `cell-end-call`, `%cell-free` (from `free` and from finalizers), `%maybe-foreign-free` | a free racing calls in flight, the deferred free, re-entrancy through callbacks, stale generations and sessions, asynchronous unwinds |
| Generated wrappers, `lisp/src/codegen.lisp` | an immutable generation context per loaded generation; dynamic bindings `*live-callback*`, `*callback-stash*` | one wrapper per export, trampolines per callback signature, `signal-crate-status`, result plumbing | which call a condition or an error belongs to when calls nest; old wrappers after a reload |
| Stored callbacks, `lisp/src/stored-callback.lisp` | a global table from id to closure, a lock | register, lookup, unregister, token finalizer | a lookup racing an unregistration; finalizers that take the lock |
| Loader, `lisp/src/crate.lisp` | crate registry, generation and session numbers, packages, cache copies | `load-crate`, `reload-crate`, commit, stubs, sweep, dump and restore hooks | failure between two steps, several processes sharing one cache, threads during a restore |
| Manifest, `lisp/src/manifest.lisp`, `rulisp-runtime/src/meta.rs` | none | render, read, check | two sides derive one calling convention from it independently |
| Runtime, `crates/rulisp-runtime/src/lib.rs` | per thread and library: `LAST_ERROR`, `CB_TUNNEL`; per library: `LIVE_ALLOCATIONS` | `shim`, error slot access, callback tunnel, buffers, handle boxes | slots shared by nested calls; ownership of buffers on every path |
| Callback types, `crates/rulisp/src/lib.rs` | a function pointer, a token | `Callback::call`, `StoredCallback::call` and its drop | conditions crossing Rust frames; calls from other threads |
| Inbox, `crates/rulisp/src/inbox.rs` | queue, closed flag, two condition variables | `try_send`, `send_timeout`, `recv`, `close` | lost wake-ups, deadlines racing values, draining after close |
| Macros, `crates/rulisp-macros/src/lib.rs` | none (compile time) | `export`, `handle`, `module!`; the shims they generate | agreement with the loader; the order of clearing, converting, calling and classifying |
| fetch, `examples/fetch/src/lib.rs` | permits, in-flight count, per-request body queue, ready queue | start, read, wait, cancel, shutdown | cancel, end of response, deadline and shutdown racing |
| httpd, `examples/httpd/src/lib.rs`, `web.lisp` | parked requests with deadlines, connection count | park, take, respond, stop, drain; the Lisp worker loop | an answer racing a deadline; stopping while requests arrive |
| wasm, `examples/wasm/src/lib.rs` | `Wasm`: an instance under a mutex, a stored callback; `Wasi`: a sandbox under a mutex with budgets of fuel, output, descriptors and host time, run once | load, call, `on_notify`, memory access; `arg`, `env`, `preopen`, `stdin`, `run`, readers; every host call of the guest | budgets an arbitrary guest may hit in any order; other threads on the handle; callbacks under the mutex |
| wordbag, rx | a locked vector, a stored notifier; compiled patterns | exports that lock, call back, or spawn a thread that does | re-entrancy under a mutex |

How they interact: a wrapper brackets its foreign call with `cell-begin-call`
and `cell-end-call` for each handle argument, binds the callback variables, calls
the shim, and dispatches on the status the shim answers. The shim reads and
writes the thread's `CB_TUNNEL` and `LAST_ERROR`. A callback runs Lisp code under
the suspended foreign call, and that code may make further calls. A reload
replaces the context new wrappers are bound to and leaves the old library
mapped. The examples' background threads reach Lisp only through inboxes.

What makes each part correct:

- *cells*: no call ever reaches a freed object, an object of another library, or
  one of a dead process; one foreign free at most, by the allocator's own
  shim; and exactly one if the process lives on;
- *tunnel*: a call's failure is reported as its own, with its own condition or
  its own error text;
- *inbox*: bounded, first in first out, nothing lost or doubled, everybody
  woken who has something to do;
- *boundary*: shim and wrapper agree on the C signature of every export, no
  unwritten out-parameter is read, every buffer goes back once, to the library
  that allocated it, with the layout it was allocated with;
- *loader*: a crate is entirely of one generation or entirely of another; a
  cache copy in use is never swept;
- *stored callbacks*: an id never finds another closure than its own, and a
  call that begins after unregistration runs none; no threads wait for each other;
- *wasm*: no guest exceeds a budget by any order of calls, every run ends, and a
  spent sandbox holds nothing;
- *fetch* and *httpd*: capacity is returned exactly once, every request is
  settled or answered exactly once, stopping leaves nobody waiting.

## Plan

1. `HandleCell`, implementing the abstract `OwnedBox`; proofs. Done.
2. `Inbox`; proofs. Done.
3. `CallbackTunnel`; proofs. Done.
4. `FetchTask`: permits, settling, the body queue, cancel and shutdown of the
   fetch client; proofs. Done.
5. `Httpd`: parking, deadlines, take and respond, stop and drain, composed with
   the worker loop of `web.lisp`; proofs. Done.
6. `StoredCallback`: ids, tokens, finalizers, calls from Rust threads, composed
   with the exports that store and invoke them; proofs. Done.
7. `Boundary`: the path of a type from the macro through the manifest to the
   wrapper, and the ownership of result buffers; proofs. Done.
8. `Wasi`: the budgets of a sandboxed run; proofs. Done.

Every invariant and every action property of the passing runs is now also a
theorem. What could still be proved: that each value is accepted by the inbox at
most once; the step that the liveness arguments rest on (a bounded quantity that
every fair step decreases) as invariants and action properties; an abstract
specification of a request of the HTTP server (parked, answered once, forgotten)
which `Httpd` implements.

## The modules

### HandleCell

An *activation* is one wrapper call, one `free` or one finalizer run. A cell's
lock is never held across a foreign call or a signal, so each critical section is
one action: `BeginCall`/`RefuseCall` (`cell-begin-call` after the wrapper's
`typep` test), `EndCall` (`cell-end-call`), `CellFree` (`%cell-free`). The
foreign call (`CallForeign` to `ForeignReturn` or `ForeignReturnHandle`), the
making of a handle (`MakeHandle`) and the foreign free (`MaybeForeignFree`) are
steps between critical sections. An activation that a callback starts names the
suspended activation as its `caller`; nothing else of the callee's stack is
needed. `Reload`, `DumpAndStart`, `RestoreHook` and `RestoreCrate` are what the
loader does to generations and sessions. `Interrupt` is an asynchronous unwind
at one of the points that no `unwind-protect` covers.

Ghost state says what the pointers really are: `home` and `homeProcess`
(the library and process whose allocator made the Box) and `freeCount`.

`OwnedBox` is the promise to users: an object may have many users, is closed to
new ones by the first release, and is dropped once, after its last user left,
or lost with its process. `ImplementsOwnedBox` maps a cell and its process to a
phase and the admitted argument positions to users.

### Inbox

One action per critical section of the queue's mutex and one per notification,
because the code notifies after it has unlocked. Condition variables may wake
spuriously (`WaitReturns`), and `notify_one` wakes an arbitrary waiter. Values are
numbered by their send, which is what makes the history variables `accepted`,
`taken` and `refused` able to tell them apart. `Requested` is the capacity asked
for; the code raises zero to one.

### CallbackTunnel

All of this state is thread-local, so one thread is modelled: a stack of calls in
progress. `Call` is the wrapper's bindings and the shim's entry, with the clearing
of the tunnel when the export takes a callback; `Invoke`, `CallbackReturns` and
`CallbackSignals` are `Callback::call` with the trampoline; `InvokeStored` and
`StoredReturns` a stored callback called on the same thread; `Invalid`,
`ReturnOk`, `Panic` and `ReturnErr` are the shim's exits together with the
wrapper's dispatch on the status. Errors are identified by the call that wrote
them and conditions by number; `signaled` and `disturbed` are history variables
that only the properties read.

### FetchTask

A request has two processes. Its Lisp thread (`lpc`) runs `REQUEST` of
`http.lisp`: start, drain, look for a terminal error, free. Its task (`tpc`) runs
`run_request` under `select!` with the cancellation token and ends in
`TaskGuard::drop`, whose effects (permit, in-flight count, ready queue, settle)
are separate steps because other threads can observe them separately. A future can
be dropped only where it awaits, so `SeeCancel` and `RuntimeDrops` start at an
await. A body is a number of bytes and a chunk is the pair of its first and last
byte, which is enough to see a byte lost, doubled or out of order.

Every wait of a Lisp thread is capped, so a `read` is one look at the state at
some moment, and the sleep before it is not a state of its own. The handle of a
request can be freed on every way out of `REQUEST`, by `Unwind` at any point of the
drain loop, and another thread may `Cancel` at any time. `Client::shutdown`,
`shutdown_all` and the drop of a client do the same three things in the same order
(`ShutDown`, `CancelEverything`, `TakeRuntime`). A retry of `REQUEST` is another
request. A panic inside the task is not modelled.

### Httpd

Three kinds of processes share the queue of `Svc`. A request is one run of `park`
(`rpc`): a body permit, the body, the loop of `Svc::push`, the wait for the answer.
A puller is one thread made by `START` (`ppc`): `%SERVE` with `SERVER-WAIT` and
`TAKE-REQUEST`, then `%HANDLE`, in which the handler may answer, answer twice, signal,
return without an answer, or call `STOP`. A thread in `STOP` (`spc`) tells the
pullers, joins them, and runs the steps of `Server::stop` and then of
`ServerInner::quiesce`, which begin alike (`quiescing` tells them apart); the dump
hook runs the second half only. The accept loop and its connections are further
small processes.

`chan` is a request's oneshot channel: open, holding a status, closed by its
receiver, or lost with its sender. Pruning removes the entries whose channel is
closed. A future can be dropped only where it awaits (`Dropped`), and it is dropped
some time after its connection ended. `notified` stands for the enabled `Notified`
future of a push; the Lisp side's condition variable needs no state, because a
capped wait may return at any time. `HandlerTimeout` and `LateReturns` are two
steps: the timer is looked at after the channel, and the receiver lives until the
future is dropped.

### StoredCallback

The registry of `stored-callback.lisp` together with everything that calls
through it. A token is made (`Callback`), unregistered, dropped by the program and
finalized; its id is taken by `Store` into Rust, where it outlives the token. A
thread is a stack of frames, so that a closure under a call may call any export
again. `Notify`, `NotifyFromThread` (on a thread that Rust spawns and Lisp
adopts), `ForEachWord` and `HostNotify` (a wasm guest) are the ways Rust invokes a
callback; the lookup (`LookupFound`, `LookupDead`) and the call of the closure are
separate steps, because the registry is not locked between them. The mutexes of
`NOTIFIER`, `WordBag` and `Wasm` are taken in steps of their own, and which of
them is still held when Lisp code runs is what `EveryCallReturns` is about. What a
failing callback does to the error slots is in `CallbackTunnel`. Finalizers run
on a thread of their own, as SBCL runs them.

### Boundary

One exported function, with every signature that can be made of the parameter
and result types of the macros (scalars, `bool`, strings, byte and scalar slices,
options, handles, both kinds of callbacks, and several types the macros refuse).
`classify_param` and `classify_result` are the macros' classification,
`extern_params` and `out_params` the shim's C signature, `param_meta`,
`result_meta` and `render_ty` the way of a type into the manifest, `call_args`
and `out_args` what `wrapper-form` and `result-plumbing` derive from it. `Export`,
`ExportRefused`, `Load` and `LoadRefused` decide which functions get that far. A
call then takes one of the shim's exits and the wrapper converts the result:
`ShimOk` writes slots and allocates, `Convert` reads slots, `Release` gives the
buffer back. A reload may fall between any two of these steps, a wrapper of an
old generation may be called after it, and an asynchronous unwind may lose the
buffer at the one point where nothing protects it (`Interrupt`).

### Wasi

One sandbox, from `load` (whose module may have a start section, that is, guest
code that runs before the handle exists) to its free. The guest is any sequence of
computing and host calls; every host call is charged to the fuel and to the
host-time budget by the call hook (`HostCall`), and then writes, opens, closes,
reads or is refused. The methods `try_lock`, so a thread that meets a run in
progress is refused and does not wait. A panic poisons the mutex.

## The runs

| Run | Instance | Shows |
|---|---|---|
| `handle` | 1 crate, 1 cell, 2 activations of up to 2 arguments, 2 generations, 1 restore, 1 interrupt | `ForeignCallSafe`, `FreedAtMostOnce`, `FreedByItsAllocator`, `ImplementsOwnedBox`, `ReleaseReachesRust` |
| `inbox` | 2 senders, 2 receivers, capacity 2, 3 sends | `FifoExactlyOnce`, `ValuesAccountedFor`, `ClosedMeansDrained`, `NoLostWakeup`, `CloseReleasesEveryone` |
| `tunnel` | 2 crates, depth 3, 4 calls, 2 conditions | `ResignalsItsOwn`, `ReportsItsOwn`, `UndisturbedClassification` |
| `tunnel_documented` | 1 crate, depth 2 | a finding: `DocumentedClassification` is violated |
| `fetch` | 1 request, chunks of 1 or 2 bytes, 2 slots, reads of 1 byte, a limit of 4 of at most 5 bytes | `BytesInOrder`, `SlotsAccountedFor`, `SuccessMeansComplete`, `CapacityAccountedFor`, `DoneIsFinal`, `CancelEndsTask`, `TerminalReleasesReader` |
| `fetch_capacity` | 1 request | a finding: `SettledMeansCapacity` is violated |
| `httpd` | 1 connection, 2 requests, the timers of one of which may fire (`Timed`), 1 place in the queue, 1 permit, 1 puller, a stop or a dump hook by another thread | `TypeOK`, `LimitsHold`, `NoLostSlot`, `AnswersAgree`, `ParkedIsServed`, `StopReturns` |
| `httpd_late` | 1 connection, 1 request, 1 puller | a finding: `LateIsGone` is violated |
| `httpd_stop` | 2 requests, 2 pullers, both of which may stop the server | a finding: `JoinedWakes` is violated |
| `wasi` | 2 threads, 4 units of fuel, 2 descriptors, 3 bytes of output, 5 ticks of host time, calls of at most 2 | `TypeOK`, `BudgetsHold`, `SpentIsReleased`, `SpentStaysSpent`, `EveryCallReturns` |
| `stored` | 2 Lisp threads, 1 adopted thread, 2 tokens of which one exists and may be stored at the start, 4 calls, depth 3 | `OnlyInstanceBlocks`, `HeldStaysRegistered`, `RunsItsOwn`, `EveryCallReturns` |
| `boundary` | up to 2 parameters over 2 scalar types, 2 generations, results of up to 2 elements, 1 interrupt | `TypeOK`, `SidesAgree`, `OnlyWrittenIsRead`, `GivenBackAsAllocated`, `NothingLeaks` |

Why the bounds are enough. In `HandleCell` the races are between a holder of a
cell and one that frees it (two activations, which may also be nested), between
two arguments of one call (one cell passed twice), and between an old and a
new generation (two). A third activation, generation or session, a second cell and
a second crate add no comparison that these do not make, and every safety property
of the run is also a theorem for any number of them. In `Inbox`, two sleepers of
each kind with two places are what it takes to waste a wake-up; three sends fill
the queue and leave a sender waiting. In `CallbackTunnel`, the second finding needs
two calls, an undisturbed outer call between two nested ones needs four, and depth
three separates "inner" from "innermost". In `FetchTask`, requests meet only in the
client's counters and its shutdown, and what the counters do is a theorem for any
number of requests, so the run needs one; a chunk of two bytes and reads of one are
what it takes to split a chunk, and a body longer than its limit what it takes to
exceed it. In `Httpd`, two requests compete for one place in the queue, so that one
of them sleeps in `push` while the other is parked, pulled, pruned or drained. The
timers of one of the two (`QUEUE-WAIT-MS`, `BODY-MS`, `HANDLER-MS`) may fire at any
point and those of the other do not fire; the theorems hold for any `Timed`, all of
`Reqs` included, and only `StopReturns`, which no timer of a request delays, rests on
the run alone. One
connection carries both: what a second one and a second puller do to permits, counts
and answers is a theorem for any number of them. `StopReturns` is checked for a
`STOP` from outside and for the dump hook; a `STOP` from a handler runs the same steps
and does not join its own thread, and two of them are the run `httpd_stop`. In
`StoredCallback`, a second token is what an id could wrongly find, and depth three is
a call under a closure under a call. The first token may have been made and stored in
`NOTIFIER` and in the instance before the behaviour begins (`MadeBefore`), which
leaves the four calls for what is interesting: invoke, unregister and come back, or
`Wasm::call`, `host.notify`, `notify_from_thread` and a use of the instance by the
worker, the longest circle there is. In
`Boundary`, types are independent of each other but for a method's receiver and
the number of callbacks, so two parameters meet every case; of the ten scalar types,
which both sides treat by the same table row, one is wider than the other in
size and alignment. In `Wasi` every budget can be used up by one run, and
exceeded by one call.

Deadlock is checked for the inbox and for `Wasi`. It is not for `HandleCell`,
`CallbackTunnel`, `FetchTask`, `Httpd`, `StoredCallback` and `Boundary`, where a program that has nothing left to
do may stop and where the bounds (calls, requests) stop one that has.

Fairness. `HandleCell!FairSpec`: every Lisp thread keeps running (weak fairness of
its own steps), and a Rust function eventually returns. The return is strongly
fair because each callback disables it for a while; a function that calls back for
ever is the only behaviour this excludes. `ReleaseReachesRust` says nothing after an
interrupt: one that hits a release leaks it, by design of the code. `Inbox!FairSpec`:
threads that are running run, deadlines pass, and a timed wait whose deadline has
passed returns. No fairness is assumed of spurious wake-ups or of anybody
starting an operation, so that a sleeping sender can only be saved by the
notification the code really sends. `FetchTask!FairSpec`: Lisp threads run, the
runtime polls its tasks, file operations complete and the stall timer fires; a
shutdown that has begun goes on. Nothing is assumed of the server, which may stay
silent for ever. `Httpd!FairSpec`: Lisp threads run and handlers return. Nothing is
assumed of the runtime's tasks, nor of the clients, which may send nothing, read
nothing and never leave: `STOP` ends by its grace period. `StoredCallback!FairSpec`: a thread that can go on does, so closures and
guests end and a mutex that is free is obtained. `Wasi!FairSpec`: the interpreter
makes progress; that the guest ends is not assumed but follows from its fuel.

`EveryCallReturns` of `StoredCallback` has an exception, which is real: `Wasm::call`
keeps the guard of its instance while the guest runs (`examples/wasm/src/lib.rs:192`,
`217`). A stored callback that the guest invokes and that uses the same instance waits
for a mutex of its own thread; one that calls `notify_from_thread` waits to join a
worker, whose closure may use the instance and wait for the joiner; and a third thread
that comes to the instance waits behind either. `Waits` says which thread waits for
which, by mutex or by join, `Blocked` that a set of threads wait for each other and so
for ever, and `Stuck` that a thread is in such a set with one that waits for the
instance. `EveryCallReturns` says that a thread that is not stuck comes to the end of
its calls, and `OnlyInstanceBlocks` that no set of threads is ever blocked without the
instance; `WordBag::for_each_word` and `notify` show the way out, a copy made under
the guard and used after it. The model has one instance; with several, the same circle
can lead through two of them.

## What is proved

The theorems hold for any finite set of activations, any cells, crates, threads,
capacities and bounds; the assumptions are those named in the component modules
(finiteness, markers such as `NoAct`, `NoCell` and `NoThread` not in the sets they
mark, bounds natural). Each of them is evaluated by TLC on the runs.

`HandleCellProofs`: `TypeCorrect`, `NoUseAfterFree`, `AtMostOneFree`,
`DeferredFreeOwned`, `AllocatorFrees`, `Refinement`. None of the properties is
inductive. The inductive invariant adds that the process number follows the
session except while an image starts (`SessionInv`), that a cell's crate,
generation, session and free function agree with its Box (`CellInv`), what
an activation holds at each point (`ActInv`, `WrapInv`), that the in-flight
counter is at least the number of admitted argument positions and that a freed
cell has none (`CountInv`, an inequality because an interrupt can leave the
counter too high but never too low), and that at most one activation is about to
free a cell, which was not freed before (`DropInv`). The refinement follows from
it, one action at a time.

`InboxProofs`: `TypeCorrect`, `CapacityBound`, `Fifo`, `ClosedIsDrained`,
`NoLostWakeups`, `CloseWakesAll`, `NoValueLost`. The wake-up properties are statements about the
cardinality of the set of threads about to look, and the proof follows how each
step changes that set. For `NoValueLost` the invariant adds that no two senders hold
the same value (`PlacesInv`): a send that ends empties exactly one hand.

`CallbackTunnelProofs`: `TypeCorrect`, `ResignalsOwn`, `ReportsOwn`,
`Classification`. The inductive invariant says that a call's binding of the
stash always holds the last condition its own callback signalled, and relates
each call on the stack to the shared tunnel flag: for an undisturbed
callback-taking call the flag says exactly whether a callback of that call
signalled. This is consistent because there is at most one such call per crate:
each callback-taking call disturbs those of the same crate beneath it.

`FetchTaskProofs`: `Capacity`, `TypeCorrect`, `SlotsNeverDrift`, `BytesStayInOrder`,
`SuccessIsComplete`, and the action property `DoneForGood`, for any requests,
permits, slots, chunk sizes, read sizes and bodies. For capacity the inductive
invariant adds where each of the two processes of a request can be (`PointsOK`) and
that a request whose Lisp thread has not spawned yet has no task
(`NoTaskBeforeSpawn`); the proof follows the set of requests that hold a permit, one
action at a time: a step adds one element to it, removes one, or leaves it alone, and
the counter moves by the same amount. For the body, none of the properties is
inductive. The invariant says that the queue is contiguous and sorted from the last
byte read to some byte `End`, which `BytesInOrder` alone does not say of a task
that failed (`QueueOK`); how `End`, the chunk in the task's hands and the file
relate to what was received at each point of the task (`StreamOK`); and how a task
that ended came to its end: by the end of the body, by an error, or by a
cancellation that its guard has seen or will see (`OutcomeOK`). The last one needs
`ClosedInOrder`, that the runtime is taken only after everything was cancelled: it is
what keeps a dropped future from settling as a success. Two lemmas about queues
carry the rest: appending a chunk that continues the queue (`AppendInOrder`), and
taking at most `MaxRead` bytes from its front (`UnreadInOrder`).

`HttpdProofs`: `TypeCorrect`, `LimitsKept`, `NoSlotIsLost`, `AnswersTrue`,
`ParkedServed`, for any connections, requests, pullers (at least one, which is
what `START` makes), stopping threads and limits. The inductive invariant adds that
what waits in the queue or was drained from it was seen by no puller and has its
sender unused (`QueueOK`, `DrainedOK`), that what a puller has it alone has
(`HandsOK`), where a channel can be at each point of `park` (`ChanOK`), that what was
sent is what was told (`ToldOK`), and that a stop sets the flag before it drains
(`StopOK`). `AnswersTrue` is agreement between client and Lisp with its one exception
spelled out: a 504 beside a `RESPOND` that returned normally, the finding
`httpd_late`. Pruning is defined by the positions it keeps (`Kept`, `Live`), and the
proof needs that it keeps their number and their order for a queue of any length;
this is an induction over natural numbers, made through the lemma `LeastNumber`.

`StoredCallbackProofs`: `TypeCorrect`, `HeldFindsItsClosure`,
`InvocationsRunTheirOwn`, `OnlyTheInstanceBlocks`, for any threads, tokens and depth of nesting. The
inductive invariant says that ids are given out once and that an entry of the table
is the closure of the token that owns the id (`Registry`), and that every frame of
every stack carries a token's own id and is late only for a token that is dead for
good (`StacksOK`, with `MutexesOK` and `StoredOK` for what is stored in Rust). For the
waiting it adds that only the innermost frame of a thread waits (`Layered`) and that no
step ends with a guard of wordbag in hand (`FreeOK`). A circle that a step closes must
contain the thread that moved (`CircleKeeps`), and after its step that thread waits for
nobody, for the instance, or for a worker that has just begun.

`BoundaryProofs`: `TypeCorrect`, `SignaturesAgree`, `NoUnwrittenRead`, `GivenBack`,
`NoLeak`, for any scalar types, any number of parameters, generations and lengths.
First the types, as lemmas: whatever the macro classifies, the C types of the shim
are the ones the wrapper derives from the rendered metadata. Then the function: the
manifest is the image of the shim from the moment it is compiled (`Compiled`), so
the concatenations over all parameters agree. Then a call: what each side knows of
the result at each of its points (`InCall`), from which reads, releases and the
allocation counters follow.

`WasiProofs`: `TypeCorrect`, `Budgets`, `Released`, and the action property
`RunsOnce`, for any threads and budgets. The store has one user at a time
(`Exclusive`), a run marks the instance before its first instruction (`RunMarks`),
and outside of a run that has not panicked an instance that has run owns nothing
(`Emptied`). The model keeps arguments, environment, input and
preopens in one set of settings, which are separate fields in the code; so it assumes
that the names of the environment differ from the labels of the others.

The theorems are about `Spec`, without fairness; they hold of every `FairSpec`, which
implies it.

Only model-checked: the seven liveness properties (`ReleaseReachesRust`,
`CloseReleasesEveryone`, `CancelEndsTask`, `TerminalReleasesReader`, `StopReturns`,
`EveryCallReturns` of `Wasi` and of `StoredCallback`), since fairness and `ENABLED`
are out of the prover's reach. The invariants `PendingHasOwner`, `Bounded`,
`NobodySleepsThroughClose` and the type invariants of `HandleCell`, `Inbox`,
`CallbackTunnel`, `FetchTask` and `StoredCallback` are proved and not checked again by a run.

## Findings

- *A nested call clears or sets the outer call's tunnel* (run
  `tunnel_documented`). `CB_TUNNEL` is one flag per thread and library, and every
  callback-taking shim clears it at entry. If a callback of the outer call
  signalled, Rust swallowed it, and a later callback of the same call makes a
  callback-taking call into the same crate, an error of the outer call is reported
  with status 1, where `BOUNDARY.md:120` promises status 4 and the stashed
  condition. In the other direction, if the nested call's callback signals and
  Lisp handles the condition, the flag stays set; an error of the outer call is then
  answered with status 4 and no stash, and its text is lost, where
  `BOUNDARY.md:38` reserves status 4 for a callback that signalled.
- *A failed request is settled before its capacity is back* (run
  `fetch_capacity`). When `run_request` fails, the task itself calls `settle`
  (`examples/fetch/src/lib.rs:503`) and only then drops its guard, which returns
  the permit and the in-flight count. The comment in the guard
  (`examples/fetch/src/lib.rs:174`) says that by the time a Lisp thread can
  observe settled, the capacity must already exist; that holds for requests that
  end well or are cancelled. The next request of a thread that saw the failure may
  be refused as busy.

- *Two handlers that call `STOP` wait for each other* (run `httpd_stop`). `STOP`
  joins every puller but the calling thread (`examples/httpd/web.lisp:281`). Two
  handlers that call it at the same time both find the pullers registered, and
  each joins the other's thread, which cannot end before its own `STOP` returns.
  The doc string allows a call from inside a handler and says that each puller
  "wakes within one 100 ms tick and is joined". A `STOP` that meets no other does
  return (`StopReturns`).

- *A late answer is not always "gone"* (run `httpd_late`). `park` learns that
  HANDLER-MS has passed from a timer that is looked at after the channel, and drops
  its receiver after that (`examples/httpd/src/lib.rs:321-323`). A `RESPOND` that sends
  in between returns normally, although the client is sent 504 and never its answer.
  `SECURITY.md:125-126` and the comment at `examples/httpd/src/lib.rs:323` say that
  the late answer is "gone". `AnswersAgree` shows that this is the only way client and
  Lisp can be told different things.

Smaller observations, which no run states. The fetch guard posts an id to the ready
queue before it settles the request, so a thread that collects the id may still
find the request unsettled for a moment. A `start` that loses the race with
`shutdown` between its permit and the runtime lock does not return the permit; the
client is down for good by then. `Svc::wait` of the server does not prune when it
wakes, so it may answer T for a request whose client has left, where its comment
says "a live request"; the puller's loop copes.

`UndisturbedClassification` is the exact condition under which the documented
classification does hold.

## What is not modelled

The text of manifests, errors and conditions; encodings of strings and vectors;
pinning and finalizer scheduling of the host Lisp (a finalizer may run at any
time); non-local exits through Rust frames, which the documentation declares
undefined; cargo, dlopen, the network, tokio, hyper, wasmi and wasi_common beyond
what the code asks of them.

Of the loader, `crate.lisp`, only what cells, wrappers and results can observe is
modelled: generations, sessions, refusals that depend on types. Its registry, the
installation of packages and symbols, and stubs are sequences of effects on the
host Lisp's packages under one recursive lock; the cache of library copies is shared with
other processes through the file system, where what can go wrong (process ids
that are reused, files that vanish) is a property of the operating system. Three
hazards of this part are listed in `PROJECT.json` without a property. The regular
expression example is a call of a library. The macros' derivation of names and
their diagnostics are text.
