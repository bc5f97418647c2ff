----------------------------- MODULE StoredCallback -----------------------------
(***************************************************************************)
(* Lisp closures that Rust keeps and calls later, and the Rust mutexes that *)
(* are held, or not, while it does.  The registry of stored-callback.lisp,  *)
(* its trampoline (codegen.lisp) and rulisp::StoredCallback are composed    *)
(* with their clients: the NOTIFIER and the WordBag of examples/wordbag and *)
(* the Wasm instance of examples/wasm, whose guest calls host.notify.       *)
(*                                                                          *)
(* A thread is a stack of frames: a closure under a call may call again.    *)
(* A section under *stored-callbacks-lock* does nothing else and is one     *)
(* step; a Rust mutex is taken in a step of its own.                        *)
(***************************************************************************)
EXTENDS Integers, Sequences, FiniteSets

CONSTANTS
    Lisp,        \* Lisp threads
    Workers,     \* threads that Rust spawns and Lisp adopts
    NoThread,
    MaxTokens,   \* bound: tokens made
    MadeBefore,  \* tokens made, and perhaps stored, before the behaviour begins
    MaxCalls,    \* bound: exports called, registry operations included
    MaxDepth     \* bound: nesting of calls on one thread

Threads == Lisp \cup Workers
Tokens == 1..MaxTokens
Mutexes == {"NOTIFIER", "words", "wasm"}

ASSUME StoredCallbackAssumption ==
    /\ Lisp \cap Workers = {} /\ NoThread \notin Threads
    /\ {MaxTokens, MaxCalls, MaxDepth} \subseteq Nat
    /\ MadeBefore \in 0..MaxTokens

VARIABLES
    table,       \* *stored-callbacks*: id -> the token whose closure it holds, or 0
    nextId,      \* *next-callback-id*
    token,       \* "new", "held", "dropped" (unreachable), "finalized"
    id,          \* CALLBACK-TOKEN-ID
    registered,  \* %TOKEN-REGISTERED
    stored,      \* StoredCallbacks Rust holds: the NOTIFIER's and the Wasm store's
    mutex,       \* owner of each Rust mutex
    poisoned,    \* mutexes a panic has poisoned
    stack,       \* frames of each thread, innermost first
    calls        \* calls made so far

registry == <<table, nextId, token, id, registered>>
vars == <<registry, stored, mutex, poisoned, stack, calls>>

\* A StoredCallback: the id it carries and, as history, the token it came from.
NoCallback == [id |-> 0, of |-> 0]

\* The methods of a Wasm instance, the exports of wordbag, and their mutexes.
WasmOps == {"on_notify", "call", "memory"}
Ops == WasmOps \cup {"set_notifier", "clear_notifier", "notify", "notify_from_thread",
                     "len", "for_each_word", "poison"}
MutexOf(op) ==
    IF op \in WasmOps THEN "wasm"
    ELSE IF op \in {"len", "for_each_word", "poison"} THEN "words" ELSE "NOTIFIER"

\* Where it is, for which export; the callback it stores or runs; history: the
\* closure found for it, and whether its token was dead when it began; the
\* callback under it has failed; the mutex it holds, the thread it waits for.
Frame(at, op, cb) == [at |-> at, op |-> op, cb |-> cb, runs |-> 0, late |-> FALSE,
                      failed |-> FALSE, holds |-> "none", joins |-> NoThread]

TypeOK ==
    /\ table \in [Tokens -> 0..MaxTokens] /\ nextId \in 0..MaxTokens
    /\ token \in [Tokens -> {"new", "held", "dropped", "finalized"}]
    /\ id \in [Tokens -> 0..MaxTokens] /\ registered \in [Tokens -> BOOLEAN]
    /\ stored \in [{"NOTIFIER", "wasm"} -> [id : 0..MaxTokens, of : 0..MaxTokens]]
    /\ mutex \in [Mutexes -> Threads \cup {NoThread}] /\ poisoned \subseteq Mutexes
    /\ calls \in 0..MaxCalls
    /\ DOMAIN stack = Threads
    /\ \A t \in Threads : Len(stack[t]) <= MaxDepth

\* The first MadeBefore tokens exist and are held; Rust may have been given any.
Init ==
    LET made == 1..MadeBefore
    IN  /\ table = [i \in Tokens |-> IF i \in made THEN i ELSE 0] /\ nextId = MadeBefore
        /\ token = [k \in Tokens |-> IF k \in made THEN "held" ELSE "new"]
        /\ id = [k \in Tokens |-> IF k \in made THEN k ELSE 0]
        /\ registered = [k \in Tokens |-> k \in made]
        /\ stored \in [{"NOTIFIER", "wasm"} ->
                         {NoCallback} \cup {[id |-> k, of |-> k] : k \in made}]
        /\ mutex = [m \in Mutexes |-> NoThread] /\ poisoned = {}
        /\ stack = [t \in Threads |-> <<>>]
        /\ calls = 0

-----------------------------------------------------------------------------
(* The registry, used by Lisp code: top level, or a closure under a call.  *)

Top(t) == Head(stack[t])
At(t, at) == stack[t] # <<>> /\ Top(t).at = at

InLisp(t) ==
    /\ calls < MaxCalls
    /\ IF stack[t] = <<>> THEN t \in Lisp ELSE Top(t).at = "closure"

Counted == calls' = calls + 1

\* Mutant: ids are drawn from the size of the table, and so used again.
CallbackReused(t, k) ==
    /\ InLisp(t) /\ token[k] = "new"
    /\ LET i == Cardinality({j \in Tokens : table[j] # 0}) + 1 IN
        /\ table' = [table EXCEPT ![i] = k]
        /\ id' = [id EXCEPT ![k] = i]
    /\ token' = [token EXCEPT ![k] = "held"]
    /\ registered' = [registered EXCEPT ![k] = TRUE]
    /\ Counted
    /\ UNCHANGED <<nextId, stored, mutex, poisoned, stack>>

\* (callback function): a new id, and a token whose finalizer removes it.
Callback(t, k) ==
    /\ InLisp(t) /\ token[k] = "new"
    /\ nextId' = nextId + 1
    /\ table' = [table EXCEPT ![nextId + 1] = k]
    /\ id' = [id EXCEPT ![k] = nextId + 1]
    /\ token' = [token EXCEPT ![k] = "held"]
    /\ registered' = [registered EXCEPT ![k] = TRUE]
    /\ Counted
    /\ UNCHANGED <<stored, mutex, poisoned, stack>>

\* Mutant: the slot is cleared, the closure stays in the table.
UnregisterSlot(t, k) ==
    /\ InLisp(t) /\ token[k] = "held"
    /\ registered' = [registered EXCEPT ![k] = FALSE]
    /\ Counted
    /\ UNCHANGED <<table, nextId, token, id, stored, mutex, poisoned, stack>>

\* (unregister-callback token); the finalizer stays.
Unregister(t, k) ==
    /\ InLisp(t) /\ token[k] = "held"
    /\ table' = [table EXCEPT ![id[k]] = 0]
    /\ registered' = [registered EXCEPT ![k] = FALSE]
    /\ Counted
    /\ UNCHANGED <<nextId, token, id, stored, mutex, poisoned, stack>>

\* The program lets go of a token; Rust may still have its id.
DropToken(k) ==
    /\ token[k] = "held"
    /\ token' = [token EXCEPT ![k] = "dropped"]
    /\ UNCHANGED <<table, nextId, id, registered, stored, mutex, poisoned, stack, calls>>

\* The finalizer of a collected token, on a thread of the collector.
Finalize(k) ==
    /\ token[k] = "dropped"
    /\ token' = [token EXCEPT ![k] = "finalized"]
    /\ table' = [table EXCEPT ![id[k]] = 0]
    /\ UNCHANGED <<nextId, id, registered, stored, mutex, poisoned, stack, calls>>

Dead(k) == ~registered[k] \/ token[k] = "finalized"

-----------------------------------------------------------------------------
(* Exports.  A frame "lock" is a call waiting in Mutex::lock.              *)

Push(t, f) == stack' = [stack EXCEPT ![t] = <<f>> \o @]
Become(t, f) == stack' = [stack EXCEPT ![t] = <<f>> \o Tail(@)]
Pop(t) == stack' = [stack EXCEPT ![t] = Tail(@)]

\* Bound: as many calls of notify_from_thread at once as there are Workers.
Spawning == {u \in Threads : \E i \in 1..Len(stack[u]) : stack[u][i].op = "notify_from_thread"}
WorkerLeft(t) == t \notin Spawning /\ Cardinality(Spawning) < Cardinality(Workers)

\* A wrapper calls its shim.  A stored callback is passed as the token's id.
Begin(t, op, k) ==
    /\ InLisp(t) /\ Len(stack[t]) < MaxDepth
    /\ op = "notify_from_thread" => WorkerLeft(t)
    /\ IF op \in {"set_notifier", "on_notify"}
       THEN token[k] = "held" /\ Push(t, Frame("lock", op, [id |-> id[k], of |-> k]))
       ELSE k = 1 /\ Push(t, Frame("lock", op, NoCallback))
    /\ Counted
    /\ UNCHANGED <<registry, stored, mutex, poisoned>>

\* The mutex is free and not poisoned: the call goes on.
Locks(t, ops) ==
    /\ At(t, "lock") /\ Top(t).op \in ops
    /\ mutex[MutexOf(Top(t).op)] = NoThread
    /\ MutexOf(Top(t).op) \notin poisoned

\* lock().unwrap() of a poisoned mutex panics: the shim answers status 2.
LockPanics(t) ==
    /\ At(t, "lock")
    /\ mutex[MutexOf(Top(t).op)] = NoThread /\ MutexOf(Top(t).op) \in poisoned
    /\ Pop(t)
    /\ UNCHANGED <<registry, stored, mutex, poisoned, calls>>

\* set_notifier, clear_notifier, on_notify
Store(t) ==
    /\ Locks(t, {"set_notifier", "clear_notifier", "on_notify"})
    /\ stored' = [stored EXCEPT ![MutexOf(Top(t).op)] = Top(t).cb]
    /\ Pop(t)
    /\ UNCHANGED <<registry, mutex, poisoned, calls>>

\* WordBag::len, add, slow_len: nothing is called under the guard.
Touch(t) ==
    /\ Locks(t, {"len"})
    /\ Pop(t)
    /\ UNCHANGED <<registry, stored, mutex, poisoned, calls>>

\* Wasm::exports, memory_read, memory_write, refuel, fuel_left: nor here.
TouchInstance(t) ==
    /\ Locks(t, {"memory"})
    /\ Pop(t)
    /\ UNCHANGED <<registry, stored, mutex, poisoned, calls>>

\* WordBag::poison panics with the guard in its hand.
Poison(t) ==
    /\ Locks(t, {"poison"})
    /\ poisoned' = poisoned \cup {"words"}
    /\ Pop(t)
    /\ UNCHANGED <<registry, stored, mutex, calls>>

Invocation(cb) == [Frame("invoke", "stored", cb) EXCEPT !.late = Dead(cb.of)]

\* notify: current_notifier copies the callback and drops the guard.
Notify(t) ==
    /\ Locks(t, {"notify"})
    /\ IF stored["NOTIFIER"] = NoCallback THEN Pop(t)
       ELSE Become(t, Invocation(stored["NOTIFIER"]))
    /\ UNCHANGED <<registry, stored, mutex, poisoned, calls>>

\* notify_from_thread: a fresh thread invokes, the caller joins it.
NotifyFromThread(t) ==
    /\ Locks(t, {"notify_from_thread"})
    /\ IF stored["NOTIFIER"] = NoCallback THEN Pop(t)
       ELSE \E w \in Workers :
             /\ stack[w] = <<>>
             /\ stack' = [stack EXCEPT
                    ![w] = <<Invocation(stored["NOTIFIER"])>>,
                    ![t] = <<[Top(t) EXCEPT !.at = "join", !.joins = w]>> \o Tail(@)]
    /\ UNCHANGED <<registry, stored, mutex, poisoned, calls>>

Join(t) ==
    /\ At(t, "join") /\ stack[Top(t).joins] = <<>>
    /\ Pop(t)
    /\ UNCHANGED <<registry, stored, mutex, poisoned, calls>>

\* Mutant: the guard lives as long as the loop over the words.
ForEachWordLocked(t) ==
    /\ Locks(t, {"for_each_word"})
    /\ mutex' = [mutex EXCEPT !["words"] = t]
    /\ Become(t, [Frame("each", "words", NoCallback) EXCEPT !.holds = "words"])
    /\ UNCHANGED <<registry, stored, poisoned, calls>>

\* for_each_word and count_ok: a snapshot is taken, the guard is dropped.
ForEachWord(t) ==
    /\ Locks(t, {"for_each_word"})
    /\ Become(t, Frame("each", "words", NoCallback))
    /\ UNCHANGED <<registry, stored, mutex, poisoned, calls>>

\* The next word goes to the borrowed closure.
NextWord(t) ==
    /\ At(t, "each") /\ ~Top(t).failed /\ calls < MaxCalls
    /\ Len(stack[t]) < MaxDepth
    /\ Push(t, Frame("closure", "borrowed", NoCallback))
    /\ Counted
    /\ UNCHANGED <<registry, stored, mutex, poisoned>>

\* Wasm::call runs the guest with the guard of the instance alive.
WasmCall(t) ==
    /\ Locks(t, {"call"})
    /\ mutex' = [mutex EXCEPT !["wasm"] = t]
    /\ Become(t, [Frame("guest", "call", NoCallback) EXCEPT !.holds = "wasm"])
    /\ UNCHANGED <<registry, stored, poisoned, calls>>

\* The guest calls host.notify; without a callback that is a trap.
HostNotify(t) ==
    /\ At(t, "guest") /\ ~Top(t).failed /\ calls < MaxCalls
    /\ Len(stack[t]) < MaxDepth
    /\ IF stored["wasm"] = NoCallback
       THEN Become(t, [Top(t) EXCEPT !.failed = TRUE])
       ELSE Push(t, Invocation(stored["wasm"]))
    /\ Counted
    /\ UNCHANGED <<registry, stored, mutex, poisoned>>

\* The loop or the guest is over, by itself or after a callback that failed.
ReturnFrom(t) ==
    /\ At(t, "each") \/ At(t, "guest")
    /\ mutex' = [m \in Mutexes |-> IF m = Top(t).holds THEN NoThread ELSE mutex[m]]
    /\ Pop(t)
    /\ UNCHANGED <<registry, stored, poisoned, calls>>

-----------------------------------------------------------------------------
(* StoredCallback::call and the trampoline.                                *)

\* A callback answers its caller with status 0, 1 or 2: a failed one makes
\* the loop return and the guest trap.
Answer(t, failed) ==
    LET rest == Tail(stack[t])
    IN stack' = [stack EXCEPT ![t] =
            IF rest = <<>> THEN <<>>
            ELSE <<[Head(rest) EXCEPT !.failed = @ \/ failed]>> \o Tail(rest)]

\* %STORED-CALLBACK-LOOKUP found a closure: the one the frame now runs.
LookupFound(t) ==
    /\ At(t, "invoke") /\ table[Top(t).cb.id] # 0
    /\ Become(t, [Top(t) EXCEPT !.at = "closure", !.runs = table[Top(t).cb.id]])
    /\ UNCHANGED <<registry, stored, mutex, poisoned, calls>>

\* It found none: a warning and status 2.
LookupDead(t) ==
    /\ At(t, "invoke") /\ table[Top(t).cb.id] = 0
    /\ Answer(t, TRUE)
    /\ UNCHANGED <<registry, stored, mutex, poisoned, calls>>

\* The closure returns, or signals, which is warned about and status 1; an
\* error in the body of count_ok is swallowed.
ClosureReturns(t) ==
    /\ At(t, "closure")
    /\ \E failed \in BOOLEAN : Answer(t, failed)
    /\ UNCHANGED <<registry, stored, mutex, poisoned, calls>>

Continue(t) ==
    \/ LockPanics(t) \/ Store(t) \/ Touch(t) \/ TouchInstance(t) \/ Poison(t)
    \/ Notify(t) \/ NotifyFromThread(t) \/ Join(t)
    \/ ForEachWord(t) \/ NextWord(t) \/ WasmCall(t) \/ HostNotify(t) \/ ReturnFrom(t)
    \/ LookupFound(t) \/ LookupDead(t) \/ ClosureReturns(t)

Next ==
    \/ \E t \in Threads : Continue(t)
    \/ \E t \in Threads, k \in Tokens :
        \/ Callback(t, k) \/ Unregister(t, k)
        \/ \E op \in Ops : Begin(t, op, k)
    \/ \E k \in Tokens : DropToken(k) \/ Finalize(k)

Spec == Init /\ [][Next]_vars

\* A thread that can go on does: closures and guests end, and a mutex that is
\* free is obtained, the number of calls being bounded.
FairSpec == Spec /\ \A t \in Threads : WF_vars(Continue(t))

-----------------------------------------------------------------------------
(* Properties *)

\* The token keeps the closure registered: as long as the program holds it
\* and has not unregistered it, its id finds its own closure, whatever older
\* tokens' finalizers still remove (stored-callback.lisp:42-58).
HeldStaysRegistered ==
    \A k \in Tokens : token[k] = "held" /\ registered[k] => table[id[k]] = k

\* An invocation runs the closure of the token its id was taken from and no
\* other, and one that began after the token was unregistered or finalized
\* runs none.  One that began before may still run it: between its lookup
\* and its call the registry is not locked (codegen.lisp:204-213).
RunsItsOwn ==
    \A t \in Threads : \A i \in 1..Len(stack[t]) :
        LET f == stack[t][i]
        IN f.at = "closure" => f.runs = f.cb.of /\ ~f.late

\* t cannot go on before u does: u owns the mutex that t is waiting for, or is
\* the thread that t joins.
Waits(t, u) ==
    \/ At(t, "lock") /\ mutex[MutexOf(Top(t).op)] = u
    \/ At(t, "join") /\ Top(t).joins = u

\* Threads that wait for each other, and so for ever; one of them for the Wasm
\* instance.
Blocked(C) == \A t \in C : \E u \in C : Waits(t, u)
OnInstance(C) == \E t \in C : At(t, "lock") /\ Top(t).op \in WasmOps

\* Threads wait for each other only through the mutex of a Wasm instance, which
\* Wasm::call holds while its guest runs and calls host.notify (wasm/src/lib.rs:
\* 192, 217): a closure under the guest that uses the instance, or a worker that
\* such a closure joins and whose closure does.  wordbag alone never blocks: its
\* exports drop their guard before they call or join (wordbag/src/lib.rs:162-167,
\* 275-277).
OnlyInstanceBlocks == \A C \in (SUBSET Threads) \ {{}} : Blocked(C) => OnInstance(C)

Stuck(t) == \E C \in SUBSET Threads : t \in C /\ Blocked(C) /\ OnInstance(C)

\* Every call returns, though a closure may call back into the crate that is
\* calling it and other threads wait for the same mutexes and join each other:
\* no thread stays in its calls for ever, except one that waits, itself or
\* through others, in such a circle around the Wasm instance.
EveryCallReturns ==
    \A t \in Threads : []<>(stack[t] = <<>> \/ Stuck(t))
=============================================================================
