---------------------------------- MODULE Wasi ----------------------------------
(***************************************************************************)
(* The WASI sandbox of examples/wasm/src/lib.rs: one Wasi handle, made by  *)
(* load, configured by arg, env, preopen and stdin, run once, read by      *)
(* stdout, stderr and fuel_left, and freed.  Several Lisp threads use the  *)
(* handle; the guest is any program, restricted only by its budgets.       *)
(*                                                                         *)
(* A host call of the guest is one step: the guest runs with the handle's  *)
(* mutex held, so no other thread can look between its parts.  wasmi and   *)
(* wasi_common are external; their limiter of linear memory is left out.   *)
(***************************************************************************)
EXTENDS Naturals

CONSTANTS
    Threads,          \* Lisp threads that hold the handle
    NoThread,         \* nobody: the mutex is free
    EnvKeys,          \* names of environment variables
    Inputs,           \* what else the guest is given: "arg", "stdin"
    Fuel,             \* the FUEL argument of make-wasi
    MemoryLimit,      \* the MEMORY-LIMIT argument: bytes of output kept
    OpenDescriptors,  \* OPEN_DESCRIPTORS (256 in the code)
    Second,           \* the fixed part of the host-call time budget, in ticks
    MaxCallTime,      \* bound: longest single host call, in ticks
    MaxWrite          \* bound: longest single write, in bytes

\* Where a thread can be, besides the call that names a setting.
Labels == {"idle", "start", "run", "running", "stdout", "stderr", "fuel_left"}

ASSUME WasiAssumption ==
    /\ NoThread \notin Threads
    /\ Fuel \in Nat \ {0} /\ OpenDescriptors \in Nat \ {0}
    /\ {MemoryLimit, Second, MaxCallTime, MaxWrite} \subseteq Nat
    /\ Inputs \subseteq {"arg", "stdin"}
    /\ EnvKeys \cap ({"arg", "stdin", "preopen"} \cup Labels) = {}

VARIABLES
    phase,      \* "none", "loading" (the start section runs), "made"
    lock,       \* owner of the mutex around WasiInner
    poisoned,   \* a panic has happened under the mutex
    ran,        \* WasiInner.ran
    envKeys,    \* WasiInner.env_keys
    wasi,       \* WasiCtx: what it was given, descriptors opened through preopens
    live,       \* Live: the atomic count of descriptors
    captured,   \* Captured: bytes kept per stream
    fuel,       \* fuel left in the store
    spent,      \* HostTime.spent
    pc,         \* where each thread is
    offered     \* history: bytes the guest has tried to write, at most MemoryLimit

vars == <<phase, lock, poisoned, ran, envKeys, wasi, live, captured, fuel, spent,
          pc, offered>>

Least(a, b) == IF a <= b THEN a ELSE b

Streams == {"stdout", "stderr"}
Settings == Inputs \cup {"preopen"} \cup EnvKeys
Readers == {"stdout", "stderr", "fuel_left"}

fresh_wasi == [given |-> {}, files |-> 0]

\* One second plus a microsecond per unit of fuel.
HostTime_for_fuel == Second + Fuel

TypeOK ==
    /\ phase \in {"none", "loading", "made"}
    /\ lock \in Threads \cup {NoThread}
    /\ poisoned \in BOOLEAN /\ ran \in BOOLEAN
    /\ envKeys \subseteq EnvKeys
    /\ wasi \in [given : SUBSET Settings, files : 0..OpenDescriptors]
    /\ live \in 0..OpenDescriptors
    /\ captured \in [Streams -> 0..MemoryLimit]
    /\ fuel \in 0..Fuel
    /\ spent \in 0..(HostTime_for_fuel + MaxCallTime)
    /\ pc \in [Threads -> {"idle", "start", "run", "running"} \cup Settings \cup Readers]
    /\ offered \in 0..MemoryLimit

Init ==
    /\ phase = "none" /\ lock = NoThread
    /\ poisoned = FALSE /\ ran = FALSE /\ envKeys = {}
    /\ wasi = fresh_wasi /\ live = 0
    /\ captured = [s \in Streams |-> 0] /\ offered = 0
    /\ fuel = 0 /\ spent = 0
    /\ pc = [t \in Threads |-> "idle"]

-----------------------------------------------------------------------------
(* load and free.  The store belongs to the loading thread until load      *)
(* returns; a load that fails drops it.                                    *)

sandbox == <<envKeys, wasi, live, captured, fuel, spent, offered>>

\* The call answers, with a value or an error.
Return(t) == pc' = [pc EXCEPT ![t] = "idle"]

\* The handle and everything it owns are dropped.
Drop ==
    /\ phase' = "none" /\ lock' = NoThread
    /\ poisoned' = FALSE /\ ran' = FALSE /\ envKeys' = {}
    /\ wasi' = fresh_wasi /\ live' = 0
    /\ captured' = [s \in Streams |-> 0] /\ offered' = 0
    /\ fuel' = 0 /\ spent' = 0

\* No fuel, an unreadable or invalid module, no _start of the right type.
LoadRefused(t) ==
    /\ phase = "none" /\ pc[t] = "idle"
    /\ Return(t)
    /\ UNCHANGED <<phase, lock, poisoned, ran, sandbox>>

\* The store is built and the module instantiated; its start section runs.
Load(t) ==
    /\ phase = "none" /\ pc[t] = "idle"
    /\ phase' = "loading"
    /\ fuel' = Fuel
    /\ pc' = [pc EXCEPT ![t] = "start"]
    /\ UNCHANGED <<lock, poisoned, ran, envKeys, wasi, live, captured, spent, offered>>

\* The start section is over, or there is none.
LoadDone(t) ==
    /\ pc[t] = "start" /\ spent <= HostTime_for_fuel
    /\ phase' = "made"
    /\ Return(t)
    /\ UNCHANGED <<lock, poisoned, ran, sandbox>>

\* The start section traps, exits or panics: there is no handle.
LoadFails(t) ==
    /\ pc[t] = "start"
    /\ Return(t)
    /\ Drop

\* The handle cell frees the box when no call is in flight.
Free(t) ==
    /\ phase = "made" /\ \A u \in Threads : pc[u] = "idle"
    /\ Return(t)
    /\ Drop

-----------------------------------------------------------------------------
(* The methods: try_lock, then the body under the guard.                   *)

\* try_lock never waits: a mutex that is held is an error, a poisoned one too.
Lock(t, what) ==
    /\ phase = "made" /\ pc[t] = "idle"
    /\ IF lock = NoThread /\ ~poisoned
       THEN lock' = t /\ pc' = [pc EXCEPT ![t] = what]
       ELSE Return(t) /\ UNCHANGED lock
    /\ UNCHANGED <<phase, poisoned, ran, sandbox>>

Unlock(t) == lock' = NoThread /\ Return(t)

\* The early returns of a configuration call: not_run_yet, a NUL or a bad
\* name, a key that is set, a directory that does not open.
ConfigureRefused(t, what) ==
    /\ pc[t] = what
    /\ Unlock(t)
    /\ UNCHANGED <<phase, poisoned, ran, sandbox>>

\* Mutant: whether the instance has run is not asked.
ConfigureLate(t, what) ==
    /\ pc[t] = what /\ what \notin envKeys
    /\ wasi' = [wasi EXCEPT !.given = @ \cup {what}]
    /\ envKeys' = envKeys \cup ({what} \cap EnvKeys)
    /\ Unlock(t)
    /\ UNCHANGED <<phase, poisoned, ran, live, captured, fuel, spent, offered>>

\* arg, env, preopen and stdin.
Configure(t, what) ==
    /\ pc[t] = what /\ ~ran
    /\ what \notin envKeys
    /\ wasi' = [wasi EXCEPT !.given = @ \cup {what}]
    /\ envKeys' = envKeys \cup ({what} \cap EnvKeys)
    /\ Unlock(t)
    /\ UNCHANGED <<phase, poisoned, ran, live, captured, fuel, spent, offered>>

\* stdout, stderr, fuel_left
Read(t, what) ==
    /\ pc[t] = what
    /\ Unlock(t)
    /\ UNCHANGED <<phase, poisoned, ran, sandbox>>

\* Mutant: a second run is not refused.
RunAnyTime(t) ==
    /\ pc[t] = "run"
    /\ ran' = TRUE
    /\ pc' = [pc EXCEPT ![t] = "running"]
    /\ UNCHANGED <<phase, lock, poisoned, sandbox>>

\* run: the instance is spent from here on, whatever happens.
Run(t) ==
    /\ pc[t] = "run" /\ ~ran
    /\ ran' = TRUE
    /\ pc' = [pc EXCEPT ![t] = "running"]
    /\ UNCHANGED <<phase, lock, poisoned, sandbox>>

RunAgain(t) ==
    /\ pc[t] = "run" /\ ran
    /\ Unlock(t)
    /\ UNCHANGED <<phase, poisoned, ran, sandbox>>

\* _start returned, called proc_exit or trapped; the context is replaced, and
\* dropping the old one drops its descriptors with their slots.
RunEnds(t) ==
    /\ pc[t] = "running"
    /\ wasi' = fresh_wasi
    /\ live' = live - wasi.files
    /\ Unlock(t)
    /\ UNCHANGED <<phase, poisoned, ran, envKeys, captured, fuel, spent, offered>>

\* A panic unwinds through a method: the guard poisons the mutex.
Panic(t) ==
    /\ lock = t
    /\ poisoned' = TRUE
    /\ Unlock(t)
    /\ UNCHANGED <<phase, ran, sandbox>>

-----------------------------------------------------------------------------
(* The guest, in a start section or in _start.                             *)

\* The guest's next instruction: there is fuel, and the call hook has not trapped.
InGuest(t) ==
    /\ pc[t] \in {"start", "running"}
    /\ fuel > 0 /\ spent <= HostTime_for_fuel

GuestComputes(t) ==
    /\ InGuest(t)
    /\ fuel' = fuel - 1
    /\ UNCHANGED <<phase, lock, poisoned, ran, envKeys, wasi, live, captured, spent,
                   pc, offered>>

\* Mutant: a host call costs neither fuel nor time.
HostCallFree(t, d) ==
    /\ InGuest(t)
    /\ UNCHANGED <<fuel, spent, phase, lock, poisoned, ran, envKeys, pc>>

\* The call hook around a host call that takes d ticks: it costs the guest an
\* instruction and its time is added up when it returns.
HostCall(t, d) ==
    /\ InGuest(t)
    /\ fuel' = fuel - 1
    /\ spent' = spent + d
    /\ UNCHANGED <<phase, lock, poisoned, ran, envKeys, pc>>

\* Mutant: each stream has a budget of its own.
WriteVectoredApart(t, s, n, d) ==
    /\ HostCall(t, d)
    /\ captured' = [captured EXCEPT ![s] = @ + Least(n, MemoryLimit - @)]
    /\ offered' = Least(MemoryLimit, offered + n)
    /\ UNCHANGED <<wasi, live>>

\* CappedStream::write_vectored: what fits is kept, whichever stream it is for.
WriteVectored(t, s, n, d) ==
    /\ HostCall(t, d)
    /\ LET room == MemoryLimit - (captured["stdout"] + captured["stderr"])
       IN captured' = [captured EXCEPT ![s] = @ + Least(n, room)]
    /\ offered' = Least(MemoryLimit, offered + n)
    /\ UNCHANGED <<wasi, live>>

\* There may be a directory to open files in: a preopened one, or one that was
\* opened through it and has a slot like any descriptor.
HasDir == "preopen" \in wasi.given \/ wasi.files > 0

\* Mutant: the limit is off by one.
OpenFileOneMore(t, d) ==
    /\ HostCall(t, d)
    /\ HasDir /\ live <= OpenDescriptors
    /\ live' = live + 1
    /\ wasi' = [wasi EXCEPT !.files = @ + 1]
    /\ UNCHANGED <<captured, offered>>

\* ReadOnlyDir::open_file of something that opens: it keeps the slot it took.
OpenFile(t, d) ==
    /\ HostCall(t, d)
    /\ HasDir
    /\ live < OpenDescriptors
    /\ live' = live + 1
    /\ wasi' = [wasi EXCEPT !.files = @ + 1]
    /\ UNCHANGED <<captured, offered>>

\* The same refused: for writing (EROFS), not a file or directory (EACCES), no
\* slot (EMFILE), or an open that fails and drops the slot it had taken.
OpenFileFails(t, d) ==
    /\ HostCall(t, d)
    /\ HasDir
    /\ UNCHANGED <<wasi, live, captured, offered>>

\* fd_close of a descriptor: its slot goes back.
CloseFile(t, d) ==
    /\ HostCall(t, d)
    /\ wasi.files > 0
    /\ wasi' = [wasi EXCEPT !.files = @ - 1]
    /\ live' = live - 1
    /\ UNCHANGED <<captured, offered>>

\* fd_close of a preopened directory, which holds no slot; what was opened
\* through it stays open, and it may not have been the only one.
ClosePreopen(t, d) ==
    /\ HostCall(t, d)
    /\ "preopen" \in wasi.given
    /\ wasi' \in {wasi, [wasi EXCEPT !.given = @ \ {"preopen"}]}
    /\ UNCHANGED <<live, captured, offered>>

\* Everything that would change a directory: EROFS.
ReadOnly(t, d) ==
    /\ HostCall(t, d)
    /\ UNCHANGED <<wasi, live, captured, offered>>

\* Reads, seeks and stats of what is open: delegated.
ReadFile(t, d) ==
    /\ HostCall(t, d)
    /\ UNCHANGED <<wasi, live, captured, offered>>

\* poll_oneoff and sleep are refused at once, sched_yield does nothing.
NoWait(t) ==
    /\ HostCall(t, 0)
    /\ UNCHANGED <<wasi, live, captured, offered>>

Guest(t) ==
    \/ GuestComputes(t)
    \/ NoWait(t)
    \/ \E d \in 0..MaxCallTime :
        \/ OpenFile(t, d) \/ OpenFileFails(t, d)
        \/ CloseFile(t, d) \/ ClosePreopen(t, d)
        \/ ReadOnly(t, d) \/ ReadFile(t, d)
        \/ \E s \in Streams, n \in 0..MaxWrite : WriteVectored(t, s, n, d)

-----------------------------------------------------------------------------
\* A thread goes on with the call it is in.
Continue(t) ==
    \/ LoadDone(t) \/ LoadFails(t)
    \/ Run(t) \/ RunAgain(t) \/ Panic(t)
    \/ RunEnds(t)
    \/ \E what \in Settings : Configure(t, what) \/ ConfigureRefused(t, what)
    \/ \E what \in Readers : Read(t, what)
    \/ Guest(t)

\* A thread begins a call.
Begin(t) ==
    \/ LoadRefused(t) \/ Load(t) \/ Free(t)
    \/ \E what \in Settings \cup Readers \cup {"run"} : Lock(t, what)

Next == \E t \in Threads : Begin(t) \/ Continue(t)

Spec == Init /\ [][Next]_vars

\* A thread inside a call keeps running: the code between try_lock and the
\* return waits for nothing.
Fairness == \A t \in Threads : WF_vars(Continue(t))

FairSpec == Spec /\ Fairness

-----------------------------------------------------------------------------
(* Properties *)

\* The budgets a sandbox promises hold together, through a start section, a
\* run and every way they end: the atomic count of Slots is the number of
\* descriptors the guest holds and stays within OPEN_DESCRIPTORS, output is
\* kept up to MEMORY-LIMIT over both streams and not a byte less than was
\* offered below it, and host calls take at most the budget of HostTime plus
\* the one call in flight (lib.rs:229-267).
BudgetsHold ==
    /\ live = wasi.files /\ live <= OpenDescriptors
    /\ captured["stdout"] + captured["stderr"] = offered
    /\ spent <= HostTime_for_fuel + MaxCallTime

\* Once a run is over nothing of the guest's context is left, however it
\* ended, and no late configuration call has put anything into the new one;
\* only a panic keeps it until the handle is freed (lib.rs:987-990).
SpentIsReleased ==
    phase = "made" /\ ran /\ lock = NoThread /\ ~poisoned
        => wasi = fresh_wasi /\ live = 0

\* _start runs once: outside of the one run, a handle that has run keeps its
\* output and its fuel as the run left them, whatever is called on it, until
\* it is freed (WasiInner.ran and not_run_yet, lib.rs:1036).
SpentStaysSpent ==
    [][phase = "made" /\ ran /\ phase' = "made" /\ (\A t \in Threads : pc[t] # "running")
        => ran' /\ UNCHANGED <<captured, fuel, spent>>
             /\ \A t \in Threads : pc'[t] # "running"]_vars

\* Every call returns: fuel and the refusal to wait make load and run finite,
\* and no method waits for another thread's run (lib.rs:229-267, 1023-1044).
EveryCallReturns ==
    \A t \in Threads : pc[t] # "idle" ~> pc[t] = "idle"
=============================================================================
