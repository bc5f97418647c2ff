----------------------------- MODULE HandleCell -----------------------------
(***************************************************************************)
(* The life of a Rust object that Lisp holds through a handle:             *)
(* lisp/src/handle.lisp (the cell state machine), the handle part of the   *)
(* generated wrappers (lisp/src/codegen.lisp) and what a reload or an image *)
(* dump and restore does to them (lisp/src/crate.lisp).                    *)
(*                                                                         *)
(* An activation is one wrapper call, one FREE or one finalizer run.  Each *)
(* critical section of a cell's lock is one action, because the lock is    *)
(* never held across a foreign call or a signal.  What happens between two *)
(* critical sections (the foreign call itself, the foreign free) is an     *)
(* action of its own.  An activation that a callback starts inside a       *)
(* foreign call names the suspended activation as its caller.              *)
(*                                                                         *)
(* A library is a pair <<crate, generation>>: a reload opens a fresh copy  *)
(* and never closes the old one, so every generation of a process stays    *)
(* mapped until that process ends.                                         *)
(***************************************************************************)
EXTENDS Integers, Sequences, FiniteSets

CONSTANTS
    Crates,        \* names of the loaded crates
    Cells,         \* handle cells that can be created
    Acts,          \* activations (calls, frees, finalizer runs)
    NoAct,         \* "started by no other activation"
    NoCell,        \* "no cell"
    MaxArgs,       \* handle parameters of one export
    MaxGen,        \* bound: generations of one crate
    MaxSession,    \* bound: image restores
    MaxInterrupts  \* bound: asynchronous unwinds of an activation

ASSUME ActsAssumption == IsFiniteSet(Acts) /\ NoAct \notin Acts
ASSUME CellsAssumption == NoCell \notin Cells
ASSUME BoundsAssumption ==
    /\ MaxArgs \in Nat
    /\ MaxGen \in Nat
    /\ MaxSession \in Nat
    /\ MaxInterrupts \in Nat

Libs == Crates \X (1..MaxGen)
NoLib == <<>>
Slots == 1..MaxArgs

VARIABLES
    \* the Lisp image
    session,       \* *session*
    generation,    \* crate -> its current generation, 0 before the first load
    ctxSession,    \* library -> gen-ctx-session of the wrappers bound to it
    toReload,      \* crates the restore hook has still to reload
    \* the cells
    state,         \* cell -> cell-state, "none" before %make-cell
    birth,         \* cell -> <<cell-crate, cell-generation>>
    cellSession,   \* cell -> cell-session
    freeFn,        \* cell -> the library whose free shim cell-free-fn is
    inFlight,      \* cell -> cell-in-flight
    \* the activations
    pc,            \* activation -> where it is
    wrapper,       \* activation -> the library its wrapper is bound to
    args,          \* activation -> the cells of its handle arguments
    held,          \* activation -> how many of them cell-begin-call admitted
    target,        \* activation -> cell it is about to free, or whose Box
                   \*               it was just given by the foreign call
    caller,        \* activation -> suspended activation that called back
    interrupts,    \* number of asynchronous unwinds so far
    \* the world: which Box each cell's pointer names
    process,       \* number of the running process
    starting,      \* TRUE from process start until the restore hook runs
    home,          \* cell -> library that allocated its Box
    homeProcess,   \* cell -> process whose memory the Box is in
    freeCount      \* cell -> number of times a free shim was given its pointer

imageVars == <<session, generation, ctxSession, toReload>>
cellVars == <<state, birth, cellSession, freeFn, inFlight>>
actVars == <<pc, wrapper, args, held, target, caller, interrupts>>
worldVars == <<process, starting, home, homeProcess, freeCount>>
vars == <<imageVars, cellVars, actVars, worldVars>>

States == {"none", "live", "free-pending", "freed"}
Points == {"idle", "begin", "foreign", "wrap", "ending", "drop"}

TypeOK ==
    /\ session \in Nat
    /\ generation \in [Crates -> 0..MaxGen]
    /\ ctxSession \in [Libs -> Nat]
    /\ toReload \in SUBSET Crates
    /\ state \in [Cells -> States]
    /\ birth \in [Cells -> Libs \cup {NoLib}]
    /\ cellSession \in [Cells -> Nat]
    /\ freeFn \in [Cells -> Libs \cup {NoLib}]
    /\ inFlight \in [Cells -> Nat]
    /\ pc \in [Acts -> Points]
    /\ wrapper \in [Acts -> Libs \cup {NoLib}]
    /\ args \in [Acts -> Seq(Cells)]
    /\ held \in [Acts -> Nat]
    /\ \A a \in Acts : held[a] <= Len(args[a]) /\ Len(args[a]) <= MaxArgs
    /\ target \in [Acts -> Cells \cup {NoCell}]
    /\ caller \in [Acts -> Acts \cup {NoAct}]
    /\ interrupts \in Nat
    /\ process \in Nat
    /\ starting \in BOOLEAN
    /\ home \in [Cells -> Libs \cup {NoLib}]
    /\ homeProcess \in [Cells -> Nat]
    /\ freeCount \in [Cells -> Nat]

Init ==
    /\ session = 0
    /\ generation = [k \in Crates |-> 0]
    /\ ctxSession = [l \in Libs |-> 0]
    /\ toReload = {}
    /\ state = [c \in Cells |-> "none"]
    /\ birth = [c \in Cells |-> NoLib]
    /\ cellSession = [c \in Cells |-> 0]
    /\ freeFn = [c \in Cells |-> NoLib]
    /\ inFlight = [c \in Cells |-> 0]
    /\ pc = [a \in Acts |-> "idle"]
    /\ wrapper = [a \in Acts |-> NoLib]
    /\ args = [a \in Acts |-> <<>>]
    /\ held = [a \in Acts |-> 0]
    /\ target = [a \in Acts |-> NoCell]
    /\ caller = [a \in Acts |-> NoAct]
    /\ interrupts = 0
    /\ process = 0
    /\ starting = FALSE
    /\ home = [c \in Cells |-> NoLib]
    /\ homeProcess = [c \in Cells |-> 0]
    /\ freeCount = [c \in Cells |-> 0]

-----------------------------------------------------------------------------
(***************************************************************************)
(* Loading, dumping and restoring, as far as the cells can tell.           *)
(***************************************************************************)

Loaded(l) == l[2] <= generation[l[1]]

\* %commit-generation: the next generation's immutable context is made under
\* the registry lock and stamped with the current session.
CommitGeneration(k) ==
    /\ generation[k] < MaxGen
    /\ generation' = [generation EXCEPT ![k] = @ + 1]
    /\ ctxSession' = [ctxSession EXCEPT ![<<k, generation[k] + 1>>] = session]

\* LOAD-CRATE / RELOAD-CRATE.  The registry lock keeps it out of the restore
\* hook's loop.
Reload(k) ==
    /\ ~starting /\ toReload = {}
    /\ CommitGeneration(k)
    /\ UNCHANGED <<session, toReload, cellVars, actVars, worldVars>>

\* An image dump followed by the start of the dumped image in a new process.
\* A Lisp dumps only when its one thread is at top level.
DumpAndStart ==
    /\ session < MaxSession
    /\ ~starting /\ toReload = {}
    /\ \A a \in Acts : pc[a] = "idle"
    /\ process' = process + 1
    /\ starting' = TRUE
    /\ UNCHANGED <<imageVars, cellVars, actVars, home, homeProcess, freeCount>>

\* %restore-all-crates: the session bump comes first; the crates are reloaded
\* afterwards, one by one, while other threads and finalizers already run.
RestoreHook ==
    /\ starting
    /\ session' = session + 1
    /\ toReload' = {k \in Crates : generation[k] > 0}
    /\ starting' = FALSE
    /\ UNCHANGED <<generation, ctxSession, cellVars, actVars,
                   process, home, homeProcess, freeCount>>

\* One crate of the restore loop: reloaded, or stubbed when that fails.
RestoreCrate(k) ==
    /\ k \in toReload
    /\ toReload' = toReload \ {k}
    /\ CommitGeneration(k) \/ UNCHANGED <<generation, ctxSession>>
    /\ UNCHANGED <<session, cellVars, actVars, worldVars>>

-----------------------------------------------------------------------------
(***************************************************************************)
(* A wrapper call.                                                         *)
(***************************************************************************)

\* An activation can step unless a callback it is under is still running.
Running(a) == ~starting /\ \A b \in Acts : caller[b] # a

\* Where Lisp code that starts an activation may run: at some thread's top
\* level or in a callback under a foreign call.
CanStart(p) == ~starting /\ (p # NoAct => (pc[p] = "foreign" /\ Running(p)))

\* A generated wrapper is entered.  Any wrapper ever published may still be
\* held by user code; the session gate refuses those of a dead session.
Enter(a, p, l, cs) ==
    /\ pc[a] = "idle" /\ p # a /\ CanStart(p)
    /\ Loaded(l)
    /\ ctxSession[l] = session
    /\ \A i \in 1..Len(cs) : state[cs[i]] # "none"
    /\ pc' = [pc EXCEPT ![a] = "begin"]
    /\ wrapper' = [wrapper EXCEPT ![a] = l]
    /\ args' = [args EXCEPT ![a] = cs]
    /\ caller' = [caller EXCEPT ![a] = p]
    /\ UNCHANGED <<held, target, interrupts, imageVars, cellVars, worldVars>>

\* Mutant: the gate asks the crate for its current generation.
AdmitsCurrentGeneration(c, l) ==
    /\ birth[c][1] = l[1]
    /\ state[c] \notin {"freed", "free-pending"}
    /\ cellSession[c] = session
    /\ birth[c][2] = generation[l[1]]

\* Mutant: a call is still admitted while the free is pending.
AdmitsPending(c, l) ==
    /\ birth[c][1] = l[1]
    /\ state[c] # "freed"
    /\ cellSession[c] = session
    /\ birth[c][2] = l[2]

\* The gate of cell-begin-call, after the wrapper's own TYPEP test on the
\* crate's handle class.
Admits(c, l) ==
    /\ birth[c][1] = l[1]
    /\ state[c] \notin {"freed", "free-pending"}
    /\ cellSession[c] = session
    /\ birth[c][2] = l[2]

NextArg(a) == args[a][held[a] + 1]

\* cell-begin-call admits the next handle argument.
BeginCall(a) ==
    /\ pc[a] = "begin" /\ Running(a)
    /\ held[a] < Len(args[a])
    /\ Admits(NextArg(a), wrapper[a])
    /\ inFlight' = [inFlight EXCEPT ![NextArg(a)] = @ + 1]
    /\ held' = [held EXCEPT ![a] = @ + 1]
    /\ UNCHANGED <<pc, wrapper, args, target, caller, interrupts, state, birth,
                   cellSession, freeFn, imageVars, worldVars>>

\* cell-begin-call or TYPEP refuses it: a condition unwinds the wrapper
\* through the UNWIND-PROTECTs of the arguments already admitted.
RefuseCall(a) ==
    /\ pc[a] = "begin" /\ Running(a)
    /\ held[a] < Len(args[a])
    /\ ~Admits(NextArg(a), wrapper[a])
    /\ pc' = [pc EXCEPT ![a] = "ending"]
    /\ UNCHANGED <<wrapper, args, held, target, caller, interrupts, imageVars,
                   cellVars, worldVars>>

\* Every argument is admitted: the pointers are passed to Rust.
CallForeign(a) ==
    /\ pc[a] = "begin" /\ Running(a)
    /\ held[a] = Len(args[a])
    /\ pc' = [pc EXCEPT ![a] = "foreign"]
    /\ UNCHANGED <<wrapper, args, held, target, caller, interrupts, imageVars,
                   cellVars, worldVars>>

\* Rust returns, with any status; nothing the cells see depends on which.
ForeignReturn(a) ==
    /\ pc[a] = "foreign" /\ Running(a)
    /\ pc' = [pc EXCEPT ![a] = "ending"]
    /\ UNCHANGED <<wrapper, args, held, target, caller, interrupts, imageVars,
                   cellVars, worldVars>>

\* Rust returns a new Box (handle_new) that a fresh cell will own.
ForeignReturnHandle(a, c) ==
    /\ pc[a] = "foreign" /\ Running(a)
    /\ home[c] = NoLib
    /\ home' = [home EXCEPT ![c] = wrapper[a]]
    /\ homeProcess' = [homeProcess EXCEPT ![c] = process]
    /\ target' = [target EXCEPT ![a] = c]
    /\ pc' = [pc EXCEPT ![a] = "wrap"]
    /\ UNCHANGED <<wrapper, args, held, caller, interrupts, imageVars, cellVars,
                   process, starting, freeCount>>

\* Mutant: the free shim is taken from the crate's current generation.
MakeHandleCurrentShim(a) ==
    /\ pc[a] = "wrap" /\ Running(a)
    /\ state' = [state EXCEPT ![target[a]] = "live"]
    /\ birth' = [birth EXCEPT ![target[a]] = wrapper[a]]
    /\ cellSession' = [cellSession EXCEPT ![target[a]] = ctxSession[wrapper[a]]]
    /\ freeFn' = [freeFn EXCEPT ![target[a]] =
                     <<wrapper[a][1], generation[wrapper[a][1]]>>]
    /\ pc' = [pc EXCEPT ![a] = "ending"]
    /\ target' = [target EXCEPT ![a] = NoCell]
    /\ UNCHANGED <<inFlight, wrapper, args, held, caller, interrupts, imageVars,
                   worldVars>>

\* %make-crate-handle: the cell takes its generation, session and free shim
\* from the wrapper's context, never from the crate's current slots.
MakeHandle(a) ==
    /\ pc[a] = "wrap" /\ Running(a)
    /\ state' = [state EXCEPT ![target[a]] = "live"]
    /\ birth' = [birth EXCEPT ![target[a]] = wrapper[a]]
    /\ cellSession' = [cellSession EXCEPT ![target[a]] = ctxSession[wrapper[a]]]
    /\ freeFn' = [freeFn EXCEPT ![target[a]] = wrapper[a]]
    /\ pc' = [pc EXCEPT ![a] = "ending"]
    /\ target' = [target EXCEPT ![a] = NoCell]
    /\ UNCHANGED <<inFlight, wrapper, args, held, caller, interrupts, imageVars,
                   worldVars>>

LastArg(a) == args[a][held[a]]

\* Mutant: the zero test reads the counter before the decrement.
EndCallTestsFirst(a) ==
    LET c == LastArg(a)
        freeNow == state[c] = "free-pending" /\ inFlight[c] = 0
    IN  /\ pc[a] = "ending" /\ Running(a)
        /\ held[a] > 0
        /\ inFlight' = [inFlight EXCEPT ![c] = @ - 1]
        /\ held' = [held EXCEPT ![a] = @ - 1]
        /\ state' = IF freeNow THEN [state EXCEPT ![c] = "freed"] ELSE state
        /\ target' = IF freeNow THEN [target EXCEPT ![a] = c] ELSE target
        /\ pc' = IF freeNow THEN [pc EXCEPT ![a] = "drop"] ELSE pc
        /\ UNCHANGED <<birth, cellSession, freeFn, wrapper, args, caller,
                       interrupts, imageVars, worldVars>>

\* cell-end-call, from the innermost UNWIND-PROTECT outwards.  The last call
\* in flight on a free-pending cell takes over its free.
EndCall(a) ==
    LET c == LastArg(a)
        freeNow == state[c] = "free-pending" /\ inFlight[c] - 1 = 0
    IN  /\ pc[a] = "ending" /\ Running(a)
        /\ held[a] > 0
        /\ inFlight' = [inFlight EXCEPT ![c] = @ - 1]
        /\ held' = [held EXCEPT ![a] = @ - 1]
        /\ state' = IF freeNow THEN [state EXCEPT ![c] = "freed"] ELSE state
        /\ target' = IF freeNow THEN [target EXCEPT ![a] = c] ELSE target
        /\ pc' = IF freeNow THEN [pc EXCEPT ![a] = "drop"] ELSE pc
        /\ UNCHANGED <<birth, cellSession, freeFn, wrapper, args, caller,
                       interrupts, imageVars, worldVars>>

\* The activation is over.
Leave(a) ==
    /\ pc[a] = "ending" /\ Running(a)
    /\ held[a] = 0
    /\ pc' = [pc EXCEPT ![a] = "idle"]
    /\ wrapper' = [wrapper EXCEPT ![a] = NoLib]
    /\ args' = [args EXCEPT ![a] = <<>>]
    /\ caller' = [caller EXCEPT ![a] = NoAct]
    /\ UNCHANGED <<held, target, interrupts, imageVars, cellVars, worldVars>>

-----------------------------------------------------------------------------
(***************************************************************************)
(* Releasing a handle.                                                     *)
(***************************************************************************)

\* Mutant: the cell is not marked freed inside the critical section.
CellFreeUnmarked(a, p, c) ==
    /\ pc[a] = "idle" /\ p # a /\ CanStart(p)
    /\ state[c] = "live" /\ inFlight[c] = 0
    /\ target' = [target EXCEPT ![a] = c]
    /\ pc' = [pc EXCEPT ![a] = "drop"]
    /\ caller' = [caller EXCEPT ![a] = p]
    /\ UNCHANGED <<state, birth, cellSession, freeFn, inFlight, wrapper, args,
                   held, interrupts, imageVars, worldVars>>

\* %cell-free, called by FREE or by the finalizer of an unreachable handle:
\* free now, or leave it to the last call in flight.  On a cell that is
\* freed or free-pending it does nothing and returns NIL.
CellFree(a, p, c) ==
    /\ pc[a] = "idle" /\ p # a /\ CanStart(p)
    /\ state[c] = "live"
    /\ IF inFlight[c] = 0
       THEN /\ state' = [state EXCEPT ![c] = "freed"]
            /\ target' = [target EXCEPT ![a] = c]
            /\ pc' = [pc EXCEPT ![a] = "drop"]
            /\ caller' = [caller EXCEPT ![a] = p]
       ELSE /\ state' = [state EXCEPT ![c] = "free-pending"]
            /\ UNCHANGED <<target, pc, caller>>
    /\ UNCHANGED <<birth, cellSession, freeFn, inFlight, wrapper, args, held,
                   interrupts, imageVars, worldVars>>

\* %maybe-foreign-free, outside the lock: the birth library's free shim gets
\* the pointer, unless the cell belongs to a dead session.
MaybeForeignFree(a) ==
    LET c == target[a]
    IN  /\ pc[a] = "drop" /\ Running(a)
        /\ freeCount' = IF cellSession[c] = session
                        THEN [freeCount EXCEPT ![c] = @ + 1]
                        ELSE freeCount
        /\ pc' = [pc EXCEPT ![a] = "ending"]
        /\ target' = [target EXCEPT ![a] = NoCell]
        /\ UNCHANGED <<wrapper, args, held, caller, interrupts, imageVars,
                       cellVars, process, starting, home, homeProcess>>

-----------------------------------------------------------------------------
(***************************************************************************)
(* An asynchronous unwind (a timeout, a destroyed thread) at a point no    *)
(* UNWIND-PROTECT covers.  It skips exactly one step of the activation:    *)
(* the increment just made is never paired with cell-end-call, the call's  *)
(* cleanup form is cut short, or the Box in hand is neither wrapped nor    *)
(* freed.  The outer cleanup forms still run.                              *)
(***************************************************************************)
Interrupt(a) ==
    /\ interrupts < MaxInterrupts
    /\ interrupts' = interrupts + 1
    /\ pc[a] \in {"begin", "wrap", "ending", "drop"} /\ Running(a)
    /\ pc' = [pc EXCEPT ![a] = "ending"]
    /\ held' = [held EXCEPT ![a] = IF pc[a] \in {"begin", "ending"} /\ @ > 0
                                   THEN @ - 1 ELSE @]
    /\ target' = [target EXCEPT ![a] = NoCell]
    /\ UNCHANGED <<wrapper, args, caller, imageVars, cellVars, worldVars>>

-----------------------------------------------------------------------------

ArgSeqs == UNION {[1..n -> Cells] : n \in 0..MaxArgs}

Step(a) ==
    \/ BeginCall(a) \/ RefuseCall(a) \/ CallForeign(a)
    \/ MakeHandle(a) \/ EndCall(a) \/ Leave(a) \/ MaybeForeignFree(a)

Return(a) == ForeignReturn(a) \/ \E c \in Cells : ForeignReturnHandle(a, c)

Next ==
    \/ \E k \in Crates : Reload(k) \/ RestoreCrate(k)
    \/ DumpAndStart
    \/ RestoreHook
    \/ \E a \in Acts, p \in Acts \cup {NoAct} :
          \/ \E l \in Libs, cs \in ArgSeqs : Enter(a, p, l, cs)
          \/ \E c \in Cells : CellFree(a, p, c)
    \/ \E a \in Acts : Step(a) \/ Return(a) \/ Interrupt(a)

Spec == Init /\ [][Next]_vars

\* Every thread keeps running, and a Rust function returns after finitely
\* many callbacks: each callback disables its return for a while, so this
\* needs strong fairness.
FairSpec ==
    /\ Spec
    /\ \A a \in Acts : WF_vars(Step(a)) /\ SF_vars(Return(a))

-----------------------------------------------------------------------------
(***************************************************************************)
(* Properties.                                                             *)
(***************************************************************************)

\* While Rust runs a call, every Box it was given is still allocated, was
\* allocated by the very library that runs, and lives in this process: no
\* free, reload, restore or re-entrant callback can take it away or pass a
\* pointer to the wrong library (handle.lisp, "the free-vs-in-flight-call
\* use-after-free race is structurally unreachable").
ForeignCallSafe ==
    \A a \in Acts : pc[a] = "foreign" =>
        \A i \in 1..Len(args[a]) :
            LET c == args[a][i]
            IN  /\ freeCount[c] = 0
                /\ home[c] = wrapper[a]
                /\ homeProcess[c] = process

\* No Box is given to a free shim twice, however FREE, finalizers and the
\* deferred free of cell-end-call interleave.
FreedAtMostOnce == \A c \in Cells : freeCount[c] <= 1

\* A free shim is only ever called in the process the Box lives in, and it
\* is the shim of the library that allocated it, whatever the crate's current
\* generation is by then.
FreedByItsAllocator ==
    [][\A c \in Cells : freeCount'[c] # freeCount[c] =>
            freeFn[c] = home[c] /\ homeProcess[c] = process]_vars

\* A deferred free is never orphaned: as long as a cell is free-pending its
\* in-flight counter is above zero, so that some cell-end-call is still to
\* notice it (unless an asynchronous unwind has cut that one short).
PendingHasOwner ==
    \A c \in Cells : state[c] = "free-pending" => inFlight[c] > 0

\* Once a release was accepted, the Box is really freed (unless the process
\* ended first, or an asynchronous unwind left an in-flight counter raised): no
\* interleaving of frees and ending calls leaks it.
ReleaseReachesRust ==
    \A c \in Cells :
        (state[c] \in {"free-pending", "freed"})
            ~> (freeCount[c] = 1 \/ homeProcess[c] # process \/ interrupts > 0)

-----------------------------------------------------------------------------
(***************************************************************************)
(* The abstract view: who holds a cell, and what became of its Box.        *)
(***************************************************************************)

Users == Acts \X Slots

\* The argument positions of running calls that were admitted to cell c.
Holders(c) ==
    {u \in Users : u[2] <= held[u[1]] /\ args[u[1]][u[2]] = c}

Phase(c) ==
    IF state[c] = "none" THEN "none"
    ELSE IF homeProcess[c] # process THEN "lost"
    ELSE IF freeCount[c] > 0 THEN "dropped"
    ELSE IF state[c] = "live" THEN "open"
    ELSE "closing"

Box == INSTANCE OwnedBox WITH
    Boxes <- Cells,
    phase <- [c \in Cells |-> Phase(c)],
    users <- [c \in Cells |-> Holders(c)]

\* The cell protocol keeps the promise of OwnedBox: no call is admitted once a
\* release was accepted, and the one foreign free happens after the last
\* admitted call has left, across reloads, restores and interrupts.
ImplementsOwnedBox == Box!Spec

=============================================================================
