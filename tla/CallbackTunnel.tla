--------------------------- MODULE CallbackTunnel ---------------------------
(***************************************************************************)
(* How a call's failure travels from a Rust body to the Lisp caller:       *)
(* status codes, the last-error slot, and the tunnel for Lisp conditions   *)
(* signalled in a borrowed callback.                                       *)
(*                                                                         *)
(* Everything here is thread-local (CB_TUNNEL and LAST_ERROR in Rust, the  *)
(* dynamic bindings *live-callback* and *callback-stash* in Lisp), so one  *)
(* thread is modelled: a stack of calls that are in progress, the last one *)
(* innermost.  A callback body is Lisp code that may call further exports, *)
(* of the same crate or of another, before it returns or signals.          *)
(***************************************************************************)
EXTENDS Naturals, Sequences

CONSTANTS
    Crates,      \* loaded libraries: each has its own CB_TUNNEL and LAST_ERROR
    MaxDepth,    \* bound: calls in progress at once
    MaxCalls,    \* bound: calls in a behaviour
    MaxConds     \* bound: conditions signalled by Lisp code

ASSUME BoundsAssumption ==
    MaxDepth \in Nat /\ MaxCalls \in Nat /\ MaxConds \in Nat

VARIABLES
    stack,       \* the calls in progress
    tunnel,      \* crate -> CB_TUNNEL
    lastError,   \* crate -> the call that last wrote LAST_ERROR
    calls,       \* calls begun so far; the n-th one is call n
    conds,       \* conditions created so far by Lisp code
    outcome      \* history: how the last call to finish was reported

vars == <<stack, tunnel, lastError, calls, conds, outcome>>

\* Condition objects: 0 is none, the first MaxConds are made by Lisp code, and
\* the error object the wrapper of call n makes is MaxConds + n.
Conditions == 0..(MaxConds + MaxCalls)
ErrorOf(n) == MaxConds + n

Calls == 0..MaxCalls

\* Where a call is: converting its arguments, in the Rust body, or in Lisp
\* code that the body called through its callback or a stored one.
Phases == {"prelude", "rust", "callback", "stored"}

Frames == [id : Calls, crate : Crates,
           cb : BOOLEAN,            \* does the export take a callback?
           fallible : BOOLEAN,      \* does it return a Result?
           phase : Phases,
           stash : Conditions,      \* its binding of *callback-stash*
           hand : Conditions,       \* what the last call made by its Lisp code signalled
           \* history
           signaled : Conditions,   \* the last condition its callback signalled
           disturbed : BOOLEAN]     \* has a callback-taking call into the same
                                    \* crate begun since, or since it began?

Outcomes == [call : Calls, status : 0..4,
             failed : BOOLEAN,          \* the Rust body returned Err
             signaled : Conditions, disturbed : BOOLEAN,
             resignaled : Conditions,   \* the stash, re-signalled on status 4
             reads : Calls]             \* whose error the wrapper reported

TypeOK ==
    /\ stack \in Seq(Frames)
    /\ tunnel \in [Crates -> BOOLEAN]
    /\ lastError \in [Crates -> Calls]
    /\ calls \in Calls
    /\ conds \in 0..MaxConds
    /\ outcome \in Outcomes

NoOutcome == [call |-> 0, status |-> 0, failed |-> FALSE, signaled |-> 0,
              disturbed |-> FALSE, resignaled |-> 0, reads |-> 0]

Init ==
    /\ stack = <<>>
    /\ tunnel = [k \in Crates |-> FALSE]
    /\ lastError = [k \in Crates |-> 0]
    /\ calls = 0
    /\ conds = 0
    /\ outcome = NoOutcome

Top == stack[Len(stack)]
In(p) == stack # <<>> /\ Top.phase = p

\* Lisp code is running: at top level, or in some callback.
InLisp == stack = <<>> \/ In("callback") \/ In("stored")

\* The innermost call changes to f.
SetTop(f) == stack' = [stack EXCEPT ![Len(stack)] = f]

-----------------------------------------------------------------------------
(***************************************************************************)
(* Entry: the wrapper, the shim, its argument conversions.                 *)
(***************************************************************************)

\* Mutant: the wrapper does not bind *callback-stash* afresh.
NewFrameKeepsStash(k, cb, fallible) ==
    [id |-> calls + 1, crate |-> k, cb |-> cb, fallible |-> fallible,
     phase |-> "prelude",
     stash |-> IF stack = <<>> THEN 0 ELSE Top.stash,
     hand |-> 0, signaled |-> 0, disturbed |-> FALSE]

\* The wrapper binds *live-callback* to the argument, *callback-stash* to nil.
NewFrame(k, cb, fallible) ==
    [id |-> calls + 1, crate |-> k, cb |-> cb, fallible |-> fallible,
     phase |-> "prelude", stash |-> 0, hand |-> 0, signaled |-> 0,
     disturbed |-> FALSE]

\* The calls in progress, after a callback-taking call into crate k began.
Disturb(k) ==
    [i \in 1..Len(stack) |->
        [stack[i] EXCEPT !.disturbed = @ \/ stack[i].crate = k]]

\* Mutant: the tunnel is not cleared at entry.
CallUncleared(k, cb, fallible) ==
    /\ InLisp
    /\ Len(stack) < MaxDepth
    /\ calls < MaxCalls
    /\ calls' = calls + 1
    /\ stack' = Append(IF cb THEN Disturb(k) ELSE stack,
                       NewFrame(k, cb, fallible))
    /\ UNCHANGED <<tunnel, lastError, conds, outcome>>

\* A shim that takes a callback clears its library's tunnel first.
Call(k, cb, fallible) ==
    /\ InLisp
    /\ Len(stack) < MaxDepth
    /\ calls < MaxCalls
    /\ calls' = calls + 1
    /\ tunnel' = [tunnel EXCEPT ![k] = @ /\ ~cb]
    /\ stack' = Append(IF cb THEN Disturb(k) ELSE stack,
                       NewFrame(k, cb, fallible))
    /\ UNCHANGED <<lastError, conds, outcome>>

\* All arguments convert.
PreludeDone ==
    /\ In("prelude")
    /\ SetTop([Top EXCEPT !.phase = "rust"])
    /\ UNCHANGED <<tunnel, lastError, calls, conds, outcome>>

-----------------------------------------------------------------------------
(***************************************************************************)
(* Callbacks.                                                              *)
(***************************************************************************)

\* Callback::call enters the trampoline, which runs the closure.
Invoke ==
    /\ In("rust") /\ Top.cb
    /\ SetTop([Top EXCEPT !.phase = "callback", !.hand = 0])
    /\ UNCHANGED <<tunnel, lastError, calls, conds, outcome>>

\* StoredCallback::call on the same thread.
InvokeStored ==
    /\ In("rust")
    /\ SetTop([Top EXCEPT !.phase = "stored", !.hand = 0])
    /\ UNCHANGED <<tunnel, lastError, calls, conds, outcome>>

\* The closure returns normally.
CallbackReturns ==
    /\ In("callback")
    /\ SetTop([Top EXCEPT !.phase = "rust", !.hand = 0])
    /\ UNCHANGED <<tunnel, lastError, calls, conds, outcome>>

\* A stored closure returns or signals: its conditions are warned about and
\* reported by the status alone.
StoredReturns ==
    /\ In("stored")
    /\ SetTop([Top EXCEPT !.phase = "rust", !.hand = 0])
    /\ UNCHANGED <<tunnel, lastError, calls, conds, outcome>>

\* The conditions the running Lisp code may signal: a new one, or the one that
\* reached it from a call it made.
MaySignal(c) ==
    \/ conds < MaxConds /\ c = conds + 1 /\ conds' = c
    \/ Top.hand # 0 /\ c = Top.hand /\ UNCHANGED conds

\* The closure signals c: the trampoline stashes it and answers 1, whereupon
\* Callback::call sets the tunnel.
CallbackSignals(c) ==
    /\ In("callback")
    /\ MaySignal(c)
    /\ SetTop([Top EXCEPT !.phase = "rust", !.hand = 0, !.stash = c,
                          !.signaled = c, !.disturbed = FALSE])
    /\ tunnel' = [tunnel EXCEPT ![Top.crate] = TRUE]
    /\ UNCHANGED <<lastError, calls, outcome>>

-----------------------------------------------------------------------------
(***************************************************************************)
(* Exit: the shim's status, and what the wrapper makes of it.              *)
(***************************************************************************)

\* signal-crate-status: the condition the wrapper signals (0: it returns).
Signals(status) ==
    CASE status = 0 -> 0
      [] status = 4 /\ Top.stash # 0 -> Top.stash
      [] OTHER -> ErrorOf(Top.id)

\* The shim answers status, and the wrapper returns or signals into the Lisp
\* code that called it.  lastError' is what the slot holds by then.
Leave(status, failed) ==
    /\ stack' = [i \in 1..(Len(stack) - 1) |->
                    IF i = Len(stack) - 1
                    THEN [stack[i] EXCEPT !.hand = Signals(status)]
                    ELSE stack[i]]
    /\ outcome' = [call |-> Top.id, status |-> status, failed |-> failed,
                   signaled |-> Top.signaled, disturbed |-> Top.disturbed,
                   resignaled |-> IF status = 4 THEN Top.stash ELSE 0,
                   reads |-> IF status \in 1..3 THEN lastError'[Top.crate]
                                                ELSE 0]
    /\ UNCHANGED <<tunnel, calls, conds>>

SetLastError == lastError' = [lastError EXCEPT ![Top.crate] = Top.id]

\* str_arg refuses an argument: InvalidUtf8.
Invalid ==
    /\ In("prelude")
    /\ SetLastError
    /\ Leave(3, FALSE)

\* The body returns a value.  A condition its callback signalled is dropped.
ReturnOk ==
    /\ In("rust")
    /\ UNCHANGED lastError
    /\ Leave(0, FALSE)

\* Mutant: a panic leaves no message.
PanicUnrecorded ==
    /\ In("rust")
    /\ UNCHANGED lastError
    /\ Leave(2, FALSE)

\* The body panics; the shim catches it.
Panic ==
    /\ In("rust")
    /\ SetLastError
    /\ Leave(2, FALSE)

\* The body returns Err, whether it propagates a CallbackError or has failed
\* by itself: the shim of a callback-taking export asks the tunnel.
ReturnErr ==
    /\ In("rust") /\ Top.fallible
    /\ IF Top.cb /\ tunnel[Top.crate]
       THEN UNCHANGED lastError /\ Leave(4, TRUE)
       ELSE SetLastError /\ Leave(1, TRUE)

-----------------------------------------------------------------------------

Next ==
    \/ \E k \in Crates, cb \in BOOLEAN, fallible \in BOOLEAN :
          Call(k, cb, fallible)
    \/ PreludeDone \/ Invalid
    \/ Invoke \/ InvokeStored \/ CallbackReturns \/ StoredReturns
    \/ \E c \in Conditions : CallbackSignals(c)
    \/ ReturnOk \/ Panic \/ ReturnErr

Spec == Init /\ [][Next]_vars

-----------------------------------------------------------------------------
(***************************************************************************)
(* Properties.                                                             *)
(***************************************************************************)

\* What a wrapper re-signals is the last condition that a callback of that
\* very call signalled, never one of an outer, an inner or an earlier call
\* (*callback-stash*: "the binding's scope ending is the clear-on-every-other-
\* status discipline").
ResignalsItsOwn ==
    outcome.resignaled # 0 => outcome.resignaled = outcome.signaled

\* The error text a wrapper reports with status 1, 2 or 3 was written by the
\* call it reports, although the slot is shared by all calls into the library.
ReportsItsOwn ==
    outcome.status \in 1..3 => outcome.reads = outcome.call

\* The classification BOUNDARY.md promises for a failing body: if a callback
\* signalled during the call, that condition is re-signalled, and otherwise
\* the body's own error is reported.
Classified ==
    IF outcome.signaled # 0
    THEN outcome.status = 4 /\ outcome.resignaled = outcome.signaled
    ELSE outcome.status = 1 /\ outcome.reads = outcome.call

\* The promise is kept for every call during which no callback body made a
\* callback-taking call into the same crate after the last condition (or at
\* all, if there was none): calls into other crates, exports without a
\* callback, stored callbacks and panics in between do not matter.
UndisturbedClassification ==
    outcome.failed /\ ~outcome.disturbed => Classified

\* BOUNDARY.md as it is written, for every failing body: status 4 means "a Lisp
\* callback signaled; condition stashed CL-side", and "if Rust swallows it and
\* then fails with its own error while a callback had signaled during the same
\* shim call, the call is conservatively classified as status 4 and the stashed
\* condition is re-signaled".
DocumentedClassification == outcome.failed => Classified

=============================================================================
