------------------------------ MODULE FetchTask ------------------------------
(***************************************************************************)
(* One client of the HTTP example: its requests from admission to the      *)
(* terminal state, the asynchronous task behind each of them, the Lisp     *)
(* loop that drains the body, cancellation, and the client's shutdown      *)
(* (examples/fetch/src/lib.rs and the REQUEST function of http.lisp).      *)
(*                                                                         *)
(* A request has two processes.  Its Lisp thread (lpc) runs REQUEST: start *)
(* the request, read until done, look for a terminal error, free.  Its     *)
(* task (tpc) runs run_request under select! with the cancellation token   *)
(* and ends in TaskGuard::drop, whose four effects are four steps.  A task *)
(* can be dropped only where it awaits.  A body is a number of bytes, and  *)
(* a chunk the pair of its first and last byte.                            *)
(*                                                                         *)
(* Every wait of a Lisp thread is capped, so a read looks at the state     *)
(* once, at some moment: the sleep before it is not a state of its own.    *)
(***************************************************************************)
EXTENDS Naturals, Sequences, FiniteSets

CONSTANTS
    Reqs,          \* requests that may be made of the client
    MaxInFlight,   \* admission permits
    QueueChunks,   \* buffered chunks per request
    MaxBody,       \* max_body_bytes of every request; 0 is unlimited
    MaxRead,       \* max_bytes of one read
    ChunkSizes,    \* sizes of the pieces in which a body may arrive
    ReadyCap,      \* READY_CAP
    MaxBytes       \* bound: bytes of one response

ASSUME ReqsAssumption == IsFiniteSet(Reqs)
ASSUME SizesAssumption ==
    /\ MaxInFlight \in Nat \ {0}
    /\ QueueChunks \in Nat \ {0}
    /\ MaxBody \in Nat
    /\ MaxRead \in Nat \ {0}
    /\ ChunkSizes \subseteq Nat \ {0}
    /\ ReadyCap \in Nat \ {0}
    /\ MaxBytes \in Nat

VARIABLES
    \* ClientInner
    down, cancelAll, rtUp,
    admission,     \* free admission permits
    inFlight,      \* in_flight
    ready,         \* ids in the ready queue
    \* Shared and its State, per request
    settled, err, headDone, chunks, buffered, eof, received,
    cancelReq,     \* the request's own token was cancelled
    slots,         \* free permits of chunk_permits
    \* the task
    tpc,
    inHand,        \* the chunk it has received and not yet put away
    failure,       \* the error run_request returns
    sawCancel,     \* is_cancelled, as TaskGuard::drop read it
    written,       \* bytes written to the sink
    \* the Lisp thread
    lpc, sink,
    got,           \* bytes it has read
    result         \* how REQUEST ended

clientVars == <<down, cancelAll, rtUp, admission, inFlight, ready>>
sharedVars == <<settled, err, headDone, chunks, buffered, eof, received,
                cancelReq, slots>>
taskVars == <<tpc, inHand, failure, sawCancel, written>>
lispVars == <<lpc, sink, got, result>>
vars == <<clientVars, sharedVars, taskVars, lispVars>>

Errors == {"none", "failed", "too-large", "stalled", "cancelled"}

\* Where a task can be dropped, and where TaskGuard::drop is still to return
\* the permit, to leave in_flight, to announce the id, to settle.
Awaits == {"head", "create", "stream", "slot", "write", "flush"}
TaskPoints == {"none", "push", "eof", "fail", "permit", "leave", "announce",
               "settle", "done"} \cup Awaits
LispPoints == {"idle", "admit", "spawn", "read", "giveback", "test", "verify",
               "free", "returned"}
Bytes == 0..MaxBytes
Chunks == Bytes \X Bytes
NoChunk == <<0, 0>>

TypeOK ==
    /\ down \in BOOLEAN /\ cancelAll \in BOOLEAN /\ rtUp \in BOOLEAN
    /\ admission \in Nat /\ inFlight \in Nat
    /\ ready \in Seq(Reqs)
    /\ settled \in [Reqs -> BOOLEAN]
    /\ err \in [Reqs -> Errors]
    /\ headDone \in [Reqs -> BOOLEAN]
    /\ chunks \in [Reqs -> Seq(Chunks)]
    /\ buffered \in [Reqs -> Nat]
    /\ eof \in [Reqs -> BOOLEAN]
    /\ received \in [Reqs -> Bytes]
    /\ cancelReq \in [Reqs -> BOOLEAN]
    /\ slots \in [Reqs -> Nat]
    /\ tpc \in [Reqs -> TaskPoints]
    /\ inHand \in [Reqs -> Chunks]
    /\ failure \in [Reqs -> Errors]
    /\ sawCancel \in [Reqs -> BOOLEAN]
    /\ written \in [Reqs -> Bytes]
    /\ lpc \in [Reqs -> LispPoints]
    /\ sink \in [Reqs -> BOOLEAN]
    /\ got \in [Reqs -> Bytes]
    /\ result \in [Reqs -> {"none", "value", "error"}]

Init ==
    /\ down = FALSE /\ cancelAll = FALSE /\ rtUp = TRUE
    /\ admission = MaxInFlight /\ inFlight = 0
    /\ ready = <<>>
    /\ settled = [r \in Reqs |-> FALSE]
    /\ err = [r \in Reqs |-> "none"]
    /\ headDone = [r \in Reqs |-> FALSE]
    /\ chunks = [r \in Reqs |-> <<>>]
    /\ buffered = [r \in Reqs |-> 0]
    /\ eof = [r \in Reqs |-> FALSE]
    /\ received = [r \in Reqs |-> 0]
    /\ cancelReq = [r \in Reqs |-> FALSE]
    /\ slots = [r \in Reqs |-> QueueChunks]
    /\ tpc = [r \in Reqs |-> "none"]
    /\ inHand = [r \in Reqs |-> NoChunk]
    /\ failure = [r \in Reqs |-> "none"]
    /\ sawCancel = [r \in Reqs |-> FALSE]
    /\ written = [r \in Reqs |-> 0]
    /\ lpc = [r \in Reqs |-> "idle"]
    /\ sink = [r \in Reqs |-> FALSE]
    /\ got = [r \in Reqs |-> 0]
    /\ result = [r \in Reqs |-> "none"]

Size(c) == c[2] - c[1] + 1

Task(r, p) == tpc' = [tpc EXCEPT ![r] = p]
Lisp(r, p) == lpc' = [lpc EXCEPT ![r] = p]

OnlyTpc == UNCHANGED <<inHand, failure, sawCancel, written, clientVars,
                       sharedVars, lispVars>>

\* A request's token is a child of the client's: also when it is made late.
Cancelled(r) == cancelReq[r] \/ cancelAll

-----------------------------------------------------------------------------
(***************************************************************************)
(* Req::start, on the Lisp thread.                                         *)
(***************************************************************************)

\* REQUEST signals: MAKE-REQ has failed and there is no handle to free.
Refused(r) ==
    /\ Lisp(r, "returned")
    /\ result' = [result EXCEPT ![r] = "error"]

\* check_up and the parsing of the arguments, which may fail.
Start(r, toFile) ==
    /\ lpc[r] = "idle"
    /\ \/ /\ ~down
          /\ Lisp(r, "admit") /\ UNCHANGED result
       \/ Refused(r)
    /\ sink' = [sink EXCEPT ![r] = toFile]
    /\ UNCHANGED <<clientVars, sharedVars, taskVars, got>>

\* Admission control: a permit, forgotten, or "busy".
Admit(r) ==
    /\ lpc[r] = "admit"
    /\ IF admission > 0
       THEN /\ admission' = admission - 1
            /\ Lisp(r, "spawn") /\ UNCHANGED result
       ELSE Refused(r) /\ UNCHANGED admission
    /\ UNCHANGED <<down, cancelAll, rtUp, inFlight, ready, sharedVars, taskVars,
                   sink, got>>

\* Under the lock of rt: the task and its guard exist from here on.  Without a
\* runtime the call fails, and the permit is not returned.
Spawn(r) ==
    /\ lpc[r] = "spawn"
    /\ IF rtUp
       THEN /\ inFlight' = inFlight + 1
            /\ Task(r, "head")
            /\ Lisp(r, IF sink[r] THEN "test" ELSE "read")
            /\ UNCHANGED result
       ELSE Refused(r) /\ UNCHANGED <<inFlight, tpc>>
    /\ UNCHANGED <<down, cancelAll, rtUp, admission, ready, sharedVars, inHand,
                   failure, sawCancel, written, sink, got>>

-----------------------------------------------------------------------------
(***************************************************************************)
(* run_request.                                                            *)
(***************************************************************************)

\* The response head has arrived.
ResponseHead(r) ==
    /\ tpc[r] = "head"
    /\ headDone' = [headDone EXCEPT ![r] = TRUE]
    /\ Task(r, IF sink[r] THEN "create" ELSE "stream")
    /\ UNCHANGED <<settled, err, chunks, buffered, eof, received, cancelReq,
                   slots, inHand, failure, sawCancel, written, clientVars,
                   lispVars>>

\* The sink is open.
Create(r) ==
    /\ tpc[r] = "create"
    /\ Task(r, "stream")
    /\ OnlyTpc

\* run_request returns Err(e).
Fail(r, e) ==
    /\ failure' = [failure EXCEPT ![r] = e]
    /\ Task(r, "fail")

TooLarge(total) == MaxBody > 0 /\ total > MaxBody

\* n bytes arrive.  They are counted before they are judged.
Receive(r, n) ==
    LET total == received[r] + n
    IN  /\ tpc[r] = "stream"
        /\ total <= MaxBytes
        /\ received' = [received EXCEPT ![r] = total]
        /\ inHand' = [inHand EXCEPT ![r] = <<received[r] + 1, total>>]
        /\ IF TooLarge(total)
           THEN Fail(r, "too-large")
           ELSE Task(r, IF sink[r] THEN "write" ELSE "slot") /\ UNCHANGED failure
        /\ UNCHANGED <<settled, err, headDone, chunks, buffered, eof, cancelReq,
                       slots, sawCancel, written, clientVars, lispVars>>

\* The chunk goes to the file.
Write(r) ==
    /\ tpc[r] = "write"
    /\ written' = [written EXCEPT ![r] = inHand[r][2]]
    /\ Task(r, "stream")
    /\ UNCHANGED <<inHand, failure, sawCancel, clientVars, sharedVars, lispVars>>

SlotFree(r) == slots[r] > 0

\* Backpressure: a free slot is taken for the chunk,
AcquireSlot(r) ==
    /\ tpc[r] = "slot"
    /\ SlotFree(r)
    /\ slots' = [slots EXCEPT ![r] = @ - 1]
    /\ Task(r, "push")
    /\ UNCHANGED <<settled, err, headDone, chunks, buffered, eof, received,
                   cancelReq, inHand, failure, sawCancel, written, clientVars,
                   lispVars>>

\* or none comes free in time.
Stall(r) ==
    /\ tpc[r] = "slot"
    /\ ~SlotFree(r)
    /\ Fail(r, "stalled")
    /\ UNCHANGED <<inHand, sawCancel, written, clientVars, sharedVars, lispVars>>

\* The chunk is queued.
Push(r) ==
    /\ tpc[r] = "push"
    /\ buffered' = [buffered EXCEPT ![r] = @ + Size(inHand[r])]
    /\ chunks' = [chunks EXCEPT ![r] = Append(@, inHand[r])]
    /\ Task(r, "stream")
    /\ UNCHANGED <<settled, err, headDone, eof, received, cancelReq, slots,
                   inHand, failure, sawCancel, written, clientVars, lispVars>>

\* The body is complete.
StreamEnds(r) ==
    /\ tpc[r] = "stream"
    /\ Task(r, IF sink[r] THEN "flush" ELSE "eof")
    /\ OnlyTpc

Flush(r) ==
    /\ tpc[r] = "flush"
    /\ Task(r, "eof")
    /\ OnlyTpc

\* run_request returns Ok.
Eof(r) ==
    /\ tpc[r] = "eof"
    /\ eof' = [eof EXCEPT ![r] = TRUE]
    /\ Task(r, "permit")
    /\ UNCHANGED <<settled, err, headDone, chunks, buffered, received, cancelReq,
                   slots, inHand, failure, sawCancel, written, clientVars,
                   lispVars>>

\* The transport, the request's timeout or the file fails.
IoFails(r) ==
    /\ tpc[r] \in Awaits \ {"slot"}
    /\ Fail(r, "failed")
    /\ UNCHANGED <<inHand, sawCancel, written, clientVars, sharedVars, lispVars>>

-----------------------------------------------------------------------------
(***************************************************************************)
(* The end of a task: settle and TaskGuard::drop.                          *)
(***************************************************************************)

\* Mutant: the last terminal state stands.
SettleOverwrites(r, e) ==
    /\ settled' = [settled EXCEPT ![r] = TRUE]
    /\ err' = [err EXCEPT ![r] = e]
    /\ UNCHANGED <<headDone, chunks, buffered, eof, received, cancelReq, slots>>

\* Shared::settle: the first terminal state stands.
Settle(r, e) ==
    /\ settled' = [settled EXCEPT ![r] = TRUE]
    /\ err' = [err EXCEPT ![r] = IF settled[r] \/ @ # "none" THEN @ ELSE e]
    /\ UNCHANGED <<headDone, chunks, buffered, eof, received, cancelReq, slots>>

\* The task publishes the error of run_request before its guard is dropped.
SettleError(r) ==
    /\ tpc[r] = "fail"
    /\ Settle(r, failure[r])
    /\ Task(r, "permit")
    /\ UNCHANGED <<inHand, failure, sawCancel, written, clientVars, lispVars>>

\* Mutant: a cancelled task ends without its guard.
SeeCancelBare(r) ==
    /\ tpc[r] \in Awaits
    /\ Cancelled(r)
    /\ Task(r, "done")
    /\ OnlyTpc

\* Mutant: the token is not watched before the response head is there.
SeeCancelLate(r) ==
    /\ tpc[r] \in Awaits \ {"head"}
    /\ Cancelled(r)
    /\ Task(r, "permit")
    /\ OnlyTpc

\* select! sees the token at the next poll, which may be late.
SeeCancel(r) ==
    /\ tpc[r] \in Awaits
    /\ Cancelled(r)
    /\ Task(r, "permit")
    /\ OnlyTpc

\* A runtime that shuts down drops the futures of its tasks.
RuntimeDrops(r) ==
    /\ tpc[r] \in Awaits
    /\ ~rtUp
    /\ Task(r, "permit")
    /\ OnlyTpc

\* TaskGuard::drop: the admission permit,
ReturnPermit(r) ==
    /\ tpc[r] = "permit"
    /\ sawCancel' = [sawCancel EXCEPT ![r] = Cancelled(r)]
    /\ admission' = admission + 1
    /\ Task(r, "leave")
    /\ UNCHANGED <<down, cancelAll, rtUp, inFlight, ready, sharedVars, inHand,
                   failure, written, lispVars>>

\* the in-flight count,
LeaveFlight(r) ==
    /\ tpc[r] = "leave"
    /\ inFlight' = inFlight - 1
    /\ Task(r, "announce")
    /\ UNCHANGED <<down, cancelAll, rtUp, admission, ready, sharedVars, inHand,
                   failure, sawCancel, written, lispVars>>

\* the ready queue, which drops its oldest id when it is full,
Announce(r) ==
    /\ tpc[r] = "announce"
    /\ ready' = Append(IF Len(ready) >= ReadyCap THEN Tail(ready) ELSE ready, r)
    /\ Task(r, "settle")
    /\ UNCHANGED <<down, cancelAll, rtUp, admission, inFlight, sharedVars, inHand,
                   failure, sawCancel, written, lispVars>>

\* Mutant: only a task that was not cancelled settles.
SettleGuardCompleted(r) ==
    /\ tpc[r] = "settle"
    /\ IF sawCancel[r] THEN UNCHANGED sharedVars ELSE Settle(r, "none")
    /\ Task(r, "done")
    /\ UNCHANGED <<inHand, failure, sawCancel, written, clientVars, lispVars>>

\* and the terminal state.
SettleGuard(r) ==
    /\ tpc[r] = "settle"
    /\ Settle(r, IF sawCancel[r] THEN "cancelled" ELSE "none")
    /\ Task(r, "done")
    /\ UNCHANGED <<inHand, failure, sawCancel, written, clientVars, lispVars>>

-----------------------------------------------------------------------------
(***************************************************************************)
(* REQUEST, after MAKE-REQ.                                                *)
(***************************************************************************)

\* REQUEST signals e or an error of its own; the handle is freed on the way.
Signal(r) ==
    /\ Lisp(r, "free")
    /\ result' = [result EXCEPT ![r] = "error"]

\* The last byte a read takes of chunk c.
LastTaken(c) == IF Size(c) > MaxRead THEN c[1] + MaxRead - 1 ELSE c[2]

\* Mutant: the rest of a split chunk goes to the end of the queue.
UnreadLast(q, last) ==
    Tail(q) \o (IF Head(q)[2] > last THEN <<<<last + 1, Head(q)[2]>>>> ELSE <<>>)

\* The queue after a read: the rest of a split chunk stays in front.
Unread(q, last) ==
    (IF Head(q)[2] > last THEN <<<<last + 1, Head(q)[2]>>>> ELSE <<>>) \o Tail(q)

\* Mutant: a split chunk gives its slot back, too.
GivesBackAlways(c) == TRUE

\* Does the read free the chunk's slot?
GivesBack(c) == Size(c) <= MaxRead

\* read takes the first chunk, or as much of it as was asked for.
ReadChunk(r) ==
    LET c == Head(chunks[r])
        last == LastTaken(c)
    IN  /\ lpc[r] = "read"
        /\ chunks[r] # <<>>
        /\ chunks' = [chunks EXCEPT ![r] = Unread(@, last)]
        /\ buffered' = [buffered EXCEPT ![r] = @ - Size(<<c[1], last>>)]
        /\ got' = [got EXCEPT ![r] = last]
        /\ Lisp(r, IF GivesBack(c) THEN "giveback" ELSE "read")
        /\ UNCHANGED <<settled, err, headDone, eof, received, cancelReq, slots,
                       sink, result, clientVars, taskVars>>

\* After the unlock, the slot of a chunk that was taken whole is returned.
GiveBack(r) ==
    /\ lpc[r] = "giveback"
    /\ slots' = [slots EXCEPT ![r] = @ + 1]
    /\ Lisp(r, "read")
    /\ UNCHANGED <<settled, err, headDone, chunks, buffered, eof, received,
                   cancelReq, sink, got, result, clientVars, taskVars>>

\* read finds nothing: NIL, or the terminal error.
ReadNothing(r) ==
    /\ lpc[r] = "read"
    /\ chunks[r] = <<>>
    /\ IF settled[r] /\ err[r] # "none"
       THEN Signal(r)
       ELSE Lisp(r, "test") /\ UNCHANGED result
    /\ UNCHANGED <<sink, got, clientVars, sharedVars, taskVars>>

\* done(): settled and drained.
Done(r) == settled[r] /\ chunks[r] = <<>>

\* The test of both drain loops.
TestDone(r) ==
    /\ lpc[r] = "test"
    /\ Lisp(r, IF Done(r) THEN "verify" ELSE "read")
    /\ UNCHANGED <<sink, got, result, clientVars, sharedVars, taskVars>>

\* %signal-if-failed, and the test of the HTTP status.
Verify(r) ==
    /\ lpc[r] = "verify"
    /\ \/ /\ err[r] = "none"
          /\ Lisp(r, "free")
          /\ result' = [result EXCEPT ![r] = "value"]
       \/ Signal(r)
    /\ UNCHANGED <<sink, got, clientVars, sharedVars, taskVars>>

\* FREE of the request, on every way out: Req::drop cancels.
FreeReq(r) ==
    /\ lpc[r] = "free"
    /\ cancelReq' = [cancelReq EXCEPT ![r] = TRUE]
    /\ Lisp(r, "returned")
    /\ UNCHANGED <<settled, err, headDone, chunks, buffered, eof, received, slots,
                   sink, got, result, clientVars, taskVars>>

\* The Lisp code around a read unwinds, or the handle is abandoned.
Unwind(r) ==
    /\ lpc[r] \in {"read", "test", "verify"}
    /\ Signal(r)
    /\ UNCHANGED <<sink, got, clientVars, sharedVars, taskVars>>

-----------------------------------------------------------------------------
(***************************************************************************)
(* Other threads.                                                          *)
(***************************************************************************)

\* Req::cancel.
Cancel(r) ==
    /\ lpc[r] \in {"read", "giveback", "test", "verify"}
    /\ cancelReq' = [cancelReq EXCEPT ![r] = TRUE]
    /\ UNCHANGED <<settled, err, headDone, chunks, buffered, eof, received, slots,
                   clientVars, taskVars, lispVars>>

\* next_ready, when it does not answer NIL.
NextReady ==
    /\ ready # <<>>
    /\ ready' = Tail(ready)
    /\ UNCHANGED <<down, cancelAll, rtUp, admission, inFlight, sharedVars,
                   taskVars, lispVars>>

\* Client::shutdown, shutdown_all and the drop of the client do the same three
\* things; a second one of them finds them done.
ShutDown ==
    /\ ~down
    /\ down' = TRUE
    /\ UNCHANGED <<cancelAll, rtUp, admission, inFlight, ready, sharedVars,
                   taskVars, lispVars>>

CancelEverything ==
    /\ down /\ ~cancelAll
    /\ cancelAll' = TRUE
    /\ UNCHANGED <<down, rtUp, admission, inFlight, ready, sharedVars, taskVars,
                   lispVars>>

\* Mutant: the runtime is stopped without cancelling first.
TakeRuntimeFirst ==
    /\ down /\ rtUp
    /\ rtUp' = FALSE
    /\ UNCHANGED <<down, cancelAll, admission, inFlight, ready, sharedVars,
                   taskVars, lispVars>>

TakeRuntime ==
    /\ cancelAll /\ rtUp
    /\ rtUp' = FALSE
    /\ UNCHANGED <<down, cancelAll, admission, inFlight, ready, sharedVars,
                   taskVars, lispVars>>

-----------------------------------------------------------------------------

\* What the server, the file system and the request's timeout decide.
WorldStep(r) ==
    \/ ResponseHead(r) \/ StreamEnds(r) \/ IoFails(r)
    \/ \E n \in ChunkSizes : Receive(r, n)

\* What the runtime executes by itself.
TaskStep(r) ==
    \/ Create(r) \/ Write(r) \/ AcquireSlot(r) \/ Stall(r) \/ Push(r) \/ Flush(r)
    \/ Eof(r) \/ SettleError(r) \/ SeeCancel(r) \/ RuntimeDrops(r)
    \/ ReturnPermit(r) \/ LeaveFlight(r) \/ Announce(r) \/ SettleGuard(r)

LispStep(r) ==
    \/ Admit(r) \/ Spawn(r)
    \/ ReadChunk(r) \/ GiveBack(r) \/ ReadNothing(r) \/ TestDone(r)
    \/ Verify(r) \/ FreeReq(r)

CloserStep == CancelEverything \/ TakeRuntime

Next ==
    \/ \E r \in Reqs :
          \/ \E toFile \in BOOLEAN : Start(r, toFile)
          \/ WorldStep(r) \/ TaskStep(r) \/ LispStep(r)
          \/ Unwind(r) \/ Cancel(r)
    \/ NextReady \/ ShutDown \/ CloserStep

Spec == Init /\ [][Next]_vars

\* Threads run, the runtime polls its tasks, file operations complete and the
\* stall timer fires.  Nothing is assumed of the server.
FairSpec ==
    /\ Spec
    /\ \A r \in Reqs : WF_vars(TaskStep(r)) /\ WF_vars(LispStep(r))
    /\ WF_vars(CloserStep)

-----------------------------------------------------------------------------
(***************************************************************************)
(* Properties.                                                             *)
(***************************************************************************)

Last(s) == s[Len(s)]

\* The bytes of a request that wait in its queue, given what was read before:
\* contiguous chunks, up to the last byte that was put into the queue.
InOrder(q, before, after) ==
    IF q = <<>>
    THEN before = after
    ELSE /\ q[1][1] = before + 1
         /\ Last(q)[2] = after
         /\ \A i \in 1..(Len(q) - 1) : q[i + 1][1] = q[i][2] + 1
         /\ \A i \in 1..Len(q) : q[i][1] <= q[i][2]

\* The last byte that has left the task's hands.
PutAway(r) ==
    IF tpc[r] \in {"slot", "push", "write"} THEN inHand[r][1] - 1 ELSE received[r]

\* While a request succeeds or is still running, every byte the server sent is
\* in the reader's hands, in the queue or in the task's hands, in order and
\* once, although the reader splits chunks, gives slots back after its unlock
\* and races the task.
BytesInOrder ==
    \A r \in Reqs :
        /\ ~sink[r] /\ tpc[r] \in {"stream", "slot", "push", "eof"} =>
                InOrder(chunks[r], got[r], PutAway(r))
        /\ ~sink[r] /\ eof[r] => InOrder(chunks[r], got[r], received[r])

\* Every slot is free, occupied by a chunk or in the hands of one side, and
\* BUFFERED is the number of bytes in the queue: neither the semaphore nor the
\* counter drifts, so that the task is never wrongly stalled and never overruns
\* the queue.
SlotsAccountedFor ==
    \A r \in Reqs :
        /\ slots[r] + Len(chunks[r])
             + (IF tpc[r] = "push" THEN 1 ELSE 0)
             + (IF lpc[r] = "giveback" THEN 1 ELSE 0) = QueueChunks
        /\ buffered[r] = IF chunks[r] = <<>> THEN 0
                         ELSE Last(chunks[r])[2] - chunks[r][1][1] + 1

HoldsPermit(r) ==
    lpc[r] = "spawn" \/ tpc[r] \notin {"none", "leave", "announce", "settle", "done"}
Counted(r) == tpc[r] \notin {"none", "announce", "settle", "done"}

\* No path through start, completion, failure, cancellation, free or shutdown
\* loses or doubles a unit of capacity, as long as the client has a runtime (a
\* start that loses the race with shutdown keeps its permit for good).
CapacityAccountedFor ==
    LET held == Cardinality({r \in Reqs : HoldsPermit(r)})
    IN  /\ inFlight = Cardinality({r \in Reqs : Counted(r)})
        /\ admission + held <= MaxInFlight
        /\ rtUp => admission + held = MaxInFlight

\* Nothing passes for success but success.  A request that settles without an
\* error, whatever was cancelled, shut down or dropped meanwhile, has seen the
\* end of its body; and when REQUEST returns a value, the head has arrived and
\* the value is the whole body, in memory or in the file, within
\* MAX-BODY-BYTES ("without this a failed download reports success").
SuccessMeansComplete ==
    \A r \in Reqs :
        /\ settled[r] /\ err[r] = "none" => eof[r]
        /\ result[r] = "value" =>
              /\ eof[r] /\ headDone[r]
              /\ IF sink[r] THEN written[r] = received[r] ELSE got[r] = received[r]
              /\ MaxBody > 0 => received[r] <= MaxBody

\* "Nothing more will ever come out: settled AND drained": once a request is
\* done it stays done, nothing is read any more, and its error is final.
DoneIsFinal ==
    [][\A r \in Reqs : Done(r) => /\ Done(r)'
                                  /\ got'[r] = got[r]
                                  /\ err'[r] = err[r]]_vars

\* The comment in TaskGuard::drop: "by the time a Lisp thread can observe
\* settled/done, the capacity it implies must already exist".
SettledMeansCapacity ==
    \A r \in Reqs : settled[r] => ~HoldsPermit(r) /\ ~Counted(r)

\* Once a request is cancelled, freed or its client shut down, its task ends,
\* whatever the server does: its permit comes back and it is settled.
CancelEndsTask ==
    \A r \in Reqs : Cancelled(r) /\ tpc[r] # "none" ~> tpc[r] = "done"

\* Once a request is cancelled or settled, the Lisp loop that drains it ends,
\* by a value or an error: "without that, (loop ... while (not (req-done r)))
\* can livelock".
TerminalReleasesReader ==
    \A r \in Reqs :
        (Cancelled(r) \/ settled[r]) /\ lpc[r] # "idle" ~> lpc[r] = "returned"

=============================================================================
