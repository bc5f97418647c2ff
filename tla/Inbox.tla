------------------------------- MODULE Inbox --------------------------------
(***************************************************************************)
(* rulisp::Inbox (crates/rulisp/src/inbox.rs): a bounded queue that Rust   *)
(* producers fill and Lisp empties, closed by either side.                 *)
(*                                                                         *)
(* Each action is one critical section of the mutex, or one notification   *)
(* outside it: a push or a pop unlocks first and notifies afterwards, and  *)
(* close makes its two notify_all calls one after the other.  A thread at  *)
(* "send" or "recv" is about to take the lock and run the body of the loop *)
(* once, for the first time or after a wait; a wait ends by a notification, *)
(* by its deadline, or spuriously, as the standard library allows.         *)
(***************************************************************************)
EXTENDS Naturals, Sequences, FiniteSets

CONSTANTS
    Senders,     \* producer threads
    Receivers,   \* Lisp threads that pull
    Requested,   \* the capacity Inbox::new was asked for
    MaxSends     \* bound: sends in a behaviour

Threads == Senders \cup Receivers

ASSUME ThreadsAssumption ==
    IsFiniteSet(Threads) /\ Senders \cap Receivers = {}
ASSUME RequestedAssumption == Requested \in Nat
ASSUME MaxSendsAssumption == MaxSends \in Nat

\* Inbox::new: at least one.
Capacity == IF Requested = 0 THEN 1 ELSE Requested

VARIABLES
    queue,       \* State.queue
    closed,      \* State.closed
    pc,          \* thread -> where it is
    op,          \* thread -> the arguments of its send or recv
    \* history
    started,     \* sends begun so far; the n-th one sends the value n
    accepted,    \* values pushed, in order
    taken,       \* values popped, in order
    refused,     \* values handed back with Full or Closed
    sawClosed    \* some recv has answered Err(Closed)

vars == <<queue, closed, pc, op, started, accepted, taken, refused, sawClosed>>

\* try_send, and send_timeout with or without a deadline that can be computed.
SendKinds == {"try", "timed", "forever"}
Ops == [kind : SendKinds \cup {"recv", "none"},
        val : 0..MaxSends,          \* the value being sent
        expired : BOOLEAN]          \* has the deadline passed?
NoOp == [kind |-> "none", val |-> 0, expired |-> FALSE]
Points == {"idle", "send", "sleepFull", "notifyEmpty",
           "recv", "sleepEmpty", "notifyFull", "closeEmpty", "closeFull"}

TypeOK ==
    /\ queue \in Seq(1..MaxSends)
    /\ closed \in BOOLEAN
    /\ pc \in [Threads -> Points]
    /\ op \in [Threads -> Ops]
    /\ started \in 0..MaxSends
    /\ accepted \in Seq(1..MaxSends)
    /\ taken \in Seq(1..MaxSends)
    /\ refused \in SUBSET (1..MaxSends)
    /\ sawClosed \in BOOLEAN

Init ==
    /\ queue = <<>>
    /\ closed = FALSE
    /\ pc = [t \in Threads |-> "idle"]
    /\ op = [t \in Threads |-> NoOp]
    /\ started = 0
    /\ accepted = <<>>
    /\ taken = <<>>
    /\ refused = {}
    /\ sawClosed = FALSE

Goto(t, p) == pc' = [pc EXCEPT ![t] = p]

\* The arguments of thread t's operation are used up.
Finish(t) == op' = [op EXCEPT ![t] = NoOp]

OnlyPc == UNCHANGED <<queue, closed, op, started, accepted, taken, refused,
                      sawClosed>>

-----------------------------------------------------------------------------
(***************************************************************************)
(* try_send and send_timeout.                                              *)
(***************************************************************************)

StartSend(s, k) ==
    /\ pc[s] = "idle"
    /\ started < MaxSends
    /\ started' = started + 1
    /\ op' = [op EXCEPT ![s] = [kind |-> k, val |-> started + 1,
                                expired |-> FALSE]]
    /\ Goto(s, "send")
    /\ UNCHANGED <<queue, closed, accepted, taken, refused, sawClosed>>

HasRoom == Len(queue) < Capacity

\* The deadline test of send_timeout; try_send never waits.
GivesUp(s) ==
    op[s].kind = "try" \/ (op[s].kind = "timed" /\ op[s].expired)

\* closed is tested first, on every turn of the loop.
SendClosed(s) ==
    /\ pc[s] = "send"
    /\ closed
    /\ refused' = refused \cup {op[s].val}
    /\ Finish(s) /\ Goto(s, "idle")
    /\ UNCHANGED <<queue, closed, started, accepted, taken, sawClosed>>

\* Room: push, unlock; the notification is still to come.
SendPush(s) ==
    /\ pc[s] = "send"
    /\ ~closed
    /\ HasRoom
    /\ queue' = Append(queue, op[s].val)
    /\ accepted' = Append(accepted, op[s].val)
    /\ Finish(s) /\ Goto(s, "notifyEmpty")
    /\ UNCHANGED <<closed, started, taken, refused, sawClosed>>

\* Mutant: the refused value is dropped instead of handed back.
SendFullDrops(s) ==
    /\ pc[s] = "send"
    /\ ~closed
    /\ ~HasRoom
    /\ GivesUp(s)
    /\ Finish(s) /\ Goto(s, "idle")
    /\ UNCHANGED <<queue, closed, started, accepted, taken, refused, sawClosed>>

\* No room, and no (more) waiting: the value is handed back.
SendFull(s) ==
    /\ pc[s] = "send"
    /\ ~closed
    /\ ~HasRoom
    /\ GivesUp(s)
    /\ refused' = refused \cup {op[s].val}
    /\ Finish(s) /\ Goto(s, "idle")
    /\ UNCHANGED <<queue, closed, started, accepted, taken, sawClosed>>

\* No room: wait on not_full, releasing the lock.
SendSleep(s) ==
    /\ pc[s] = "send"
    /\ ~closed
    /\ ~HasRoom
    /\ ~GivesUp(s)
    /\ Goto(s, "sleepFull")
    /\ OnlyPc

-----------------------------------------------------------------------------
(***************************************************************************)
(* recv.                                                                   *)
(***************************************************************************)

StartRecv(r) ==
    /\ pc[r] = "idle"
    /\ op' = [op EXCEPT ![r] = [kind |-> "recv", val |-> 0, expired |-> FALSE]]
    /\ Goto(r, "recv")
    /\ UNCHANGED <<queue, closed, started, accepted, taken, refused, sawClosed>>

\* Mutant: the newest value is taken first.
RecvPopLast(r) ==
    /\ pc[r] = "recv"
    /\ queue # <<>>
    /\ queue' = SubSeq(queue, 1, Len(queue) - 1)
    /\ taken' = Append(taken, queue[Len(queue)])
    /\ Finish(r) /\ Goto(r, "notifyFull")
    /\ UNCHANGED <<closed, started, accepted, refused, sawClosed>>

\* A value is taken whether or not the inbox is closed or the deadline passed.
RecvPop(r) ==
    /\ pc[r] = "recv"
    /\ queue # <<>>
    /\ queue' = Tail(queue)
    /\ taken' = Append(taken, Head(queue))
    /\ Finish(r) /\ Goto(r, "notifyFull")
    /\ UNCHANGED <<closed, started, accepted, refused, sawClosed>>

\* Mutant: the closed flag is tested before the queue.
RecvClosedFirst(r) ==
    /\ pc[r] = "recv"
    /\ closed
    /\ sawClosed' = TRUE
    /\ Finish(r) /\ Goto(r, "idle")
    /\ UNCHANGED <<queue, closed, started, accepted, taken, refused>>

\* Err(Closed).
RecvClosed(r) ==
    /\ pc[r] = "recv"
    /\ queue = <<>>
    /\ closed
    /\ sawClosed' = TRUE
    /\ Finish(r) /\ Goto(r, "idle")
    /\ UNCHANGED <<queue, closed, started, accepted, taken, refused>>

\* Ok(None): nothing arrived before the deadline.
RecvNothing(r) ==
    /\ pc[r] = "recv"
    /\ queue = <<>>
    /\ ~closed
    /\ op[r].expired
    /\ Finish(r) /\ Goto(r, "idle")
    /\ UNCHANGED <<queue, closed, started, accepted, taken, refused, sawClosed>>

RecvSleep(r) ==
    /\ pc[r] = "recv"
    /\ queue = <<>>
    /\ ~closed
    /\ ~op[r].expired
    /\ Goto(r, "sleepEmpty")
    /\ OnlyPc

-----------------------------------------------------------------------------
(***************************************************************************)
(* Waking up.                                                              *)
(***************************************************************************)

Asleep(p) == {t \in Threads : pc[t] = p}

\* Where a waiter goes when its wait ends.
Awake(p) == IF p = "sleepFull" THEN "send" ELSE "recv"

\* notify_one: some waiter of that condition variable wakes, if there is one.
NotifyOne(t, p) ==
    /\ \/ \E w \in Asleep(p) :
            pc' = [pc EXCEPT ![t] = "idle", ![w] = Awake(p)]
       \/ Asleep(p) = {} /\ Goto(t, "idle")
    /\ OnlyPc

\* After a push: not_empty.notify_one.
SendNotify(s) == pc[s] = "notifyEmpty" /\ NotifyOne(s, "sleepEmpty")

\* Mutant: the pop that makes room tells nobody.
RecvNotifyNobody(r) == pc[r] = "notifyFull" /\ Goto(r, "idle") /\ OnlyPc

\* After a pop: not_full.notify_one.
RecvNotify(r) == pc[r] = "notifyFull" /\ NotifyOne(r, "sleepFull")

\* notify_all, then on to the next step of close.
NotifyAll(t, p, next) ==
    /\ pc' = [u \in Threads |-> IF u = t THEN next
                                ELSE IF pc[u] = p THEN Awake(p)
                                ELSE pc[u]]
    /\ OnlyPc

\* The deadline of a waiting operation passes.  A send without a deadline has
\* none.
Expire(t) ==
    /\ pc[t] \in {"send", "sleepFull", "recv", "sleepEmpty"}
    /\ op[t].kind \in {"timed", "recv"}
    /\ ~op[t].expired
    /\ op' = [op EXCEPT ![t].expired = TRUE]
    /\ UNCHANGED <<queue, closed, pc, started, accepted, taken, refused,
                   sawClosed>>

\* A wait returns without a notification: at its deadline or spuriously.
WaitReturns(t) ==
    /\ pc[t] \in {"sleepFull", "sleepEmpty"}
    /\ Goto(t, Awake(pc[t]))
    /\ OnlyPc

-----------------------------------------------------------------------------
(***************************************************************************)
(* close: set the flag under the lock, then wake everyone, in two calls.   *)
(***************************************************************************)

Close(t) ==
    /\ pc[t] = "idle"
    /\ closed' = TRUE
    /\ Goto(t, "closeEmpty")
    /\ UNCHANGED <<queue, op, started, accepted, taken, refused, sawClosed>>

\* Mutant: close wakes the receivers only.
CloseNotifyEmptyOnly(t) ==
    /\ pc[t] = "closeEmpty"
    /\ NotifyAll(t, "sleepEmpty", "idle")

CloseNotifyEmpty(t) ==
    /\ pc[t] = "closeEmpty"
    /\ NotifyAll(t, "sleepEmpty", "closeFull")

CloseNotifyFull(t) ==
    /\ pc[t] = "closeFull"
    /\ NotifyAll(t, "sleepFull", "idle")

-----------------------------------------------------------------------------

\* One turn of a running operation.
SenderStep(s) ==
    SendClosed(s) \/ SendPush(s) \/ SendFull(s) \/ SendSleep(s) \/ SendNotify(s)

ReceiverStep(r) ==
    \/ RecvPop(r) \/ RecvClosed(r) \/ RecvNothing(r) \/ RecvSleep(r)
    \/ RecvNotify(r)

CloserStep(t) == CloseNotifyEmpty(t) \/ CloseNotifyFull(t)

Next ==
    \/ \E s \in Senders : (\E k \in SendKinds : StartSend(s, k)) \/ SenderStep(s)
    \/ \E r \in Receivers : StartRecv(r) \/ ReceiverStep(r)
    \/ \E t \in Threads :
          Close(t) \/ CloserStep(t) \/ Expire(t) \/ WaitReturns(t)

Spec == Init /\ [][Next]_vars

\* Threads run, deadlines pass, and a wait whose deadline has passed returns.
\* Nothing is assumed about spurious wake-ups, or about anyone calling recv,
\* send or close.
FairSpec ==
    /\ Spec
    /\ \A s \in Senders : WF_vars(SenderStep(s))
    /\ \A r \in Receivers : WF_vars(ReceiverStep(r))
    /\ \A t \in Threads :
        /\ WF_vars(CloserStep(t))
        /\ WF_vars(Expire(t))
        /\ WF_vars(op[t].expired /\ WaitReturns(t))

-----------------------------------------------------------------------------
(***************************************************************************)
(* Properties.                                                             *)
(***************************************************************************)

\* The queue never holds more than the capacity, however many senders wake at
\* once ("a bounded queue ... holding at most capacity values").
Bounded == Len(queue) <= Capacity

\* Values leave in the order in which they were accepted, each exactly once:
\* what was accepted is what was taken followed by what still waits.
FifoExactlyOnce == accepted = taken \o queue

\* A value whose send is over was either accepted or handed back, never both
\* and never neither; one still being sent is neither yet.
Placed(v) ==
    LET inHand == \E s \in Senders : pc[s] \in {"send", "sleepFull"} /\ op[s].val = v
        in == \E i \in 1..Len(accepted) : accepted[i] = v
        back == v \in refused
    IN  /\ inHand \/ in \/ back
        /\ ~(inHand /\ in) /\ ~(inHand /\ back) /\ ~(in /\ back)
ValuesAccountedFor == \A v \in 1..started : Placed(v)

\* Once a recv has answered Closed, every value ever accepted has been taken,
\* and this stays so ("closed and every value sent before the close has been
\* taken").
ClosedMeansDrained == sawClosed => closed /\ taken = accepted

\* The threads that will notice free room without anybody else's help.
RoomWatchers == {t \in Threads : pc[t] \in {"notifyFull", "send"}}

\* No lost wake-up for senders: while one sleeps on not_full, every free place
\* has a notification on its way or a sender about to look.
NoLostRoom ==
    ~closed /\ Asleep("sleepFull") # {} =>
        Capacity <= Len(queue) + Cardinality(RoomWatchers)

ValueWatchers == {t \in Threads : pc[t] \in {"notifyEmpty", "recv"}}

\* No lost wake-up for receivers: while one sleeps on not_empty, every waiting
\* value has a notification on its way or a receiver about to look.
NoLostValue ==
    Asleep("sleepEmpty") # {} => Len(queue) <= Cardinality(ValueWatchers)

\* No wake-up is lost on either side, although push and pop notify one waiter
\* each, after the unlock, and the waiter may have given up or been overtaken.
NoLostWakeup == NoLostRoom /\ NoLostValue

\* Nobody sleeps through a close: after the flag is set, a sleeper has a
\* notify_all still ahead of it.
NobodySleepsThroughClose ==
    closed =>
        /\ Asleep("sleepEmpty") # {} => \E t \in Threads : pc[t] = "closeEmpty"
        /\ Asleep("sleepFull") # {} =>
              \E t \in Threads : pc[t] \in {"closeEmpty", "closeFull"}

\* After a close every operation in progress returns, sends without a
\* deadline included ("wake every waiter").
CloseReleasesEveryone ==
    \A t \in Threads :
        closed /\ pc[t] # "idle" ~> pc[t] = "idle"

=============================================================================
