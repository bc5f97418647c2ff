---------------------------- MODULE InboxProofs -----------------------------
(***************************************************************************)
(* Proofs about Inbox, for every set of threads and every capacity.        *)
(*                                                                         *)
(* The argument for the wake-ups.  Call a thread a room watcher if it is   *)
(* about to notify not_full or about to run the body of a send.  A sender  *)
(* goes to sleep only when there is no free place.  From then on a free    *)
(* place appears only with a pop, whose thread becomes a room watcher; a   *)
(* watcher that notifies hands its watch to the sleeper it wakes; and a    *)
(* watcher that runs the body of a send takes a free place, unless there   *)
(* is none or the inbox is closed.  So a sleeper never coexists with more  *)
(* free places than watchers.  The same holds for values and receivers.    *)
(***************************************************************************)
EXTENDS Inbox, FiniteSetTheorems, SequenceTheorems, TLAPS

\* Only senders send and only receivers receive, and a send carries a value
\* that was started.
OpInv ==
    \A t \in Threads :
        /\ pc[t] \in {"send", "sleepFull", "notifyEmpty"} => t \in Senders
        /\ pc[t] \in {"recv", "sleepEmpty", "notifyFull"} => t \in Receivers
        /\ pc[t] \in {"send", "sleepFull"} => op[t].val \in 1..started

ClosedInv == sawClosed => closed /\ queue = <<>>

IndInv ==
    /\ TypeOK
    /\ OpInv
    /\ Bounded
    /\ FifoExactlyOnce
    /\ ClosedInv
    /\ NoLostRoom
    /\ NoLostValue
    /\ NobodySleepsThroughClose

-----------------------------------------------------------------------------
(***************************************************************************)
(* Sequences.                                                              *)
(***************************************************************************)

\* Appending to the right part of a concatenation appends to the whole.
LEMMA AppendRight ==
    ASSUME NEW s \in Seq(1..MaxSends), NEW t \in Seq(1..MaxSends),
           NEW e \in 1..MaxSends
    PROVE  Append(s \o t, e) = s \o Append(t, e)
  OBVIOUS

\* Moving the head of the right part to the end of the left part leaves the
\* concatenation as it is.
LEMMA MoveHead ==
    ASSUME NEW S, NEW s \in Seq(S), NEW t \in Seq(S), t # <<>>
    PROVE  Append(s, Head(t)) \o Tail(t) = s \o t
  OBVIOUS

\* The capacity is positive.
LEMMA CapacityPositive == Capacity \in Nat /\ Capacity >= 1
  BY RequestedAssumption DEF Capacity

-----------------------------------------------------------------------------
(***************************************************************************)
(* Every action keeps each part of the inductive invariant.                *)
(***************************************************************************)

\* Clearing a thread's arguments keeps the type.
LEMMA FinishType ==
    ASSUME TypeOK, NEW t \in Threads, Finish(t)
    PROVE  op' \in [Threads -> Ops]
<1>1. NoOp \in Ops
  BY MaxSendsAssumption DEF NoOp, Ops
<1> QED
  BY <1>1 DEF TypeOK, Finish

\* Every step keeps each variable in its type.
LEMMA TypeStep == TypeOK /\ OpInv /\ Next => TypeOK'
<1> SUFFICES ASSUME TypeOK, OpInv, Next PROVE TypeOK'
  OBVIOUS
<1> USE MaxSendsAssumption DEF TypeOK, OpInv, Threads
<1>1. CASE \E s \in Senders, k \in SendKinds : StartSend(s, k)
  BY <1>1 DEF StartSend, Goto, Finish, OnlyPc, Points, Ops, NoOp, SendKinds
<1>2. CASE \E s \in Senders : SendClosed(s)
  <2> PICK s \in Senders : SendClosed(s)
    BY <1>2
  <2>1. op[s].val \in 1..MaxSends
    BY DEF SendClosed
  <2>2. op' \in [Threads -> Ops]
    BY FinishType DEF SendClosed
  <2>3. refused' \in SUBSET (1..MaxSends) /\ pc' \in [Threads -> Points]
    BY <2>1 DEF SendClosed, Goto, Points
  <2> QED
    BY <2>2, <2>3 DEF SendClosed
<1>3. CASE \E s \in Senders : SendPush(s)
  BY <1>3 DEF SendPush, Goto, Finish, OnlyPc, Points, Ops, NoOp, SendKinds
<1>4. CASE \E s \in Senders : SendFull(s)
  <2> PICK s \in Senders : SendFull(s)
    BY <1>4
  <2>1. op[s].val \in 1..MaxSends
    BY DEF SendFull
  <2>2. op' \in [Threads -> Ops]
    BY FinishType DEF SendFull
  <2>3. refused' \in SUBSET (1..MaxSends) /\ pc' \in [Threads -> Points]
    BY <2>1 DEF SendFull, Goto, Points
  <2> QED
    BY <2>2, <2>3 DEF SendFull
<1>5. CASE \E s \in Senders : SendSleep(s)
  BY <1>5 DEF SendSleep, Goto, Finish, OnlyPc, Points, Ops, NoOp, SendKinds
<1>6. CASE \E s \in Senders : SendNotify(s)
  BY <1>6 DEF SendNotify, NotifyOne, OnlyPc, Asleep, Awake, Goto, Points
<1>7. CASE \E r \in Receivers : StartRecv(r)
  <2> PICK r \in Receivers : StartRecv(r)
    BY <1>7
  <2>1. [kind |-> "recv", val |-> 0, expired |-> FALSE] \in Ops
    BY DEF Ops
  <2>2. op' \in [Threads -> Ops]
    BY <2>1 DEF StartRecv
  <2>3. pc' \in [Threads -> Points]
    BY DEF StartRecv, Goto, Points
  <2> QED
    BY <2>2, <2>3 DEF StartRecv
<1>8. CASE \E r \in Receivers : RecvPop(r)
  BY <1>8 DEF RecvPop, Goto, Finish, OnlyPc, Points, Ops, NoOp, SendKinds
<1>9. CASE \E r \in Receivers : RecvClosed(r)
  BY <1>9 DEF RecvClosed, Goto, Finish, OnlyPc, Points, Ops, NoOp, SendKinds
<1>10. CASE \E r \in Receivers : RecvNothing(r)
  BY <1>10 DEF RecvNothing, Goto, Finish, OnlyPc, Points, Ops, NoOp, SendKinds
<1>11. CASE \E r \in Receivers : RecvSleep(r)
  BY <1>11 DEF RecvSleep, Goto, Finish, OnlyPc, Points, Ops, NoOp, SendKinds
<1>12. CASE \E r \in Receivers : RecvNotify(r)
  BY <1>12 DEF RecvNotify, NotifyOne, OnlyPc, Asleep, Awake, Goto, Points
<1>13. CASE \E t \in Threads : Close(t)
  BY <1>13 DEF Close, Goto, Finish, OnlyPc, Points, Ops, NoOp, SendKinds
<1>14. CASE \E t \in Threads : CloseNotifyEmpty(t)
  BY <1>14 DEF CloseNotifyEmpty, NotifyAll, OnlyPc, Awake, Points
<1>15. CASE \E t \in Threads : CloseNotifyFull(t)
  BY <1>15 DEF CloseNotifyFull, NotifyAll, OnlyPc, Awake, Points
<1>16. CASE \E t \in Threads : Expire(t)
  <2> PICK t \in Threads : Expire(t)
    BY <1>16
  <2>1. op[t] \in Ops
    OBVIOUS
  <2>2. [op[t] EXCEPT !.expired = TRUE] \in Ops
    BY <2>1 DEF Ops
  <2>3. op' \in [Threads -> Ops]
    BY <2>2 DEF Expire
  <2> QED
    BY <2>3 DEF Expire
<1>17. CASE \E t \in Threads : WaitReturns(t)
  BY <1>17 DEF WaitReturns, Goto, OnlyPc, Awake, Points
<1> QED
  BY <1>1, <1>2, <1>3, <1>4, <1>5, <1>6, <1>7, <1>8, <1>9, <1>10, <1>11,
     <1>12, <1>13, <1>14, <1>15, <1>16, <1>17
     DEF Next, SenderStep, ReceiverStep, CloserStep

\* Only senders send, only receivers receive.
LEMMA OpStep == TypeOK /\ OpInv /\ Next => OpInv'
<1> SUFFICES ASSUME TypeOK, OpInv, Next PROVE OpInv'
  OBVIOUS
<1> USE ThreadsAssumption, MaxSendsAssumption DEF TypeOK, OpInv, Threads
<1>1. CASE \E s \in Senders, k \in SendKinds : StartSend(s, k)
  BY <1>1 DEF StartSend, Goto, Finish, OnlyPc, NoOp
<1>2. CASE \E s \in Senders : SendClosed(s)
  BY <1>2 DEF SendClosed, Goto, Finish, OnlyPc, NoOp
<1>3. CASE \E s \in Senders : SendPush(s)
  BY <1>3 DEF SendPush, Goto, Finish, OnlyPc, NoOp
<1>4. CASE \E s \in Senders : SendFull(s)
  BY <1>4 DEF SendFull, Goto, Finish, OnlyPc, NoOp
<1>5. CASE \E s \in Senders : SendSleep(s)
  BY <1>5 DEF SendSleep, Goto, Finish, OnlyPc, NoOp
<1>6. CASE \E s \in Senders : SendNotify(s)
  BY <1>6 DEF SendNotify, NotifyOne, OnlyPc, Asleep, Awake, Goto
<1>7. CASE \E r \in Receivers : StartRecv(r)
  BY <1>7 DEF StartRecv, Goto, Finish, OnlyPc, NoOp
<1>8. CASE \E r \in Receivers : RecvPop(r)
  BY <1>8 DEF RecvPop, Goto, Finish, OnlyPc, NoOp
<1>9. CASE \E r \in Receivers : RecvClosed(r)
  BY <1>9 DEF RecvClosed, Goto, Finish, OnlyPc, NoOp
<1>10. CASE \E r \in Receivers : RecvNothing(r)
  BY <1>10 DEF RecvNothing, Goto, Finish, OnlyPc, NoOp
<1>11. CASE \E r \in Receivers : RecvSleep(r)
  BY <1>11 DEF RecvSleep, Goto, Finish, OnlyPc, NoOp
<1>12. CASE \E r \in Receivers : RecvNotify(r)
  BY <1>12 DEF RecvNotify, NotifyOne, OnlyPc, Asleep, Awake, Goto
<1>13. CASE \E t \in Threads : Close(t)
  BY <1>13 DEF Close, Goto, Finish, OnlyPc, NoOp
<1>14. CASE \E t \in Threads : CloseNotifyEmpty(t)
  BY <1>14 DEF CloseNotifyEmpty, NotifyAll, OnlyPc, Awake
<1>15. CASE \E t \in Threads : CloseNotifyFull(t)
  BY <1>15 DEF CloseNotifyFull, NotifyAll, OnlyPc, Awake
<1>16. CASE \E t \in Threads : Expire(t)
  BY <1>16 DEF Expire, Goto, Finish, OnlyPc, NoOp
<1>17. CASE \E t \in Threads : WaitReturns(t)
  BY <1>17 DEF WaitReturns, Goto, OnlyPc, Awake
<1> QED
  BY <1>1, <1>2, <1>3, <1>4, <1>5, <1>6, <1>7, <1>8, <1>9, <1>10, <1>11,
     <1>12, <1>13, <1>14, <1>15, <1>16, <1>17
     DEF Next, SenderStep, ReceiverStep, CloserStep

\* No push goes beyond the capacity.
LEMMA BoundedStep == TypeOK /\ OpInv /\ Bounded /\ Next => Bounded'
<1> SUFFICES ASSUME TypeOK, OpInv, Bounded, Next PROVE Bounded'
  OBVIOUS
<1> USE CapacityPositive DEF TypeOK, OpInv, Bounded, Threads
<1>1. CASE \E s \in Senders, k \in SendKinds : StartSend(s, k)
  BY <1>1 DEF StartSend, Goto, Finish, OnlyPc, HasRoom
<1>2. CASE \E s \in Senders : SendClosed(s)
  BY <1>2 DEF SendClosed, Goto, Finish, OnlyPc, HasRoom
<1>3. CASE \E s \in Senders : SendPush(s)
  BY <1>3 DEF SendPush, Goto, Finish, OnlyPc, HasRoom
<1>4. CASE \E s \in Senders : SendFull(s)
  BY <1>4 DEF SendFull, Goto, Finish, OnlyPc, HasRoom
<1>5. CASE \E s \in Senders : SendSleep(s)
  BY <1>5 DEF SendSleep, Goto, Finish, OnlyPc, HasRoom
<1>6. CASE \E s \in Senders : SendNotify(s)
  BY <1>6 DEF SendNotify, NotifyOne, OnlyPc, Asleep, Awake, Goto
<1>7. CASE \E r \in Receivers : StartRecv(r)
  BY <1>7 DEF StartRecv, Goto, Finish, OnlyPc, HasRoom
<1>8. CASE \E r \in Receivers : RecvPop(r)
  BY <1>8 DEF RecvPop, Goto, Finish, OnlyPc, HasRoom
<1>9. CASE \E r \in Receivers : RecvClosed(r)
  BY <1>9 DEF RecvClosed, Goto, Finish, OnlyPc, HasRoom
<1>10. CASE \E r \in Receivers : RecvNothing(r)
  BY <1>10 DEF RecvNothing, Goto, Finish, OnlyPc, HasRoom
<1>11. CASE \E r \in Receivers : RecvSleep(r)
  BY <1>11 DEF RecvSleep, Goto, Finish, OnlyPc, HasRoom
<1>12. CASE \E r \in Receivers : RecvNotify(r)
  BY <1>12 DEF RecvNotify, NotifyOne, OnlyPc, Asleep, Awake, Goto
<1>13. CASE \E t \in Threads : Close(t)
  BY <1>13 DEF Close, Goto, Finish, OnlyPc, HasRoom
<1>14. CASE \E t \in Threads : CloseNotifyEmpty(t)
  BY <1>14 DEF CloseNotifyEmpty, NotifyAll, OnlyPc, Awake
<1>15. CASE \E t \in Threads : CloseNotifyFull(t)
  BY <1>15 DEF CloseNotifyFull, NotifyAll, OnlyPc, Awake
<1>16. CASE \E t \in Threads : Expire(t)
  BY <1>16 DEF Expire, Goto, Finish, OnlyPc, HasRoom
<1>17. CASE \E t \in Threads : WaitReturns(t)
  BY <1>17 DEF WaitReturns, Goto, OnlyPc, Awake
<1> QED
  BY <1>1, <1>2, <1>3, <1>4, <1>5, <1>6, <1>7, <1>8, <1>9, <1>10, <1>11,
     <1>12, <1>13, <1>14, <1>15, <1>16, <1>17
     DEF Next, SenderStep, ReceiverStep, CloserStep

\* Push and pop keep the order of the accepted values.
LEMMA FifoStep == TypeOK /\ OpInv /\ FifoExactlyOnce /\ Next => FifoExactlyOnce'
<1> SUFFICES ASSUME TypeOK, OpInv, FifoExactlyOnce, Next PROVE FifoExactlyOnce'
  OBVIOUS
<1> USE DEF TypeOK, OpInv, FifoExactlyOnce, Threads
<1>1. CASE \E s \in Senders, k \in SendKinds : StartSend(s, k)
  BY <1>1 DEF StartSend, Goto, Finish, OnlyPc
<1>2. CASE \E s \in Senders : SendClosed(s)
  BY <1>2 DEF SendClosed, Goto, Finish, OnlyPc
<1>3. CASE \E s \in Senders : SendPush(s)
  <2> PICK s \in Senders : SendPush(s)
    BY <1>3
  <2>1. op[s].val \in 1..MaxSends
    BY MaxSendsAssumption DEF SendPush
  <2>2. Append(taken \o queue, op[s].val) = taken \o Append(queue, op[s].val)
    <3>1. taken \in Seq(1..MaxSends) /\ queue \in Seq(1..MaxSends)
      OBVIOUS
    <3> QED
      BY <2>1, <3>1, AppendRight
  <2> QED
    BY <2>2 DEF SendPush
<1>4. CASE \E s \in Senders : SendFull(s)
  BY <1>4 DEF SendFull, Goto, Finish, OnlyPc
<1>5. CASE \E s \in Senders : SendSleep(s)
  BY <1>5 DEF SendSleep, Goto, Finish, OnlyPc
<1>6. CASE \E s \in Senders : SendNotify(s)
  BY <1>6 DEF SendNotify, NotifyOne, OnlyPc, Asleep, Awake, Goto
<1>7. CASE \E r \in Receivers : StartRecv(r)
  BY <1>7 DEF StartRecv, Goto, Finish, OnlyPc
<1>8. CASE \E r \in Receivers : RecvPop(r)
  <2> PICK r \in Receivers : RecvPop(r)
    BY <1>8
  <2>1. Append(taken, Head(queue)) \o Tail(queue) = taken \o queue
    BY MoveHead DEF RecvPop
  <2> QED
    BY <2>1 DEF RecvPop
<1>9. CASE \E r \in Receivers : RecvClosed(r)
  BY <1>9 DEF RecvClosed, Goto, Finish, OnlyPc
<1>10. CASE \E r \in Receivers : RecvNothing(r)
  BY <1>10 DEF RecvNothing, Goto, Finish, OnlyPc
<1>11. CASE \E r \in Receivers : RecvSleep(r)
  BY <1>11 DEF RecvSleep, Goto, Finish, OnlyPc
<1>12. CASE \E r \in Receivers : RecvNotify(r)
  BY <1>12 DEF RecvNotify, NotifyOne, OnlyPc, Asleep, Awake, Goto
<1>13. CASE \E t \in Threads : Close(t)
  BY <1>13 DEF Close, Goto, Finish, OnlyPc
<1>14. CASE \E t \in Threads : CloseNotifyEmpty(t)
  BY <1>14 DEF CloseNotifyEmpty, NotifyAll, OnlyPc, Awake
<1>15. CASE \E t \in Threads : CloseNotifyFull(t)
  BY <1>15 DEF CloseNotifyFull, NotifyAll, OnlyPc, Awake
<1>16. CASE \E t \in Threads : Expire(t)
  BY <1>16 DEF Expire, Goto, Finish, OnlyPc
<1>17. CASE \E t \in Threads : WaitReturns(t)
  BY <1>17 DEF WaitReturns, Goto, OnlyPc, Awake
<1> QED
  BY <1>1, <1>2, <1>3, <1>4, <1>5, <1>6, <1>7, <1>8, <1>9, <1>10, <1>11,
     <1>12, <1>13, <1>14, <1>15, <1>16, <1>17
     DEF Next, SenderStep, ReceiverStep, CloserStep

\* A closed, empty inbox stays closed and empty.
LEMMA ClosedStep == TypeOK /\ OpInv /\ ClosedInv /\ Next => ClosedInv'
<1> SUFFICES ASSUME TypeOK, OpInv, ClosedInv, Next PROVE ClosedInv'
  OBVIOUS
<1> USE DEF TypeOK, ClosedInv, Threads
<1>1. CASE \E s \in Senders, k \in SendKinds : StartSend(s, k)
  BY <1>1 DEF StartSend, Goto, Finish, OnlyPc
<1>2. CASE \E s \in Senders : SendClosed(s)
  BY <1>2 DEF SendClosed, Goto, Finish, OnlyPc
<1>3. CASE \E s \in Senders : SendPush(s)
  BY <1>3 DEF SendPush, Goto, Finish, OnlyPc
<1>4. CASE \E s \in Senders : SendFull(s)
  BY <1>4 DEF SendFull, Goto, Finish, OnlyPc
<1>5. CASE \E s \in Senders : SendSleep(s)
  BY <1>5 DEF SendSleep, Goto, Finish, OnlyPc
<1>6. CASE \E s \in Senders : SendNotify(s)
  BY <1>6 DEF SendNotify, NotifyOne, OnlyPc, Asleep, Awake, Goto
<1>7. CASE \E r \in Receivers : StartRecv(r)
  BY <1>7 DEF StartRecv, Goto, Finish, OnlyPc
<1>8. CASE \E r \in Receivers : RecvPop(r)
  BY <1>8 DEF RecvPop, Goto, Finish, OnlyPc
<1>9. CASE \E r \in Receivers : RecvClosed(r)
  BY <1>9 DEF RecvClosed, Goto, Finish, OnlyPc
<1>10. CASE \E r \in Receivers : RecvNothing(r)
  BY <1>10 DEF RecvNothing, Goto, Finish, OnlyPc
<1>11. CASE \E r \in Receivers : RecvSleep(r)
  BY <1>11 DEF RecvSleep, Goto, Finish, OnlyPc
<1>12. CASE \E r \in Receivers : RecvNotify(r)
  BY <1>12 DEF RecvNotify, NotifyOne, OnlyPc, Asleep, Awake, Goto
<1>13. CASE \E t \in Threads : Close(t)
  BY <1>13 DEF Close, Goto, Finish, OnlyPc
<1>14. CASE \E t \in Threads : CloseNotifyEmpty(t)
  BY <1>14 DEF CloseNotifyEmpty, NotifyAll, OnlyPc, Awake
<1>15. CASE \E t \in Threads : CloseNotifyFull(t)
  BY <1>15 DEF CloseNotifyFull, NotifyAll, OnlyPc, Awake
<1>16. CASE \E t \in Threads : Expire(t)
  BY <1>16 DEF Expire, Goto, Finish, OnlyPc
<1>17. CASE \E t \in Threads : WaitReturns(t)
  BY <1>17 DEF WaitReturns, Goto, OnlyPc, Awake
<1> QED
  BY <1>1, <1>2, <1>3, <1>4, <1>5, <1>6, <1>7, <1>8, <1>9, <1>10, <1>11,
     <1>12, <1>13, <1>14, <1>15, <1>16, <1>17
     DEF Next, SenderStep, ReceiverStep, CloserStep

\* A sleeper of a closed inbox keeps a notify_all ahead of it.
LEMMA CloseStep == TypeOK /\ OpInv /\ NobodySleepsThroughClose /\ Next => NobodySleepsThroughClose'
<1> SUFFICES ASSUME TypeOK, OpInv, NobodySleepsThroughClose, Next PROVE NobodySleepsThroughClose'
  OBVIOUS
<1> USE DEF TypeOK, NobodySleepsThroughClose, Threads, Asleep
<1>1. CASE \E s \in Senders, k \in SendKinds : StartSend(s, k)
  BY <1>1 DEF StartSend, Goto, Finish, OnlyPc
<1>2. CASE \E s \in Senders : SendClosed(s)
  BY <1>2 DEF SendClosed, Goto, Finish, OnlyPc
<1>3. CASE \E s \in Senders : SendPush(s)
  BY <1>3 DEF SendPush, Goto, Finish, OnlyPc
<1>4. CASE \E s \in Senders : SendFull(s)
  BY <1>4 DEF SendFull, Goto, Finish, OnlyPc
<1>5. CASE \E s \in Senders : SendSleep(s)
  BY <1>5 DEF SendSleep, Goto, Finish, OnlyPc
<1>6. CASE \E s \in Senders : SendNotify(s)
  <2> PICK s \in Senders : SendNotify(s)
    BY <1>6
  <2>1. \A u \in Threads :
            /\ pc[u] \in {"closeEmpty", "closeFull"} => pc'[u] = pc[u]
            /\ pc'[u] \in {"sleepEmpty", "sleepFull"} => pc'[u] = pc[u]
    BY DEF SendNotify, NotifyOne, Awake, Goto
  <2>2. closed' = closed
    BY DEF SendNotify, NotifyOne, OnlyPc
  <2> QED
    BY <2>1, <2>2
<1>7. CASE \E r \in Receivers : StartRecv(r)
  BY <1>7 DEF StartRecv, Goto, Finish, OnlyPc
<1>8. CASE \E r \in Receivers : RecvPop(r)
  BY <1>8 DEF RecvPop, Goto, Finish, OnlyPc
<1>9. CASE \E r \in Receivers : RecvClosed(r)
  BY <1>9 DEF RecvClosed, Goto, Finish, OnlyPc
<1>10. CASE \E r \in Receivers : RecvNothing(r)
  BY <1>10 DEF RecvNothing, Goto, Finish, OnlyPc
<1>11. CASE \E r \in Receivers : RecvSleep(r)
  BY <1>11 DEF RecvSleep, Goto, Finish, OnlyPc
<1>12. CASE \E r \in Receivers : RecvNotify(r)
  <2> PICK r \in Receivers : RecvNotify(r)
    BY <1>12
  <2>1. \A u \in Threads :
            /\ pc[u] \in {"closeEmpty", "closeFull"} => pc'[u] = pc[u]
            /\ pc'[u] \in {"sleepEmpty", "sleepFull"} => pc'[u] = pc[u]
    BY DEF RecvNotify, NotifyOne, Awake, Goto
  <2>2. closed' = closed
    BY DEF RecvNotify, NotifyOne, OnlyPc
  <2> QED
    BY <2>1, <2>2
<1>13. CASE \E t \in Threads : Close(t)
  BY <1>13 DEF Close, Goto, Finish, OnlyPc
<1>14. CASE \E t \in Threads : CloseNotifyEmpty(t)
  BY <1>14 DEF CloseNotifyEmpty, NotifyAll, OnlyPc, Awake
<1>15. CASE \E t \in Threads : CloseNotifyFull(t)
  <2> PICK t \in Threads : CloseNotifyFull(t)
    BY <1>15
  <2>1. \A u \in Threads :
            /\ pc[u] = "closeEmpty" => pc'[u] = "closeEmpty"
            /\ pc'[u] = "sleepEmpty" => pc[u] = "sleepEmpty"
            /\ pc'[u] # "sleepFull"
    BY DEF CloseNotifyFull, NotifyAll, Awake
  <2>2. closed' = closed
    BY DEF CloseNotifyFull, NotifyAll, OnlyPc
  <2> QED
    BY <2>1, <2>2
<1>16. CASE \E t \in Threads : Expire(t)
  BY <1>16 DEF Expire, Goto, Finish, OnlyPc
<1>17. CASE \E t \in Threads : WaitReturns(t)
  BY <1>17 DEF WaitReturns, Goto, OnlyPc, Awake
<1> QED
  BY <1>1, <1>2, <1>3, <1>4, <1>5, <1>6, <1>7, <1>8, <1>9, <1>10, <1>11,
     <1>12, <1>13, <1>14, <1>15, <1>16, <1>17
     DEF Next, SenderStep, ReceiverStep, CloserStep


-----------------------------------------------------------------------------
(***************************************************************************)
(* No wake-up is lost.                                                     *)
(***************************************************************************)

\* There are finitely many watchers.
LEMMA WatchersFinite ==
    /\ IsFiniteSet(RoomWatchers) /\ Cardinality(RoomWatchers) \in Nat
    /\ IsFiniteSet(ValueWatchers) /\ Cardinality(ValueWatchers) \in Nat
<1>1. RoomWatchers \subseteq Threads /\ ValueWatchers \subseteq Threads
  BY DEF RoomWatchers, ValueWatchers
<1> QED
  BY <1>1, ThreadsAssumption, FS_Subset, FS_CardinalityType

\* More watchers are not fewer.
LEMMA MoreWatchers ==
    ASSUME NEW A, NEW B, IsFiniteSet(A), IsFiniteSet(B), A \subseteq B
    PROVE  Cardinality(A) \in Nat /\ Cardinality(B) \in Nat
           /\ Cardinality(A) <= Cardinality(B)
  BY FS_Subset, FS_CardinalityType

\* Replacing one watcher by another keeps their number.
LEMMA HandOver ==
    ASSUME NEW A, IsFiniteSet(A), NEW x \in A, NEW y, y \notin A
    PROVE  Cardinality((A \ {x}) \cup {y}) = Cardinality(A)
<1>1. IsFiniteSet(A \ {x}) /\ Cardinality(A \ {x}) = Cardinality(A) - 1
  BY FS_RemoveElement
<1>2. y \notin A \ {x}
  OBVIOUS
<1>3. Cardinality((A \ {x}) \cup {y}) = Cardinality(A \ {x}) + 1
  BY <1>1, <1>2, FS_AddElement
<1>4. Cardinality(A) \in Nat
  BY FS_CardinalityType
<1> QED
  BY <1>1, <1>3, <1>4

\* Room is never left unwatched beside a sleeping sender.
LEMMA RoomStep == TypeOK /\ OpInv /\ NoLostRoom /\ Next => NoLostRoom'
<1> SUFFICES ASSUME TypeOK, OpInv, NoLostRoom, Next,
                    ~closed', Asleep("sleepFull")' # {}
             PROVE  Capacity <= Len(queue') + Cardinality(RoomWatchers')
  BY DEF NoLostRoom
<1>a. /\ IsFiniteSet(RoomWatchers) /\ Cardinality(RoomWatchers) \in Nat
      /\ IsFiniteSet(RoomWatchers') /\ Cardinality(RoomWatchers') \in Nat
  <2>1. RoomWatchers' \subseteq Threads
    BY DEF RoomWatchers
  <2> QED
    BY <2>1, WatchersFinite, ThreadsAssumption, FS_Subset, FS_CardinalityType
<1>b. Len(queue) \in Nat /\ Capacity \in Nat /\ pc \in [Threads -> Points]
  BY CapacityPositive DEF TypeOK
\* nobody new falls asleep, the queue keeps its length, no watcher leaves
<1>c. ASSUME Asleep("sleepFull")' \subseteq Asleep("sleepFull"),
             closed' = closed, queue' = queue,
             RoomWatchers \subseteq RoomWatchers'
      PROVE  Capacity <= Len(queue') + Cardinality(RoomWatchers')
  <2>1. Capacity <= Len(queue) + Cardinality(RoomWatchers)
    BY <1>c DEF NoLostRoom
  <2>2. Cardinality(RoomWatchers) <= Cardinality(RoomWatchers')
    BY <1>a, <1>c, MoreWatchers
  <2> QED
    BY <1>a, <1>b, <1>c, <2>1, <2>2
\* the queue is full
<1>d. ASSUME ~HasRoom, queue' = queue
      PROVE  Capacity <= Len(queue') + Cardinality(RoomWatchers')
  BY <1>a, <1>b, <1>d DEF HasRoom
<1> USE DEF Asleep, RoomWatchers, Threads
<1>1. CASE \E s \in Senders, k \in SendKinds : StartSend(s, k)
  BY <1>1, <1>b, <1>c DEF StartSend, Goto
<1>2. CASE \E s \in Senders : SendClosed(s)
  BY <1>2 DEF SendClosed
<1>3. CASE \E s \in Senders : SendPush(s)
  <2> PICK s \in Senders : SendPush(s)
    BY <1>3
  <2>1. /\ Asleep("sleepFull")' = Asleep("sleepFull") /\ ~closed
        /\ RoomWatchers' = RoomWatchers \ {s} /\ s \in RoomWatchers
    BY <1>b DEF SendPush, Goto
  <2>2. Capacity <= Len(queue) + Cardinality(RoomWatchers)
    BY <2>1 DEF NoLostRoom
  <2>3. Cardinality(RoomWatchers') = Cardinality(RoomWatchers) - 1
    BY <1>a, <2>1, FS_RemoveElement
  <2>4. Len(queue') = Len(queue) + 1
    BY DEF SendPush, TypeOK
  <2> QED
    BY <1>a, <1>b, <2>2, <2>3, <2>4
<1>4. CASE \E s \in Senders : SendFull(s)
  BY <1>4, <1>d DEF SendFull
<1>5. CASE \E s \in Senders : SendSleep(s)
  BY <1>5, <1>d DEF SendSleep, OnlyPc
<1>6. CASE \E s \in Senders : SendNotify(s)
  <2> PICK s \in Senders : SendNotify(s)
    BY <1>6
  <2>1. \A u \in Threads : pc'[u] = pc[u] \/ pc'[u] \in {"idle", "recv"}
    BY <1>b DEF SendNotify, NotifyOne, Awake, Goto
  <2>2. \A u \in Threads : pc[u] \in {"notifyFull", "send"} => pc'[u] = pc[u]
    BY <1>b DEF SendNotify, NotifyOne, Awake, Goto
  <2>3. closed' = closed /\ queue' = queue
    BY DEF SendNotify, NotifyOne, OnlyPc
  <2> QED
    BY <1>c, <2>1, <2>2, <2>3
<1>7. CASE \E r \in Receivers : StartRecv(r)
  BY <1>7, <1>b, <1>c DEF StartRecv, Goto
<1>8. CASE \E r \in Receivers : RecvPop(r)
  <2> PICK r \in Receivers : RecvPop(r)
    BY <1>8
  <2>1. /\ Asleep("sleepFull")' = Asleep("sleepFull") /\ closed' = closed
        /\ RoomWatchers' = RoomWatchers \cup {r} /\ r \notin RoomWatchers
    BY <1>b DEF RecvPop, Goto
  <2>2. Capacity <= Len(queue) + Cardinality(RoomWatchers)
    BY <2>1 DEF NoLostRoom
  <2>3. Cardinality(RoomWatchers') = Cardinality(RoomWatchers) + 1
    BY <1>a, <2>1, FS_AddElement
  <2>4. Len(queue') = Len(queue) - 1
    BY DEF RecvPop, TypeOK
  <2> QED
    BY <1>a, <1>b, <2>2, <2>3, <2>4
<1>9. CASE \E r \in Receivers : RecvClosed(r)
  BY <1>9 DEF RecvClosed
<1>10. CASE \E r \in Receivers : RecvNothing(r)
  BY <1>10, <1>b, <1>c DEF RecvNothing, Goto
<1>11. CASE \E r \in Receivers : RecvSleep(r)
  BY <1>11, <1>b, <1>c DEF RecvSleep, Goto, OnlyPc
<1>12. CASE \E r \in Receivers : RecvNotify(r)
  <2> PICK r \in Receivers : RecvNotify(r)
    BY <1>12
  <2>1. closed' = closed /\ queue' = queue /\ r \in RoomWatchers
    BY DEF RecvNotify, NotifyOne, OnlyPc
  <2>2. CASE Asleep("sleepFull") = {} /\ Goto(r, "idle")
    BY <1>b, <2>2 DEF Goto
  <2>3. CASE \E w \in Asleep("sleepFull") :
                pc' = [pc EXCEPT ![r] = "idle", ![w] = Awake("sleepFull")]
    <3> PICK w \in Asleep("sleepFull") :
                pc' = [pc EXCEPT ![r] = "idle", ![w] = Awake("sleepFull")]
      BY <2>3
    <3>1. w # r /\ w \in Threads /\ pc[r] = "notifyFull" /\ w \notin RoomWatchers
      BY DEF RecvNotify
    <3>2. RoomWatchers' = (RoomWatchers \ {r}) \cup {w}
      BY <1>b, <3>1 DEF Awake
    <3>3. Capacity <= Len(queue) + Cardinality(RoomWatchers)
      BY <2>1 DEF NoLostRoom
    <3>4. Cardinality(RoomWatchers') = Cardinality(RoomWatchers)
      <4> HIDE DEF RoomWatchers, Asleep, Threads
      <4>1. Cardinality((RoomWatchers \ {r}) \cup {w}) = Cardinality(RoomWatchers)
        BY <1>a, <2>1, <3>1, HandOver
      <4> QED
        BY <3>2, <4>1
    <3> QED
      BY <2>1, <3>3, <3>4
  <2> QED
    BY <2>2, <2>3 DEF RecvNotify, NotifyOne
<1>13. CASE \E t \in Threads : Close(t)
  BY <1>13 DEF Close
<1>14. CASE \E t \in Threads : CloseNotifyEmpty(t)
  BY <1>14, <1>b, <1>c DEF CloseNotifyEmpty, NotifyAll, Awake, OnlyPc
<1>15. CASE \E t \in Threads : CloseNotifyFull(t)
  BY <1>15, <1>b DEF CloseNotifyFull, NotifyAll, Awake
<1>16. CASE \E t \in Threads : Expire(t)
  BY <1>16, <1>c DEF Expire
<1>17. CASE \E t \in Threads : WaitReturns(t)
  BY <1>17, <1>b, <1>c DEF WaitReturns, Goto, Awake, OnlyPc
<1> QED
  BY <1>1, <1>2, <1>3, <1>4, <1>5, <1>6, <1>7, <1>8, <1>9, <1>10, <1>11,
     <1>12, <1>13, <1>14, <1>15, <1>16, <1>17
     DEF Next, SenderStep, ReceiverStep, CloserStep

\* A value is never left unwatched beside a sleeping receiver.
LEMMA ValueStep == TypeOK /\ OpInv /\ NoLostValue /\ Next => NoLostValue'
<1> SUFFICES ASSUME TypeOK, OpInv, NoLostValue, Next, Asleep("sleepEmpty")' # {}
             PROVE  Len(queue') <= Cardinality(ValueWatchers')
  BY DEF NoLostValue
<1>a. /\ IsFiniteSet(ValueWatchers) /\ Cardinality(ValueWatchers) \in Nat
      /\ IsFiniteSet(ValueWatchers') /\ Cardinality(ValueWatchers') \in Nat
  <2>1. ValueWatchers' \subseteq Threads
    BY DEF ValueWatchers
  <2> QED
    BY <2>1, WatchersFinite, ThreadsAssumption, FS_Subset, FS_CardinalityType
<1>b. Len(queue) \in Nat /\ pc \in [Threads -> Points]
  BY DEF TypeOK
\* nobody new falls asleep, the queue keeps its length, no watcher leaves
<1>c. ASSUME Asleep("sleepEmpty")' \subseteq Asleep("sleepEmpty"),
             queue' = queue, ValueWatchers \subseteq ValueWatchers'
      PROVE  Len(queue') <= Cardinality(ValueWatchers')
  <2>1. Len(queue) <= Cardinality(ValueWatchers)
    BY <1>c DEF NoLostValue
  <2>2. Cardinality(ValueWatchers) <= Cardinality(ValueWatchers')
    BY <1>a, <1>c, MoreWatchers
  <2> QED
    BY <1>a, <1>b, <1>c, <2>1, <2>2
\* the queue is empty
<1>d. ASSUME queue = <<>>, queue' = queue
      PROVE  Len(queue') <= Cardinality(ValueWatchers')
  BY <1>a, <1>d
<1> USE DEF Asleep, ValueWatchers, Threads
<1>1. CASE \E s \in Senders, k \in SendKinds : StartSend(s, k)
  BY <1>1, <1>b, <1>c DEF StartSend, Goto
<1>2. CASE \E s \in Senders : SendClosed(s)
  BY <1>2, <1>b, <1>c DEF SendClosed, Goto
<1>3. CASE \E s \in Senders : SendPush(s)
  <2> PICK s \in Senders : SendPush(s)
    BY <1>3
  <2>1. /\ Asleep("sleepEmpty")' = Asleep("sleepEmpty")
        /\ ValueWatchers' = ValueWatchers \cup {s} /\ s \notin ValueWatchers
    BY <1>b DEF SendPush, Goto
  <2>2. Len(queue) <= Cardinality(ValueWatchers)
    BY <2>1 DEF NoLostValue
  <2>3. Cardinality(ValueWatchers') = Cardinality(ValueWatchers) + 1
    BY <1>a, <2>1, FS_AddElement
  <2>4. Len(queue') = Len(queue) + 1
    BY DEF SendPush, TypeOK
  <2> QED
    BY <1>a, <1>b, <2>2, <2>3, <2>4
<1>4. CASE \E s \in Senders : SendFull(s)
  BY <1>4, <1>b, <1>c DEF SendFull, Goto
<1>5. CASE \E s \in Senders : SendSleep(s)
  BY <1>5, <1>b, <1>c DEF SendSleep, Goto, OnlyPc
<1>6. CASE \E s \in Senders : SendNotify(s)
  <2> PICK s \in Senders : SendNotify(s)
    BY <1>6
  <2>1. queue' = queue /\ s \in ValueWatchers
    BY DEF SendNotify, NotifyOne, OnlyPc
  <2>2. CASE Asleep("sleepEmpty") = {} /\ Goto(s, "idle")
    BY <1>b, <2>2 DEF Goto
  <2>3. CASE \E w \in Asleep("sleepEmpty") :
                pc' = [pc EXCEPT ![s] = "idle", ![w] = Awake("sleepEmpty")]
    <3> PICK w \in Asleep("sleepEmpty") :
                pc' = [pc EXCEPT ![s] = "idle", ![w] = Awake("sleepEmpty")]
      BY <2>3
    <3>1. w # s /\ w \in Threads /\ pc[s] = "notifyEmpty" /\ w \notin ValueWatchers
      BY DEF SendNotify
    <3>2. ValueWatchers' = (ValueWatchers \ {s}) \cup {w}
      BY <1>b, <3>1 DEF Awake
    <3>3. Len(queue) <= Cardinality(ValueWatchers)
      BY DEF NoLostValue
    <3>4. Cardinality(ValueWatchers') = Cardinality(ValueWatchers)
      <4> HIDE DEF ValueWatchers, Asleep, Threads
      <4>1. Cardinality((ValueWatchers \ {s}) \cup {w}) = Cardinality(ValueWatchers)
        BY <1>a, <2>1, <3>1, HandOver
      <4> QED
        BY <3>2, <4>1
    <3> QED
      BY <2>1, <3>3, <3>4
  <2> QED
    BY <2>2, <2>3 DEF SendNotify, NotifyOne
<1>7. CASE \E r \in Receivers : StartRecv(r)
  BY <1>7, <1>b, <1>c DEF StartRecv, Goto
<1>8. CASE \E r \in Receivers : RecvPop(r)
  <2> PICK r \in Receivers : RecvPop(r)
    BY <1>8
  <2>1. /\ Asleep("sleepEmpty")' = Asleep("sleepEmpty")
        /\ ValueWatchers' = ValueWatchers \ {r} /\ r \in ValueWatchers
    BY <1>b DEF RecvPop, Goto
  <2>2. Len(queue) <= Cardinality(ValueWatchers)
    BY <2>1 DEF NoLostValue
  <2>3. Cardinality(ValueWatchers') = Cardinality(ValueWatchers) - 1
    <3> HIDE DEF ValueWatchers, Asleep, Threads
    <3>1. Cardinality(ValueWatchers \ {r}) = Cardinality(ValueWatchers) - 1
      BY <1>a, <2>1, FS_RemoveElement
    <3> QED
      BY <2>1, <3>1
  <2>4. Len(queue') = Len(queue) - 1
    BY DEF RecvPop, TypeOK
  <2> QED
    BY <1>a, <1>b, <2>2, <2>3, <2>4
<1>9. CASE \E r \in Receivers : RecvClosed(r)
  BY <1>9, <1>d DEF RecvClosed
<1>10. CASE \E r \in Receivers : RecvNothing(r)
  BY <1>10, <1>d DEF RecvNothing
<1>11. CASE \E r \in Receivers : RecvSleep(r)
  BY <1>11, <1>d DEF RecvSleep, OnlyPc
<1>12. CASE \E r \in Receivers : RecvNotify(r)
  <2> PICK r \in Receivers : RecvNotify(r)
    BY <1>12
  <2>1. \A u \in Threads : pc'[u] = pc[u] \/ pc'[u] \in {"idle", "send"}
    BY <1>b DEF RecvNotify, NotifyOne, Awake, Goto
  <2>2. \A u \in Threads : pc[u] \in {"notifyEmpty", "recv"} => pc'[u] = pc[u]
    BY <1>b DEF RecvNotify, NotifyOne, Awake, Goto
  <2>3. queue' = queue
    BY DEF RecvNotify, NotifyOne, OnlyPc
  <2> QED
    BY <1>c, <2>1, <2>2, <2>3
<1>13. CASE \E t \in Threads : Close(t)
  BY <1>13, <1>b, <1>c DEF Close, Goto
<1>14. CASE \E t \in Threads : CloseNotifyEmpty(t)
  BY <1>14, <1>b DEF CloseNotifyEmpty, NotifyAll, Awake
<1>15. CASE \E t \in Threads : CloseNotifyFull(t)
  BY <1>15, <1>b, <1>c DEF CloseNotifyFull, NotifyAll, Awake, OnlyPc
<1>16. CASE \E t \in Threads : Expire(t)
  BY <1>16, <1>c DEF Expire
<1>17. CASE \E t \in Threads : WaitReturns(t)
  BY <1>17, <1>b, <1>c DEF WaitReturns, Goto, Awake, OnlyPc
<1> QED
  BY <1>1, <1>2, <1>3, <1>4, <1>5, <1>6, <1>7, <1>8, <1>9, <1>10, <1>11,
     <1>12, <1>13, <1>14, <1>15, <1>16, <1>17
     DEF Next, SenderStep, ReceiverStep, CloserStep

-----------------------------------------------------------------------------
(***************************************************************************)
(* The theorems.                                                           *)
(***************************************************************************)

\* A new inbox satisfies the invariant.
LEMMA InitInv == Init => IndInv
<1> SUFFICES ASSUME Init PROVE IndInv
  OBVIOUS
<1>1. NoOp \in Ops
  BY MaxSendsAssumption DEF NoOp, Ops
<1>2. TypeOK
  <2>1. pc \in [Threads -> Points] /\ op \in [Threads -> Ops]
    BY <1>1 DEF Init, Points
  <2>2. started \in 0..MaxSends /\ refused \in SUBSET (1..MaxSends)
    BY MaxSendsAssumption DEF Init
  <2>3. closed \in BOOLEAN /\ sawClosed \in BOOLEAN
    BY DEF Init
  <2>4. /\ queue \in Seq(1..MaxSends) /\ accepted \in Seq(1..MaxSends)
        /\ taken \in Seq(1..MaxSends)
    BY DEF Init
  <2> QED
    BY <2>1, <2>2, <2>3, <2>4 DEF TypeOK
<1>3. OpInv /\ ClosedInv /\ NobodySleepsThroughClose
  BY DEF Init, OpInv, ClosedInv, NobodySleepsThroughClose
<1>4. Bounded
  BY CapacityPositive DEF Init, Bounded
<1>5. FifoExactlyOnce
  BY DEF Init, FifoExactlyOnce
<1>6. NoLostRoom /\ NoLostValue
  BY DEF Init, NoLostRoom, NoLostValue, Asleep
<1> QED
  BY <1>2, <1>3, <1>4, <1>5, <1>6 DEF IndInv

\* Every step keeps it.
LEMMA NextInv == IndInv /\ [Next]_vars => IndInv'
<1> SUFFICES ASSUME IndInv, [Next]_vars PROVE IndInv'
  OBVIOUS
<1>1. CASE Next
  BY <1>1, TypeStep, OpStep, BoundedStep, FifoStep, ClosedStep, CloseStep,
     RoomStep, ValueStep DEF IndInv
<1>2. CASE UNCHANGED vars
  BY <1>2 DEF vars, IndInv, TypeOK, OpInv, Bounded, FifoExactlyOnce, ClosedInv,
     NoLostRoom, NoLostValue, NobodySleepsThroughClose, Asleep, RoomWatchers,
     ValueWatchers
<1> QED
  BY <1>1, <1>2

\* The inductive invariant of the inbox, for any threads and any capacity.
THEOREM Inductive == Spec => []IndInv
  BY InitInv, NextInv, PTL DEF Spec

\* Every variable keeps its type.
THEOREM TypeCorrect == Spec => []TypeOK
<1>1. IndInv => TypeOK
  BY DEF IndInv
<1> QED
  BY <1>1, Inductive, PTL

\* However many senders run and wake at once, the queue never exceeds the
\* capacity Inbox::new settled on.
THEOREM CapacityBound == Spec => []Bounded
<1>1. IndInv => Bounded
  BY DEF IndInv
<1> QED
  BY <1>1, Inductive, PTL

\* Values are delivered in order and exactly once.
THEOREM Fifo == Spec => []FifoExactlyOnce
<1>1. IndInv => FifoExactlyOnce
  BY DEF IndInv
<1> QED
  BY <1>1, Inductive, PTL

\* A recv that answers Closed leaves nothing behind, then and ever after.
THEOREM ClosedIsDrained == Spec => []ClosedMeansDrained
<1>1. IndInv => ClosedMeansDrained
  <2> SUFFICES ASSUME IndInv, sawClosed PROVE closed /\ taken = accepted
    BY DEF ClosedMeansDrained
  <2>1. closed /\ queue = <<>>
    BY DEF IndInv, ClosedInv
  <2>2. accepted = taken \o queue /\ taken \in Seq(1..MaxSends)
    BY DEF IndInv, FifoExactlyOnce, TypeOK
  <2> QED
    BY <2>1, <2>2
<1> QED
  BY <1>1, Inductive, PTL

\* The wake-ups of notify_one suffice: neither a free place beside a sleeping
\* sender nor a value beside a sleeping receiver goes unwatched.
THEOREM NoLostWakeups == Spec => []NoLostWakeup
<1>1. IndInv => NoLostWakeup
  BY DEF IndInv, NoLostWakeup
<1> QED
  BY <1>1, Inductive, PTL

\* Whoever sleeps in a closed inbox is still to be woken by the close.
THEOREM CloseWakesAll == Spec => []NobodySleepsThroughClose
<1>1. IndInv => NobodySleepsThroughClose
  BY DEF IndInv
<1> QED
  BY <1>1, Inductive, PTL

-----------------------------------------------------------------------------
(***************************************************************************)
(* Where the values are.  The three places are sets: the values in the     *)
(* hands of a sender, the accepted ones and the refused ones.  A send that *)
(* ends takes its value out of the first and puts it into one of the       *)
(* others, which empties the sender's hand for this value because no two   *)
(* senders hold the same one.                                              *)
(***************************************************************************)

Holders == {s \in Senders : pc[s] \in {"send", "sleepFull"}}
Hands == {op[s].val : s \in Holders}
AcceptedSet == {accepted[i] : i \in 1..Len(accepted)}

PlacesInv ==
    /\ \A s, t \in Holders : op[s].val = op[t].val => s = t
    /\ Hands \cup AcceptedSet \cup refused = 1..started
    /\ Hands \cap AcceptedSet = {}
    /\ Hands \cap refused = {}
    /\ AcceptedSet \cap refused = {}

\* The invariant says where every value is.
LEMMA PlacesSuffice == PlacesInv => ValuesAccountedFor
<1> SUFFICES ASSUME PlacesInv, NEW v \in 1..started PROVE Placed(v)
  BY DEF ValuesAccountedFor
<1>1. (\E s \in Senders : pc[s] \in {"send", "sleepFull"} /\ op[s].val = v)
        <=> v \in Hands
  BY DEF Hands, Holders
<1>2. (\E i \in 1..Len(accepted) : accepted[i] = v) <=> v \in AcceptedSet
  BY DEF AcceptedSet
<1>3. /\ v \in Hands \/ v \in AcceptedSet \/ v \in refused
      /\ ~(v \in Hands /\ v \in AcceptedSet)
      /\ ~(v \in Hands /\ v \in refused)
      /\ ~(v \in AcceptedSet /\ v \in refused)
  BY DEF PlacesInv
<1> QED
  BY <1>1, <1>2, <1>3, Zenon DEF Placed

\* A step that moves no sender into or out of a send, and no value.
LEMMA PlacesQuiet ==
    ASSUME PlacesInv, UNCHANGED <<accepted, refused, started>>, Holders' = Holders,
           \A s \in Holders : op'[s].val = op[s].val
    PROVE  PlacesInv'
<1>1. Hands' = Hands
  BY DEF Hands
<1>2. AcceptedSet' = AcceptedSet
  BY DEF AcceptedSet
<1> QED
  BY <1>1, <1>2 DEF PlacesInv

\* A sender that ends its send has nothing in its hands any more.
LEMMA HandEmptied ==
    ASSUME PlacesInv, NEW s \in Holders, Holders' = Holders \ {s},
           \A t \in Holders' : op'[t].val = op[t].val
    PROVE  /\ Hands' = Hands \ {op[s].val}
           /\ \A t, u \in Holders' : op'[t].val = op'[u].val => t = u
<1>1. \A t \in Holders : op[t].val = op[s].val => t = s
  BY DEF PlacesInv
<1>2. \A v : v \in Hands' <=> v \in Hands /\ v # op[s].val
  <2>1. \A v : v \in Hands' <=> \E t \in Holders' : v = op'[t].val
    BY DEF Hands
  <2>2. \A v : v \in Hands <=> \E t \in Holders : v = op[t].val
    BY DEF Hands
  <2> QED
    BY <1>1, <2>1, <2>2
<1>3. Hands' = Hands \ {op[s].val}
  BY <1>2
<1>4. \A t, u \in Holders' : op'[t].val = op'[u].val => t = u
  BY DEF PlacesInv
<1> QED
  BY <1>3, <1>4

\* Every step leaves every value in one place.
LEMMA PlacesStep == TypeOK /\ OpInv /\ PlacesInv /\ Next => PlacesInv'
<1> SUFFICES ASSUME TypeOK, OpInv, PlacesInv, Next PROVE PlacesInv'
  OBVIOUS
<1>a. pc \in [Threads -> Points] /\ op \in [Threads -> Ops] /\ Senders \subseteq Threads
  BY DEF TypeOK, Threads
<1>b. \A r \in Receivers : r \in Threads /\ r \notin Holders
  BY ThreadsAssumption DEF Threads, Holders
\* a step of one thread that stays in its send, or outside of one
<1>c. ASSUME NEW t \in Threads, NEW p, pc' = [pc EXCEPT ![t] = p],
             t \in Senders => (p \in {"send", "sleepFull"} <=> t \in Holders),
             UNCHANGED <<op, accepted, refused, started>>
      PROVE  PlacesInv'
  <2>1. Holders' = Holders
    BY <1>a, <1>c DEF Holders
  <2> QED
    BY <1>c, <2>1, PlacesQuiet
\* a step of a receiver
<1>d. ASSUME NEW r \in Receivers, NEW p, NEW o, pc' = [pc EXCEPT ![r] = p],
             op' = [op EXCEPT ![r] = o], UNCHANGED <<accepted, refused, started>>
      PROVE  PlacesInv'
  <2>1. \A s \in Senders : s \in Threads /\ s # r
    BY ThreadsAssumption DEF Threads
  <2>2. \A s \in Senders : pc'[s] = pc[s] /\ op'[s] = op[s]
    BY <1>a, <1>d, <2>1
  <2>3. Holders' = Holders /\ \A s \in Holders : op'[s].val = op[s].val
    BY <2>2 DEF Holders
  <2> QED
    BY <1>d, <2>3, PlacesQuiet
\* a sender gives its value back
<1>e. ASSUME NEW s \in Senders, pc[s] = "send", pc' = [pc EXCEPT ![s] = "idle"],
             op' = [op EXCEPT ![s] = NoOp], refused' = refused \cup {op[s].val},
             UNCHANGED <<accepted, started>>
      PROVE  PlacesInv'
  <2>1. s \in Holders /\ Holders' = Holders \ {s}
    BY <1>a, <1>e DEF Holders
  <2>2. \A t \in Holders' : op'[t].val = op[t].val
    BY <1>a, <1>e, <2>1 DEF Holders
  <2>3. /\ Hands' = Hands \ {op[s].val}
        /\ \A t, u \in Holders' : op'[t].val = op'[u].val => t = u
    BY <2>1, <2>2, HandEmptied
  <2>4. op[s].val \in Hands
    BY <2>1 DEF Hands
  <2>5. AcceptedSet' = AcceptedSet
    BY <1>e DEF AcceptedSet
  <2> QED
    BY <1>e, <2>3, <2>4, <2>5 DEF PlacesInv
\* notifications move waiters back into the body of their loop
<1>f. ASSUME \A s \in Senders : \/ pc'[s] = pc[s]
                                \/ /\ pc[s] \in {"send", "sleepFull"}
                                   /\ pc'[s] \in {"send", "sleepFull"}
                                \/ /\ pc[s] \notin {"send", "sleepFull"}
                                   /\ pc'[s] \notin {"send", "sleepFull"},
             UNCHANGED <<op, accepted, refused, started>>
      PROVE  PlacesInv'
  <2>1. Holders' = Holders
    BY <1>f DEF Holders
  <2> QED
    BY <1>f, <2>1, PlacesQuiet
<1>1. CASE \E s \in Senders, k \in SendKinds : StartSend(s, k)
  <2> PICK s \in Senders, k \in SendKinds : StartSend(s, k)
    BY <1>1
  <2>0. PICK n : n = started + 1
    OBVIOUS
  <2>1. /\ pc[s] = "idle" /\ pc' = [pc EXCEPT ![s] = "send"] /\ started' = n
        /\ op' = [op EXCEPT ![s] = [kind |-> k, val |-> n, expired |-> FALSE]]
        /\ UNCHANGED <<accepted, refused>>
    BY <2>0 DEF StartSend, Goto
  <2>2. s \notin Holders /\ Holders' = Holders \cup {s}
    BY <1>a, <2>1 DEF Holders
  <2>3. op'[s].val = n /\ \A t \in Holders : op'[t].val = op[t].val
    BY <1>a, <2>1, <2>2 DEF Holders
  <2>4. \A v : v \in Hands' <=> v \in Hands \/ v = n
    BY <2>2, <2>3 DEF Hands
  <2>5. n \notin 1..started /\ 1..started' = (1..started) \cup {n}
    BY <2>0, <2>1, MaxSendsAssumption DEF TypeOK
  <2>6. AcceptedSet' = AcceptedSet
    BY <2>1 DEF AcceptedSet
  <2>7. n \notin Hands /\ n \notin AcceptedSet /\ n \notin refused
    BY <2>5 DEF PlacesInv
  <2>8. \A t \in Holders : op[t].val # n
    BY <2>7 DEF Hands
  <2>9. \A t, u \in Holders' : op'[t].val = op'[u].val => t = u
    BY <2>2, <2>3, <2>8 DEF PlacesInv
  <2>10. Hands' \cup AcceptedSet' \cup refused' = 1..started'
    BY <2>1, <2>4, <2>5, <2>6 DEF PlacesInv
  <2>11. /\ Hands' \cap AcceptedSet' = {} /\ Hands' \cap refused' = {}
         /\ AcceptedSet' \cap refused' = {}
    BY <2>1, <2>4, <2>6, <2>7 DEF PlacesInv
  <2> QED
    BY <2>9, <2>10, <2>11 DEF PlacesInv
<1>2. CASE \E s \in Senders : SendClosed(s) \/ SendFull(s)
  BY <1>2, <1>e DEF SendClosed, SendFull, Finish, Goto
<1>3. CASE \E s \in Senders : SendPush(s)
  <2> PICK s \in Senders : SendPush(s)
    BY <1>3
  <2>0. PICK v : v = op[s].val
    OBVIOUS
  <2>1. /\ pc[s] = "send" /\ pc' = [pc EXCEPT ![s] = "notifyEmpty"]
        /\ op' = [op EXCEPT ![s] = NoOp] /\ accepted' = Append(accepted, v)
        /\ UNCHANGED <<started, refused>>
    BY <2>0 DEF SendPush, Finish, Goto
  <2>2. s \in Holders /\ Holders' = Holders \ {s}
    BY <1>a, <2>1 DEF Holders
  <2>3. \A t \in Holders' : op'[t].val = op[t].val
    BY <1>a, <2>1, <2>2 DEF Holders
  <2>4. /\ Hands' = Hands \ {v}
        /\ \A t, u \in Holders' : op'[t].val = op'[u].val => t = u
    BY <2>0, <2>2, <2>3, HandEmptied
  <2>5. v \in Hands
    BY <2>0, <2>2 DEF Hands
  <2>6. v \in 1..MaxSends /\ accepted \in Seq(1..MaxSends)
    BY <2>0, <2>1, MaxSendsAssumption DEF TypeOK, OpInv, Threads
  <2>7. /\ Len(accepted) \in Nat /\ Len(accepted') = Len(accepted) + 1
        /\ \A i \in 1..Len(accepted) : accepted'[i] = accepted[i]
        /\ accepted'[Len(accepted) + 1] = v
    BY <2>1, <2>6, AppendProperties, LenProperties
  <2>8. \A i : i \in 1..Len(accepted') <=> i \in 1..Len(accepted) \/ i = Len(accepted) + 1
    BY <2>7
  <2>9. \A x : x \in AcceptedSet' <=> x \in AcceptedSet \/ x = v
    <3>1. \A x : x \in AcceptedSet' <=> \E i \in 1..Len(accepted') : x = accepted'[i]
      BY DEF AcceptedSet
    <3>2. \A x : x \in AcceptedSet <=> \E i \in 1..Len(accepted) : x = accepted[i]
      BY DEF AcceptedSet
    <3> QED
      BY <2>7, <2>8, <3>1, <3>2, Zenon
  <2> QED
    BY <2>1, <2>4, <2>5, <2>9 DEF PlacesInv
<1>4. CASE \E s \in Senders : SendSleep(s)
  <2> PICK s \in Senders : SendSleep(s)
    BY <1>4
  <2>1. s \in Holders /\ pc' = [pc EXCEPT ![s] = "sleepFull"] /\ s \in Threads
        /\ UNCHANGED <<op, accepted, refused, started>>
    BY <1>a DEF SendSleep, Goto, OnlyPc, Holders
  <2> QED
    BY <1>c, <2>1
<1>5. CASE \E s \in Senders : SendNotify(s)
  <2> PICK s \in Senders : SendNotify(s)
    BY <1>5
  <2>1. \A u \in Threads : \/ pc'[u] = pc[u]
                           \/ pc[u] = "sleepEmpty" /\ pc'[u] = "recv"
                           \/ pc[u] = "notifyEmpty" /\ pc'[u] = "idle"
    BY <1>a DEF SendNotify, NotifyOne, Asleep, Awake, Goto
  <2>2. UNCHANGED <<op, accepted, refused, started>>
    BY DEF SendNotify, NotifyOne, OnlyPc
  <2> QED
    BY <1>a, <1>f, <2>1, <2>2
<1>6. CASE \E r \in Receivers : StartRecv(r) \/ RecvPop(r) \/ RecvClosed(r) \/ RecvNothing(r)
  BY <1>6, <1>d DEF StartRecv, RecvPop, RecvClosed, RecvNothing, Finish, Goto
<1>7. CASE \E r \in Receivers : RecvSleep(r)
  <2> PICK r \in Receivers : RecvSleep(r)
    BY <1>7
  <2>1. pc' = [pc EXCEPT ![r] = "sleepEmpty"] /\ UNCHANGED <<op, accepted, refused, started>>
    BY DEF RecvSleep, Goto, OnlyPc
  <2>2. r \in Threads /\ r \notin Senders
    BY ThreadsAssumption DEF Threads
  <2> QED
    BY <1>c, <2>1, <2>2
<1>8. CASE \E r \in Receivers : RecvNotify(r)
  <2> PICK r \in Receivers : RecvNotify(r)
    BY <1>8
  <2>1. \A u \in Threads : \/ pc'[u] = pc[u]
                           \/ pc[u] = "sleepFull" /\ pc'[u] = "send"
                           \/ pc[u] = "notifyFull" /\ pc'[u] = "idle"
    BY <1>a DEF RecvNotify, NotifyOne, Asleep, Awake, Goto
  <2>2. UNCHANGED <<op, accepted, refused, started>>
    BY DEF RecvNotify, NotifyOne, OnlyPc
  <2> QED
    BY <1>a, <1>f, <2>1, <2>2
<1>9. CASE \E t \in Threads : Close(t)
  <2> PICK t \in Threads : Close(t)
    BY <1>9
  <2>1. t \notin Holders /\ pc' = [pc EXCEPT ![t] = "closeEmpty"]
        /\ UNCHANGED <<op, accepted, refused, started>>
    BY DEF Close, Goto, Holders
  <2> QED
    BY <1>c, <2>1
<1>10. CASE \E t \in Threads : CloserStep(t)
  <2> PICK t \in Threads : CloserStep(t)
    BY <1>10
  <2>1. \A u \in Threads : \/ pc'[u] = pc[u]
                           \/ pc[u] = "sleepFull" /\ pc'[u] = "send"
                           \/ pc[u] = "sleepEmpty" /\ pc'[u] = "recv"
                           \/ /\ pc[u] \in {"closeEmpty", "closeFull"}
                              /\ pc'[u] \in {"closeFull", "idle"}
    BY <1>a DEF CloserStep, CloseNotifyEmpty, CloseNotifyFull, NotifyAll, Awake
  <2>2. UNCHANGED <<op, accepted, refused, started>>
    BY DEF CloserStep, CloseNotifyEmpty, CloseNotifyFull, NotifyAll, OnlyPc
  <2> QED
    BY <1>a, <1>f, <2>1, <2>2
<1>11. CASE \E t \in Threads : Expire(t)
  <2> PICK t \in Threads : Expire(t)
    BY <1>11
  <2>1. Holders' = Holders /\ UNCHANGED <<accepted, refused, started>>
    BY DEF Expire, Holders
  <2>2. op' = [op EXCEPT ![t] = [op[t] EXCEPT !.expired = TRUE]]
    BY DEF Expire
  <2>3. op[t] \in Ops /\ [op[t] EXCEPT !.expired = TRUE].val = op[t].val
    BY <1>a DEF Ops
  <2>4. \A s \in Holders : op'[s].val = op[s].val
    BY <1>a, <2>2, <2>3 DEF Holders
  <2> QED
    BY <2>1, <2>4, PlacesQuiet
<1>12. CASE \E t \in Threads : WaitReturns(t)
  <2> PICK t \in Threads : WaitReturns(t)
    BY <1>12
  <2>1. \A u \in Threads : \/ pc'[u] = pc[u]
                           \/ pc[u] = "sleepFull" /\ pc'[u] = "send"
                           \/ pc[u] = "sleepEmpty" /\ pc'[u] = "recv"
    BY <1>a DEF WaitReturns, Goto, Awake
  <2>2. UNCHANGED <<op, accepted, refused, started>>
    BY DEF WaitReturns, OnlyPc
  <2> QED
    BY <1>a, <1>f, <2>1, <2>2
<1> QED
  BY <1>1, <1>2, <1>3, <1>4, <1>5, <1>6, <1>7, <1>8, <1>9, <1>10, <1>11, <1>12
     DEF Next, SenderStep, ReceiverStep

\* No value is lost or doubled on the way through a send: when the send is over
\* it was accepted or handed back, never both and never neither, whatever
\* deadlines, wake-ups and closes it raced (Inbox::send_timeout).
THEOREM NoValueLost == Spec => []ValuesAccountedFor
<1>1. Init => PlacesInv
  <2> SUFFICES ASSUME Init PROVE PlacesInv
    OBVIOUS
  <2>1. Holders = {} /\ Hands = {} /\ AcceptedSet = {} /\ refused = {}
    <3>1. Holders = {} /\ refused = {}
      BY DEF Init, Holders, Threads
    <3>2. Len(accepted) = 0
      BY DEF Init
    <3>3. 1..Len(accepted) = {}
      BY <3>2
    <3> QED
      BY <3>1, <3>3 DEF Hands, AcceptedSet
  <2>2. 1..started = {}
    BY DEF Init
  <2> QED
    BY <2>1, <2>2 DEF PlacesInv
<1>2. IndInv /\ PlacesInv /\ [Next]_vars => PlacesInv'
  <2> SUFFICES ASSUME IndInv, PlacesInv, [Next]_vars PROVE PlacesInv'
    OBVIOUS
  <2>1. CASE Next
    BY <2>1, PlacesStep DEF IndInv
  <2>2. CASE UNCHANGED vars
    BY <2>2, PlacesQuiet DEF vars, Holders
  <2> QED
    BY <2>1, <2>2
<1>3. Spec => []PlacesInv
  BY <1>1, <1>2, Inductive, PTL DEF Spec
<1> QED
  BY <1>3, PlacesSuffice, PTL

=============================================================================
