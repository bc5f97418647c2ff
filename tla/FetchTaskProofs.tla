--------------------------- MODULE FetchTaskProofs ---------------------------
(***************************************************************************)
(* Proofs about FetchTask, for any number of requests and permits, chunks, *)
(* reads, queues and bodies of any size.                                   *)
(*                                                                         *)
(* Capacity first.  A request holds a permit while its thread is between   *)
(* admission and spawn, or while its task has yet to pass the first step   *)
(* of the guard; it is counted while its task has yet to pass the second.  *)
(* Every action of the model either leaves both sets alone (Quiet), or is  *)
(* one of the four that move exactly one request in or out of one of them  *)
(* together with the counter.  What makes the two sets disjoint unions of  *)
(* requests is that a request which has not been spawned has no task.      *)
(***************************************************************************)
EXTENDS FetchTask, FiniteSetTheorems, SequenceTheorems, TLAPS

Held == {r \in Reqs : HoldsPermit(r)}
Flying == {r \in Reqs : Counted(r)}

\* The task has an open connection, or the error of one, and its whole guard
\* still ahead.
Working == {"push", "eof", "fail", "permit"} \cup Awaits

PointsOK ==
    /\ tpc \in [Reqs -> TaskPoints]
    /\ lpc \in [Reqs -> LispPoints]
    /\ rtUp \in BOOLEAN
    /\ admission \in Nat
    /\ inFlight \in Nat

\* A request that has not been spawned has no task.
NoTaskBeforeSpawn ==
    \A r \in Reqs : lpc[r] \in {"idle", "admit", "spawn"} => tpc[r] = "none"

CapacityInv == PointsOK /\ NoTaskBeforeSpawn /\ CapacityAccountedFor

-----------------------------------------------------------------------------

\* The sets of holders and of counted requests are finite.
LEMMA SetsFinite ==
    /\ IsFiniteSet(Held) /\ Cardinality(Held) \in Nat
    /\ IsFiniteSet(Flying) /\ Cardinality(Flying) \in Nat
<1>1. Held \subseteq Reqs /\ Flying \subseteq Reqs
  BY DEF Held, Flying
<1>2. IsFiniteSet(Held) /\ IsFiniteSet(Flying)
  BY <1>1, FS_Subset, ReqsAssumption
<1> QED  BY <1>2, FS_CardinalityType

LEMMA SetsFiniteAfter ==
    /\ IsFiniteSet(Held') /\ Cardinality(Held') \in Nat
    /\ IsFiniteSet(Flying') /\ Cardinality(Flying') \in Nat
<1>1. Held' \subseteq Reqs /\ Flying' \subseteq Reqs
  BY DEF Held, Flying
<1>2. IsFiniteSet(Held') /\ IsFiniteSet(Flying')
  BY <1>1, FS_Subset, ReqsAssumption
<1> QED  BY <1>2, FS_CardinalityType

\* CapacityAccountedFor, with its sets by name.
LEMMA CapacityByName ==
    CapacityAccountedFor <=>
        /\ inFlight = Cardinality(Flying)
        /\ admission + Cardinality(Held) <= MaxInFlight
        /\ rtUp => admission + Cardinality(Held) = MaxInFlight
  BY DEF CapacityAccountedFor, Held, Flying

LEMMA CapacityByNameAfter ==
    CapacityAccountedFor' <=>
        /\ inFlight' = Cardinality(Flying')
        /\ admission' + Cardinality(Held') <= MaxInFlight
        /\ rtUp' => admission' + Cardinality(Held') = MaxInFlight
  BY DEF CapacityAccountedFor, Held, Flying

\* A step that leaves the counters alone and moves no request into or out of
\* the two sets keeps the accounts.
LEMMA QuietKeeps ==
    ASSUME CapacityAccountedFor, Held' = Held, Flying' = Flying,
           UNCHANGED <<admission, inFlight, rtUp>>
    PROVE  CapacityAccountedFor'
  BY CapacityByName, CapacityByNameAfter

\* The task of a request goes on working.
LEMMA WorkKeeps ==
    ASSUME CapacityInv, NEW r \in Reqs, NEW p \in Working, tpc[r] \in Working,
           tpc' = [tpc EXCEPT ![r] = p],
           UNCHANGED <<lpc, admission, inFlight, rtUp>>
    PROVE  CapacityInv'
<1>1. PointsOK'
  BY DEF CapacityInv, PointsOK, Working, TaskPoints, Awaits
<1>2. NoTaskBeforeSpawn'
  BY DEF CapacityInv, PointsOK, NoTaskBeforeSpawn, Working, Awaits
<1>3. \A s \in Reqs : /\ HoldsPermit(s)' <=> HoldsPermit(s)
                      /\ Counted(s)' <=> Counted(s)
  BY DEF CapacityInv, PointsOK, HoldsPermit, Counted, Working, Awaits
<1>4. Held' = Held /\ Flying' = Flying
  BY <1>3 DEF Held, Flying
<1>5. CapacityAccountedFor'
  BY <1>4, QuietKeeps DEF CapacityInv
<1> QED  BY <1>1, <1>2, <1>5 DEF CapacityInv

\* The Lisp thread of a request moves, neither into nor out of "spawn".
LEMMA LispKeeps ==
    ASSUME CapacityInv, NEW r \in Reqs, NEW p \in LispPoints \ {"spawn"},
           lpc[r] # "spawn",
           lpc' = [lpc EXCEPT ![r] = p],
           p \in {"idle", "admit"} => tpc[r] = "none",
           UNCHANGED <<tpc, admission, inFlight, rtUp>>
    PROVE  CapacityInv'
<1>1. PointsOK'
  BY DEF CapacityInv, PointsOK
<1>2. NoTaskBeforeSpawn'
  BY DEF CapacityInv, PointsOK, NoTaskBeforeSpawn
<1>3. \A s \in Reqs : /\ HoldsPermit(s)' <=> HoldsPermit(s)
                      /\ Counted(s)' <=> Counted(s)
  BY DEF CapacityInv, PointsOK, HoldsPermit, Counted
<1>4. Held' = Held /\ Flying' = Flying
  BY <1>3 DEF Held, Flying
<1>5. CapacityAccountedFor'
  BY <1>4, QuietKeeps DEF CapacityInv
<1> QED  BY <1>1, <1>2, <1>5 DEF CapacityInv

-----------------------------------------------------------------------------

LEMMA CapacityInit == Init => CapacityInv
<1> SUFFICES ASSUME Init PROVE CapacityInv
  OBVIOUS
<1>1. PointsOK
  BY SizesAssumption DEF Init, PointsOK, TaskPoints, LispPoints
<1>2. NoTaskBeforeSpawn
  BY DEF Init, NoTaskBeforeSpawn
<1>3. Held = {} /\ Flying = {}
  BY DEF Init, Held, Flying, HoldsPermit, Counted
<1>4. CapacityAccountedFor
  BY <1>3, FS_EmptySet, CapacityByName, SizesAssumption DEF Init
<1> QED  BY <1>1, <1>2, <1>4 DEF CapacityInv

LEMMA AdmitKeeps ==
    ASSUME CapacityInv, NEW r \in Reqs, Admit(r)
    PROVE  CapacityInv'
<1>1. CASE admission > 0
  <2>1. /\ lpc[r] = "admit" /\ lpc' = [lpc EXCEPT ![r] = "spawn"]
        /\ admission' = admission - 1
        /\ UNCHANGED <<tpc, inFlight, rtUp>>
    BY <1>1 DEF Admit, Lisp, taskVars
  <2>2. PointsOK'
    BY <1>1, <2>1 DEF CapacityInv, PointsOK, LispPoints
  <2>3. NoTaskBeforeSpawn'
    BY <2>1 DEF CapacityInv, PointsOK, NoTaskBeforeSpawn
  <2>4. tpc[r] = "none"
    BY <2>1 DEF CapacityInv, NoTaskBeforeSpawn
  <2>5. r \notin Held /\ Held' = Held \cup {r} /\ Flying' = Flying
    BY <2>1, <2>4 DEF CapacityInv, PointsOK, Held, Flying, HoldsPermit, Counted
  <2>6. Cardinality(Held') = Cardinality(Held) + 1
    BY <2>5, SetsFinite, FS_AddElement
  <2>7. CapacityAccountedFor'
    BY <2>1, <2>5, <2>6, SetsFinite, CapacityByName, CapacityByNameAfter,
       SizesAssumption DEF CapacityInv, PointsOK
  <2> QED  BY <2>2, <2>3, <2>7 DEF CapacityInv
<1>2. CASE ~(admission > 0)
  <2>1. /\ lpc[r] = "admit" /\ lpc' = [lpc EXCEPT ![r] = "returned"]
        /\ UNCHANGED <<tpc, admission, inFlight, rtUp>>
    BY <1>2 DEF Admit, Refused, Lisp, taskVars
  <2> QED  BY <2>1, LispKeeps DEF LispPoints
<1> QED  BY <1>1, <1>2

LEMMA SpawnKeeps ==
    ASSUME CapacityInv, NEW r \in Reqs, Spawn(r)
    PROVE  CapacityInv'
<1>1. tpc[r] = "none" /\ lpc[r] = "spawn" /\ rtUp' = rtUp /\ admission' = admission
  BY DEF Spawn, CapacityInv, NoTaskBeforeSpawn
<1>2. CASE rtUp
  <2>1. /\ \E p \in {"test", "read"} : lpc' = [lpc EXCEPT ![r] = p]
        /\ tpc' = [tpc EXCEPT ![r] = "head"]
        /\ inFlight' = inFlight + 1
    BY <1>2 DEF Spawn, Task, Lisp
  <2>2. PointsOK'
    BY <1>1, <2>1 DEF CapacityInv, PointsOK, TaskPoints, LispPoints, Awaits
  <2>3. NoTaskBeforeSpawn'
    BY <2>1 DEF CapacityInv, PointsOK, NoTaskBeforeSpawn
  <2>4. r \notin Flying /\ Flying' = Flying \cup {r} /\ Held' = Held
    BY <1>1, <2>1 DEF CapacityInv, PointsOK, Held, Flying, HoldsPermit, Counted
  <2>5. Cardinality(Flying') = Cardinality(Flying) + 1
    BY <2>4, SetsFinite, FS_AddElement
  <2>6. CapacityAccountedFor'
    BY <1>1, <2>1, <2>4, <2>5, CapacityByName, CapacityByNameAfter
       DEF CapacityInv
  <2> QED  BY <2>2, <2>3, <2>6 DEF CapacityInv
<1>3. CASE ~rtUp
  <2>1. /\ lpc' = [lpc EXCEPT ![r] = "returned"]
        /\ UNCHANGED <<tpc, inFlight>>
    BY <1>3 DEF Spawn, Refused, Lisp
  <2>2. PointsOK'
    BY <1>1, <2>1 DEF CapacityInv, PointsOK, LispPoints
  <2>3. NoTaskBeforeSpawn'
    BY <2>1 DEF CapacityInv, PointsOK, NoTaskBeforeSpawn
  <2>4. r \in Held /\ Held' = Held \ {r} /\ Flying' = Flying
    BY <1>1, <2>1 DEF CapacityInv, PointsOK, Held, Flying, HoldsPermit, Counted
  <2>5. Cardinality(Held') = Cardinality(Held) - 1
    BY <2>4, SetsFinite, FS_RemoveElement
  <2>6. CapacityAccountedFor'
    BY <1>1, <1>3, <2>1, <2>4, <2>5, SetsFinite, CapacityByName,
       CapacityByNameAfter, SizesAssumption DEF CapacityInv, PointsOK
  <2> QED  BY <2>2, <2>3, <2>6 DEF CapacityInv
<1> QED  BY <1>2, <1>3 DEF CapacityInv, PointsOK

\* The guard gives the permit back.
LEMMA ReturnPermitKeeps ==
    ASSUME CapacityInv, NEW r \in Reqs, ReturnPermit(r)
    PROVE  CapacityInv'
<1>1. /\ tpc[r] = "permit" /\ tpc' = [tpc EXCEPT ![r] = "leave"]
      /\ admission' = admission + 1
      /\ UNCHANGED <<lpc, inFlight, rtUp>>
  BY DEF ReturnPermit, Task, lispVars
<1>2. PointsOK'
  BY <1>1 DEF CapacityInv, PointsOK, TaskPoints
<1>3. NoTaskBeforeSpawn'
  BY <1>1 DEF CapacityInv, PointsOK, NoTaskBeforeSpawn
<1>4. lpc[r] # "spawn"
  BY <1>1 DEF CapacityInv, NoTaskBeforeSpawn
<1>5. r \in Held /\ Held' = Held \ {r} /\ Flying' = Flying
  BY <1>1, <1>4 DEF CapacityInv, PointsOK, Held, Flying, HoldsPermit, Counted
<1>6. Cardinality(Held') = Cardinality(Held) - 1
  BY <1>5, SetsFinite, FS_RemoveElement
<1>7. CapacityAccountedFor'
  BY <1>1, <1>5, <1>6, SetsFinite, CapacityByName, CapacityByNameAfter,
     SizesAssumption DEF CapacityInv, PointsOK
<1> QED  BY <1>2, <1>3, <1>7 DEF CapacityInv

\* The guard leaves the in-flight count.
LEMMA LeaveFlightKeeps ==
    ASSUME CapacityInv, NEW r \in Reqs, LeaveFlight(r)
    PROVE  CapacityInv'
<1>1. /\ tpc[r] = "leave" /\ tpc' = [tpc EXCEPT ![r] = "announce"]
      /\ inFlight' = inFlight - 1
      /\ UNCHANGED <<lpc, admission, rtUp>>
  BY DEF LeaveFlight, Task, lispVars
<1>2. NoTaskBeforeSpawn'
  BY <1>1 DEF CapacityInv, PointsOK, NoTaskBeforeSpawn
<1>3. lpc[r] # "spawn"
  BY <1>1 DEF CapacityInv, NoTaskBeforeSpawn
<1>4. r \in Flying /\ Flying' = Flying \ {r} /\ Held' = Held
  BY <1>1, <1>3 DEF CapacityInv, PointsOK, Held, Flying, HoldsPermit, Counted
<1>5. Cardinality(Flying') = Cardinality(Flying) - 1
  BY <1>4, SetsFinite, FS_RemoveElement
<1>6. CapacityAccountedFor' /\ inFlight' \in Nat
  BY <1>1, <1>4, <1>5, SetsFiniteAfter, CapacityByName, CapacityByNameAfter
     DEF CapacityInv
<1>7. PointsOK'
  BY <1>1, <1>6 DEF CapacityInv, PointsOK, TaskPoints
<1> QED  BY <1>2, <1>6, <1>7 DEF CapacityInv

\* The last two steps of the guard.
LEMMA GuardEndKeeps ==
    ASSUME CapacityInv, NEW r \in Reqs, Announce(r) \/ SettleGuard(r)
    PROVE  CapacityInv'
<1>1. /\ tpc[r] \in {"announce", "settle"}
      /\ \E p \in {"settle", "done"} : tpc' = [tpc EXCEPT ![r] = p]
      /\ UNCHANGED <<lpc, admission, inFlight, rtUp>>
  BY DEF Announce, SettleGuard, Task, lispVars, clientVars
<1>2. PointsOK'
  BY <1>1 DEF CapacityInv, PointsOK, TaskPoints
<1>3. NoTaskBeforeSpawn'
  BY <1>1 DEF CapacityInv, PointsOK, NoTaskBeforeSpawn
<1>4. Held' = Held /\ Flying' = Flying
  BY <1>1 DEF CapacityInv, PointsOK, Held, Flying, HoldsPermit, Counted
<1>5. CapacityAccountedFor'
  BY <1>1, <1>4, QuietKeeps DEF CapacityInv
<1> QED  BY <1>2, <1>3, <1>5 DEF CapacityInv

-----------------------------------------------------------------------------

LEMMA WorldStepKeeps ==
    ASSUME CapacityInv, NEW r \in Reqs, WorldStep(r)
    PROVE  CapacityInv'
<1>1. CASE ResponseHead(r) \/ StreamEnds(r) \/ IoFails(r)
  <2>1. /\ tpc[r] \in Working
        /\ \E p \in Working : tpc' = [tpc EXCEPT ![r] = p]
        /\ UNCHANGED <<lpc, admission, inFlight, rtUp>>
    BY <1>1 DEF ResponseHead, StreamEnds, IoFails, Fail, Task, OnlyTpc, Working,
                Awaits, clientVars, lispVars
  <2> QED  BY <2>1, WorkKeeps
<1>2. ASSUME NEW n \in ChunkSizes, Receive(r, n)
      PROVE  CapacityInv'
  <2>1. /\ tpc[r] \in Working
        /\ \E p \in Working : tpc' = [tpc EXCEPT ![r] = p]
        /\ UNCHANGED <<lpc, admission, inFlight, rtUp>>
    BY <1>2 DEF Receive, Fail, Task, Working, Awaits, clientVars, lispVars
  <2> QED  BY <2>1, WorkKeeps
<1> QED  BY <1>1, <1>2 DEF WorldStep

LEMMA TaskStepKeeps ==
    ASSUME CapacityInv, NEW r \in Reqs, TaskStep(r)
    PROVE  CapacityInv'
<1>1. CASE \/ Create(r) \/ Write(r) \/ AcquireSlot(r) \/ Stall(r) \/ Push(r)
           \/ Flush(r) \/ Eof(r) \/ SettleError(r) \/ SeeCancel(r)
           \/ RuntimeDrops(r)
  <2>1. tpc[r] \in Working /\ UNCHANGED <<lpc, admission, inFlight, rtUp>>
    BY <1>1 DEF Create, Write, AcquireSlot, Stall, Push, Flush, Eof, SettleError,
                SeeCancel, RuntimeDrops, OnlyTpc, Working, Awaits,
                clientVars, lispVars
  <2>2. \E p \in Working : tpc' = [tpc EXCEPT ![r] = p]
    BY <1>1 DEF Create, Write, AcquireSlot, Stall, Push, Flush, Eof, SettleError,
                SeeCancel, RuntimeDrops, Fail, Task, Working, Awaits
  <2> QED  BY <2>1, <2>2, WorkKeeps
<1> QED  BY <1>1, ReturnPermitKeeps, LeaveFlightKeeps, GuardEndKeeps DEF TaskStep

LEMMA LispStepKeeps ==
    ASSUME CapacityInv, NEW r \in Reqs,
           LispStep(r) \/ Unwind(r) \/ (\E b \in BOOLEAN : Start(r, b))
    PROVE  CapacityInv'
<1>1. CASE \/ ReadChunk(r) \/ GiveBack(r) \/ ReadNothing(r) \/ TestDone(r)
           \/ Verify(r) \/ FreeReq(r) \/ Unwind(r)
  <2>1. /\ lpc[r] \in LispPoints \ {"spawn"}
        /\ UNCHANGED <<tpc, admission, inFlight, rtUp>>
    BY <1>1 DEF ReadChunk, GiveBack, ReadNothing, TestDone, Verify, FreeReq,
                Unwind, LispPoints, clientVars, taskVars
  <2>2. \E p \in LispPoints \ {"idle", "admit", "spawn"} :
            lpc' = [lpc EXCEPT ![r] = p]
    BY <1>1 DEF ReadChunk, GiveBack, ReadNothing, TestDone, Verify, FreeReq,
                Unwind, Signal, Lisp, LispPoints
  <2> QED  BY <2>1, <2>2, LispKeeps
<1>2. ASSUME NEW b \in BOOLEAN, Start(r, b)
      PROVE  CapacityInv'
  <2>1. /\ lpc[r] = "idle" /\ tpc[r] = "none"
        /\ \E p \in {"admit", "returned"} : lpc' = [lpc EXCEPT ![r] = p]
        /\ UNCHANGED <<tpc, admission, inFlight, rtUp>>
    BY <1>2 DEF Start, Refused, Lisp, CapacityInv, NoTaskBeforeSpawn, clientVars,
                taskVars
  <2> QED  BY <2>1, LispKeeps DEF LispPoints
<1> QED  BY <1>1, <1>2, AdmitKeeps, SpawnKeeps DEF LispStep

\* Cancellations, collected ids and the closing client.
LEMMA OthersKeep ==
    ASSUME CapacityInv,
           \/ \E r \in Reqs : Cancel(r)
           \/ NextReady \/ ShutDown \/ CloserStep \/ UNCHANGED vars
    PROVE  CapacityInv'
<1>1. /\ UNCHANGED <<tpc, lpc, admission, inFlight>>
      /\ rtUp' = rtUp \/ rtUp' = FALSE
  BY DEF Cancel, NextReady, ShutDown, CloserStep, CancelEverything, TakeRuntime,
         vars, clientVars, taskVars, lispVars
<1>2. PointsOK' /\ NoTaskBeforeSpawn'
  BY <1>1 DEF CapacityInv, PointsOK, NoTaskBeforeSpawn
<1>3. Held' = Held /\ Flying' = Flying
  BY <1>1 DEF Held, Flying, HoldsPermit, Counted
<1>4. CapacityAccountedFor'
  BY <1>1, <1>3, CapacityByName, CapacityByNameAfter DEF CapacityInv
<1> QED  BY <1>2, <1>4 DEF CapacityInv

LEMMA CapacityNext == CapacityInv /\ [Next]_vars => CapacityInv'
  BY WorldStepKeeps, TaskStepKeeps, LispStepKeeps, OthersKeep DEF Next

\* However many requests compete for however many permits, no path through
\* start, completion, failure, cancellation, free or shutdown loses or doubles
\* a unit of capacity (Req::start, TaskGuard::drop, Client::shutdown).
THEOREM Capacity == Spec => []CapacityAccountedFor
<1>1. Spec => []CapacityInv
  BY CapacityInit, CapacityNext, PTL DEF Spec
<1> QED  BY <1>1, PTL DEF CapacityInv

-----------------------------------------------------------------------------
(***************************************************************************)
(* The body of a request.  The inductive invariant says of every request   *)
(* that its queue is contiguous and sorted from what was read up to some   *)
(* byte (End), how that byte, the chunk in the task's hands and the file   *)
(* relate to what was received, by where the task is, and how a task that  *)
(* ended came to its end.                                                  *)
(***************************************************************************)

\* The last byte in the queue, or read.
End(q, before) == IF q = <<>> THEN before ELSE Last(q)[2]

Sorted(q) == \A i, j \in 1..Len(q) : i < j => q[i][2] < q[j][1]

Shape(q, before) ==
    /\ InOrder(q, before, End(q, before))
    /\ Sorted(q)

QueueOK(r) ==
    /\ Shape(chunks[r], got[r])
    /\ buffered[r] = End(chunks[r], got[r]) - got[r]
    /\ sink[r] => chunks[r] = <<>>

SlotsOK(r) ==
    slots[r] + Len(chunks[r])
      + (IF tpc[r] = "push" THEN 1 ELSE 0)
      + (IF lpc[r] = "giveback" THEN 1 ELSE 0) = QueueChunks

\* The task is in its guard, or through it.
Ended == {"permit", "leave", "announce", "settle", "done"}

Within(r) == headDone[r] /\ (MaxBody > 0 => received[r] <= MaxBody)

StreamOK(r) ==
    /\ tpc[r] \in {"none", "head", "create"} =>
          chunks[r] = <<>> /\ got[r] = 0 /\ received[r] = 0 /\ written[r] = 0
    /\ tpc[r] = "create" => headDone[r]
    /\ tpc[r] \in {"create", "write", "flush"} => sink[r]
    /\ tpc[r] \in {"slot", "push"} => ~sink[r]
    /\ tpc[r] \in {"slot", "push", "write"} =>
          1 <= inHand[r][1] /\ inHand[r][1] <= inHand[r][2] /\ inHand[r][2] = received[r]
    /\ ~sink[r] /\ tpc[r] \in {"stream", "slot", "push", "eof"} =>
          End(chunks[r], got[r]) = PutAway(r)
    /\ sink[r] /\ tpc[r] \in {"stream", "flush", "eof"} => written[r] = received[r]
    /\ tpc[r] \in {"stream", "slot", "push", "write", "flush", "eof"} => Within(r)
    /\ eof[r] => /\ tpc[r] \in Ended /\ Within(r)
                 /\ sink[r] => written[r] = received[r]
                 /\ ~sink[r] => End(chunks[r], got[r]) = received[r]

OutcomeOK(r) ==
    /\ settled[r] => tpc[r] \in Ended
    /\ tpc[r] = "fail" => failure[r] # "none"
    /\ tpc[r] = "permit" => eof[r] \/ err[r] # "none" \/ Cancelled(r)
    /\ tpc[r] \in {"leave", "announce", "settle"} => eof[r] \/ err[r] # "none" \/ sawCancel[r]
    /\ settled[r] /\ err[r] = "none" => eof[r]
    /\ lpc[r] = "verify" => Done(r)
    /\ result[r] = "value" => lpc[r] \in {"free", "returned"} /\ Done(r) /\ eof[r]

RequestOK(r) == QueueOK(r) /\ SlotsOK(r) /\ StreamOK(r) /\ OutcomeOK(r)

\* The runtime goes after everything was cancelled.
ClosedInOrder == ~rtUp => cancelAll

Inv ==
    /\ CapacityInv /\ TypeOK /\ ClosedInOrder
    /\ \A r \in Reqs : RequestOK(r)

-----------------------------------------------------------------------------

\* What the elements of a queue of chunks are.
LEMMA ChunkFacts ==
    ASSUME NEW q \in Seq(Chunks)
    PROVE  /\ Len(q) \in Nat
           /\ \A i \in 1..Len(q) : q[i] \in Chunks
           /\ \A i \in 1..Len(q) : /\ q[i][1] \in Nat /\ q[i][2] \in Nat
                                   /\ q[i][1] \in Bytes /\ q[i][2] \in Bytes
           /\ q # <<>> => /\ Len(q) >= 1 /\ 1 \in 1..Len(q)
                          /\ Len(q) \in 1..Len(q) /\ Head(q) = q[1]
<1>1. Len(q) \in Nat /\ \A i \in 1..Len(q) : q[i] \in Chunks
  BY ElementOfSeq
<1>2. \A c \in Chunks : c[1] \in Bytes /\ c[2] \in Bytes
  BY DEF Chunks
<1>3. \A b \in Bytes : b \in Nat
  BY SizesAssumption DEF Bytes
<1>4. q # <<>> => Len(q) # 0 /\ Head(q) = q[1]
  BY EmptySeq
<1> QED  BY <1>1, <1>2, <1>3, <1>4

\* The queue reaches at least to what was read, and says how many bytes it
\* holds.
LEMMA EndBounds ==
    ASSUME NEW q \in Seq(Chunks), NEW b \in Bytes, Shape(q, b)
    PROVE  /\ End(q, b) \in Bytes /\ End(q, b) \in Nat /\ b \in Nat
           /\ End(q, b) >= b
           /\ q # <<>> => End(q, b) = Last(q)[2] /\ q[1][1] = b + 1
           /\ q = <<>> => End(q, b) = b
<1>1. b \in Nat
  BY SizesAssumption DEF Bytes
<1>2. CASE q = <<>>
  BY <1>1, <1>2 DEF End
<1>3. CASE q # <<>>
  <2>1. q[1][1] = b + 1 /\ End(q, b) = q[Len(q)][2]
    BY <1>3 DEF Shape, InOrder, End, Last
  <2>2. \A i \in 1..Len(q) : q[i][1] <= q[i][2]
    BY <1>3 DEF Shape, InOrder
  <2>3. Len(q) > 1 => q[1][2] < q[Len(q)][1]
    BY <1>3, ChunkFacts DEF Shape, Sorted
  <2>4. End(q, b) \in Bytes /\ End(q, b) \in Nat
    BY <1>3, <2>1, ChunkFacts
  <2>5. q[1][1] <= End(q, b)
    BY <1>3, <2>1, <2>2, <2>3, ChunkFacts
  <2> QED  BY <1>1, <1>3, <2>1, <2>4, <2>5 DEF Last
<1> QED  BY <1>2, <1>3

\* A chunk that continues where the queue ends may be appended.
LEMMA AppendInOrder ==
    ASSUME NEW q \in Seq(Chunks), NEW b \in Bytes, NEW c \in Chunks, Shape(q, b),
           c[1] = End(q, b) + 1, c[1] <= c[2]
    PROVE  /\ Append(q, c) \in Seq(Chunks)
           /\ Shape(Append(q, c), b)
           /\ End(Append(q, c), b) = c[2]
           /\ Len(Append(q, c)) = Len(q) + 1
           /\ Append(q, c) # <<>>
<1>0. PICK z : z = Append(q, c)
  OBVIOUS
<1>1. /\ z \in Seq(Chunks) /\ Len(z) = Len(q) + 1
      /\ \A i \in 1..Len(q) : z[i] = q[i]
      /\ z[Len(q) + 1] = c
  BY <1>0, AppendProperties
<1>2. z # <<>>
  BY <1>1, ChunkFacts, EmptySeq
<1>3. Last(z) = c /\ End(z, b) = c[2]
  BY <1>1, <1>2 DEF Last, End
<1>4. c[1] \in Nat /\ c[2] \in Nat
  BY SizesAssumption DEF Chunks, Bytes
<1>5. CASE q = <<>>
  <2>1. Len(q) = 0 /\ c[1] = b + 1
    BY <1>5, EndBounds
  <2>2. Len(z) = 1 /\ z[1] = c
    BY <1>1, <2>1
  <2>3. InOrder(z, b, c[2])
    BY <1>2, <1>3, <2>1, <2>2 DEF InOrder
  <2>4. Sorted(z)
    BY <2>2 DEF Sorted
  <2> QED  BY <1>0, <1>1, <1>2, <1>3, <2>3, <2>4 DEF Shape
<1>6. CASE q # <<>>
  <2>1. /\ q[1][1] = b + 1 /\ c[1] = q[Len(q)][2] + 1
        /\ \A i \in 1..(Len(q) - 1) : q[i + 1][1] = q[i][2] + 1
        /\ \A i \in 1..Len(q) : q[i][1] <= q[i][2]
    BY <1>6 DEF Shape, InOrder, End, Last
  <2>2. \A i, j \in 1..Len(q) : i < j => q[i][2] < q[j][1]
    BY DEF Shape, Sorted
  <2>3. \A i \in 1..Len(q) : q[i][2] < c[1]
    <3>1. SUFFICES ASSUME NEW i \in 1..Len(q) PROVE q[i][2] < c[1]
      OBVIOUS
    <3>2. i = Len(q) \/ i < Len(q)
      BY ChunkFacts
    <3>3. CASE i = Len(q)
      BY <3>3, <2>1, ChunkFacts
    <3>4. CASE i < Len(q)
      BY <1>6, <3>4, <2>1, <2>2, ChunkFacts
    <3> QED  BY <3>2, <3>3, <3>4
  <2>4. z[1][1] = b + 1
    BY <1>1, <1>6, <2>1, ChunkFacts
  <2>5. \A i \in 1..(Len(z) - 1) : z[i + 1][1] = z[i][2] + 1
    <3>1. SUFFICES ASSUME NEW i \in 1..(Len(z) - 1) PROVE z[i + 1][1] = z[i][2] + 1
      OBVIOUS
    <3>2. i \in 1..Len(q) /\ z[i] = q[i] /\ (i = Len(q) \/ i + 1 \in 1..Len(q))
      BY <1>1, ChunkFacts
    <3>3. CASE i = Len(q)
      BY <1>1, <2>1, <3>2, <3>3
    <3>4. CASE i # Len(q)
      <4>1. i \in 1..(Len(q) - 1) /\ z[i + 1] = q[i + 1]
        BY <1>1, <3>2, <3>4, ChunkFacts
      <4> QED  BY <2>1, <3>2, <4>1
    <3> QED  BY <3>3, <3>4
  <2>6. \A i \in 1..Len(z) : z[i][1] <= z[i][2]
    <3>1. \A i \in 1..Len(z) : i \in 1..Len(q) \/ i = Len(q) + 1
      BY <1>1, ChunkFacts
    <3> QED  BY <1>1, <2>1, <3>1
  <2>7. InOrder(z, b, c[2])
    BY <1>2, <1>3, <2>4, <2>5, <2>6 DEF InOrder
  <2>8. Sorted(z)
    <3>1. SUFFICES ASSUME NEW i \in 1..Len(z), NEW j \in 1..Len(z), i < j
                   PROVE  z[i][2] < z[j][1]
      BY DEF Sorted
    <3>2. i \in 1..Len(q) /\ z[i] = q[i] /\ (j \in 1..Len(q) \/ j = Len(q) + 1)
      BY <1>1, <3>1, ChunkFacts
    <3> QED  BY <1>1, <2>2, <2>3, <3>1, <3>2
  <2> QED  BY <1>0, <1>1, <1>2, <1>3, <2>7, <2>8 DEF Shape
<1> QED  BY <1>5, <1>6

\* A read takes the front of the queue, at most MaxRead bytes of it, and what
\* it leaves is contiguous with what it took; it takes the chunk from the queue
\* if and only if it frees the slot.
LEMMA UnreadInOrder ==
    ASSUME NEW q \in Seq(Chunks), NEW b \in Bytes, Shape(q, b), q # <<>>,
           NEW last, last = LastTaken(Head(q))
    PROVE  /\ last \in Bytes /\ last \in Nat
           /\ Unread(q, last) \in Seq(Chunks)
           /\ Shape(Unread(q, last), last)
           /\ End(Unread(q, last), last) = End(q, b)
           /\ GivesBack(Head(q)) => Len(Unread(q, last)) = Len(q) - 1
           /\ ~GivesBack(Head(q)) => Len(Unread(q, last)) = Len(q)
           /\ Size(<<Head(q)[1], last>>) = last - b
           /\ b <= last
<1>0. PICK c : c = Head(q)
  OBVIOUS
<1>1. /\ c = q[1] /\ c \in Chunks /\ c[1] \in Nat /\ c[2] \in Nat /\ c[2] \in Bytes
      /\ Len(q) \in Nat /\ Len(q) >= 1
  BY <1>0, ChunkFacts
<1>2. /\ c[1] = b + 1 /\ c[1] <= c[2] /\ b \in Nat
      /\ End(q, b) = q[Len(q)][2]
  BY <1>1, EndBounds, ChunkFacts DEF Shape, InOrder, Last
<1>3. /\ last \in Nat /\ c[1] <= last /\ last <= c[2]
      /\ GivesBack(c) <=> ~(c[2] > last)
  BY <1>0, <1>1, <1>2, SizesAssumption DEF LastTaken, GivesBack, Size
<1>4. last \in Bytes
  BY <1>1, <1>3, SizesAssumption DEF Bytes
<1>5. Size(<<c[1], last>>) = last - b /\ b <= last
  BY <1>2, <1>3 DEF Size
<1>6. /\ \A i \in 1..(Len(q) - 1) : q[i + 1][1] = q[i][2] + 1
      /\ \A i \in 1..Len(q) : q[i][1] <= q[i][2]
      /\ \A i, j \in 1..Len(q) : i < j => q[i][2] < q[j][1]
  BY DEF Shape, InOrder, Sorted
<1>7. PICK t : t = Tail(q)
  OBVIOUS
<1>8. /\ t \in Seq(Chunks) /\ Len(t) = Len(q) - 1
      /\ \A i \in 1..Len(t) : t[i] = q[i + 1]
  BY <1>7, HeadTailProperties
<1>9. CASE c[2] > last
  <2>1. PICK h : h = <<<<last + 1, c[2]>>>>
    OBVIOUS
  <2>2. <<last + 1, c[2]>> \in Chunks
    BY <1>1, <1>3, <1>9, SizesAssumption DEF Chunks, Bytes
  <2>3. h \in Seq(Chunks) /\ Len(h) = 1 /\ h[1] = <<last + 1, c[2]>>
    BY <2>1, <2>2
  <2>4. PICK z : z = h \o t
    OBVIOUS
  <2>5. Unread(q, last) = z
    BY <1>0, <1>7, <1>9, <2>1, <2>4 DEF Unread
  <2>6. /\ z \in Seq(Chunks) /\ Len(z) = 1 + Len(t)
        /\ \A i \in 1..(1 + Len(t)) : z[i] = IF i <= 1 THEN h[i] ELSE t[i - 1]
    <3>1. /\ h \o t \in Seq(Chunks) /\ Len(h \o t) = Len(h) + Len(t)
          /\ \A i \in 1..Len(h) + Len(t) :
                (h \o t)[i] = IF i <= Len(h) THEN h[i] ELSE t[i - Len(h)]
      <4>1. h \in Seq(Chunks) /\ t \in Seq(Chunks)
        BY <1>8, <2>3
      <4> QED  BY <4>1, ConcatProperties, Zenon
    <3> QED  BY <2>3, <2>4, <3>1
  <2>7. Len(z) = Len(q)
    BY <1>1, <1>8, <2>6
  <2>8. z[1] = <<last + 1, c[2]>>
    BY <1>1, <2>3, <2>6, <2>7
  <2>9. \A i \in 2..Len(q) : z[i] = q[i]
    <3>1. SUFFICES ASSUME NEW i \in 2..Len(q) PROVE z[i] = q[i]
      OBVIOUS
    <3>2. i \in 1..(1 + Len(t)) /\ ~(i <= 1) /\ i - 1 \in 1..Len(t) /\ (i - 1) + 1 = i
      BY <1>1, <1>8
    <3> QED  BY <1>8, <2>6, <3>2
  <2>10. z[1][1] = last + 1 /\ z[1][2] = q[1][2]
    BY <1>1, <2>8
  <2>11. \A i \in 1..Len(z) : z[i][2] = q[i][2] /\ (i # 1 => z[i][1] = q[i][1])
    <3>1. \A i \in 1..Len(z) : i = 1 \/ i \in 2..Len(q)
      BY <1>1, <2>7
    <3> QED  BY <2>9, <2>10, <3>1
  <2>12. z # <<>>
    BY <1>1, <2>7
  <2>13. Last(z)[2] = End(q, b) /\ End(z, last) = End(q, b)
    BY <1>1, <1>2, <2>7, <2>11, <2>12 DEF Last, End
  <2>14. \A i \in 1..(Len(z) - 1) : z[i + 1][1] = z[i][2] + 1
    <3>1. SUFFICES ASSUME NEW i \in 1..(Len(z) - 1) PROVE z[i + 1][1] = z[i][2] + 1
      OBVIOUS
    <3>2. i \in 1..Len(z) /\ i + 1 \in 1..Len(z) /\ i + 1 # 1
      BY <1>1, <2>7
    <3> QED  BY <1>6, <2>7, <2>11, <3>2
  <2>15. \A i \in 1..Len(z) : z[i][1] <= z[i][2]
    BY <1>1, <1>3, <1>6, <1>9, <2>7, <2>10, <2>11
  <2>16. Sorted(z)
    <3>1. SUFFICES ASSUME NEW i \in 1..Len(z), NEW j \in 1..Len(z), i < j
                   PROVE  z[i][2] < z[j][1]
      BY DEF Sorted
    <3>2. j # 1
      BY <1>1, <2>7, <3>1
    <3> QED  BY <1>6, <2>7, <2>11, <3>1, <3>2
  <2>17. Shape(z, last)
    BY <2>10, <2>12, <2>13, <2>14, <2>15, <2>16 DEF Shape, InOrder
  <2> QED  BY <1>0, <1>3, <1>4, <1>5, <1>9, <2>5, <2>6, <2>7, <2>13, <2>17
<1>10. CASE ~(c[2] > last)
  <2>1. last = c[2]
    BY <1>1, <1>3, <1>10
  <2>2. Unread(q, last) = <<>> \o t
    BY <1>0, <1>7, <1>10 DEF Unread
  <2>3. Unread(q, last) = t
    BY <1>8, <2>2, ConcatEmptySeq
  <2>4. Shape(t, last) /\ End(t, last) = End(q, b)
    <3>1. CASE Len(q) = 1
      <4>1. t = <<>>
        BY <1>8, <3>1, EmptySeq
      <4>2. End(q, b) = last
        BY <1>1, <1>2, <2>1, <3>1
      <4> QED  BY <4>1, <4>2 DEF Shape, Sorted, InOrder, End
    <3>2. CASE Len(q) > 1
      <4>1. Len(t) \in Nat /\ Len(t) >= 1 /\ t # <<>>
        BY <1>1, <1>8, <3>2
      <4>2. \A i \in 1..Len(t) : i + 1 \in 1..Len(q) /\ t[i] = q[i + 1]
        BY <1>1, <1>8
      <4>3. t[1][1] = last + 1
        BY <1>1, <1>6, <2>1, <3>2, <4>1, <4>2
      <4>4. t[Len(t)][2] = End(q, b)
        BY <1>1, <1>2, <1>8, <4>1, <4>2
      <4>5. \A i \in 1..(Len(t) - 1) : t[i + 1][1] = t[i][2] + 1
        <5>1. SUFFICES ASSUME NEW i \in 1..(Len(t) - 1)
                       PROVE  t[i + 1][1] = t[i][2] + 1
          OBVIOUS
        <5>2. i \in 1..Len(t) /\ i + 1 \in 1..Len(t) /\ i + 1 \in 1..(Len(q) - 1)
          BY <1>1, <1>8, <4>1
        <5> QED  BY <1>6, <4>2, <5>2
      <4>6. \A i \in 1..Len(t) : t[i][1] <= t[i][2]
        BY <1>6, <4>2
      <4>7. Sorted(t)
        <5>1. SUFFICES ASSUME NEW i \in 1..Len(t), NEW j \in 1..Len(t), i < j
                       PROVE  t[i][2] < t[j][1]
          BY DEF Sorted
        <5>2. i + 1 < j + 1
          BY <4>1, <5>1
        <5> QED  BY <1>6, <4>2, <5>2
      <4>8. Last(t)[2] = End(q, b) /\ End(t, last) = End(q, b)
        BY <4>1, <4>4 DEF End, Last
      <4>9. InOrder(t, last, End(q, b))
        BY <4>1, <4>3, <4>5, <4>6, <4>8 DEF InOrder
      <4>10. Shape(t, last)
        BY <4>7, <4>8, <4>9 DEF Shape
      <4> QED  BY <4>8, <4>10
    <3>3. Len(q) = 1 \/ Len(q) > 1
      <4>1. \A n \in Nat : n >= 1 => n = 1 \/ n > 1
        OBVIOUS
      <4> QED  BY <1>1, <4>1, Zenon
    <3> QED  BY <3>1, <3>2, <3>3, Zenon
  <2> QED  BY <1>0, <1>3, <1>4, <1>5, <1>8, <1>10, <2>3, <2>4
<1> QED  BY <1>9, <1>10

-----------------------------------------------------------------------------

\* The step leaves every request but r alone.
OnlyOf(r) ==
    \A s \in Reqs \ {r} :
        /\ settled'[s] = settled[s] /\ err'[s] = err[s]
        /\ headDone'[s] = headDone[s] /\ chunks'[s] = chunks[s]
        /\ buffered'[s] = buffered[s] /\ eof'[s] = eof[s]
        /\ received'[s] = received[s] /\ cancelReq'[s] = cancelReq[s]
        /\ slots'[s] = slots[s]
        /\ tpc'[s] = tpc[s] /\ inHand'[s] = inHand[s] /\ failure'[s] = failure[s]
        /\ sawCancel'[s] = sawCancel[s] /\ written'[s] = written[s]
        /\ lpc'[s] = lpc[s] /\ sink'[s] = sink[s] /\ got'[s] = got[s]
        /\ result'[s] = result[s]

\* Nothing the client does to a token takes a cancellation back.
CancelStands == cancelAll => cancelAll'

\* What other requests and the closing client do keeps the invariant of a
\* request.
LEMMA OthersFrame ==
    ASSUME NEW r, NEW s \in Reqs \ {r}, OnlyOf(r), CancelStands, RequestOK(s)
    PROVE  RequestOK(s)'
<1>1. /\ settled'[s] = settled[s] /\ err'[s] = err[s]
      /\ headDone'[s] = headDone[s] /\ chunks'[s] = chunks[s]
      /\ buffered'[s] = buffered[s] /\ eof'[s] = eof[s]
      /\ received'[s] = received[s] /\ cancelReq'[s] = cancelReq[s]
      /\ slots'[s] = slots[s]
      /\ tpc'[s] = tpc[s] /\ inHand'[s] = inHand[s] /\ failure'[s] = failure[s]
      /\ sawCancel'[s] = sawCancel[s] /\ written'[s] = written[s]
      /\ lpc'[s] = lpc[s] /\ sink'[s] = sink[s] /\ got'[s] = got[s]
      /\ result'[s] = result[s]
  BY DEF OnlyOf
<1>2. QueueOK(s)'
  BY <1>1 DEF RequestOK, QueueOK
<1>3. SlotsOK(s)'
  BY <1>1 DEF RequestOK, SlotsOK
<1>4. StreamOK(s)'
  BY <1>1 DEF RequestOK, StreamOK, Within, PutAway
<1>5. OutcomeOK(s)'
  BY <1>1 DEF RequestOK, OutcomeOK, Done, Cancelled, CancelStands
<1> QED  BY <1>2, <1>3, <1>4, <1>5 DEF RequestOK

\* A step of one request that leaves its queue alone keeps what is said of it.
LEMMA QueueFrame ==
    ASSUME NEW r \in Reqs, QueueOK(r), chunks'[r] = chunks[r], got'[r] = got[r],
           buffered'[r] = buffered[r], sink'[r] = sink[r]
    PROVE  QueueOK(r)'
  BY DEF QueueOK

\* So does one that leaves the slots alone.
LEMMA SlotsFrame ==
    ASSUME NEW r \in Reqs, SlotsOK(r), chunks'[r] = chunks[r],
           slots'[r] = slots[r], tpc'[r] = "push" <=> tpc[r] = "push",
           lpc'[r] = "giveback" <=> lpc[r] = "giveback"
    PROVE  SlotsOK(r)'
  BY DEF SlotsOK

\* One that leaves the task and the body alone.
LEMMA StreamFrame ==
    ASSUME NEW r \in Reqs, StreamOK(r), chunks'[r] = chunks[r], got'[r] = got[r],
           received'[r] = received[r], written'[r] = written[r],
           headDone'[r] = headDone[r], inHand'[r] = inHand[r], eof'[r] = eof[r],
           sink'[r] = sink[r], tpc'[r] = tpc[r]
    PROVE  StreamOK(r)'
  BY DEF StreamOK, Within, PutAway

-----------------------------------------------------------------------------

\* The type invariant, action by action.  The counters are natural numbers
\* because capacity is accounted for, the bytes of a queue because it is
\* contiguous.
LEMMA WorldTypes ==
    ASSUME Inv, PointsOK', NEW r \in Reqs, WorldStep(r)
    PROVE  TypeOK' /\ OnlyOf(r)
<1>1. TypeOK /\ StreamOK(r)
  BY DEF Inv, RequestOK
<1>2. CASE ResponseHead(r)
  BY <1>1, <1>2 DEF TypeOK, OnlyOf, PointsOK, ResponseHead, Task, clientVars, lispVars
<1>3. CASE StreamEnds(r)
  BY <1>1, <1>3 DEF TypeOK, OnlyOf, PointsOK, StreamEnds, Task, OnlyTpc, clientVars,
                    sharedVars, lispVars
<1>4. CASE IoFails(r)
  BY <1>1, <1>4 DEF TypeOK, OnlyOf, PointsOK, IoFails, Fail, Task, Errors, clientVars,
                    sharedVars, lispVars
<1>5. ASSUME NEW n \in ChunkSizes, Receive(r, n)
      PROVE  TypeOK' /\ OnlyOf(r)
  <2>1. received[r] + n \in Bytes /\ <<received[r] + 1, received[r] + n>> \in Chunks
    BY <1>1, <1>5, SizesAssumption DEF TypeOK, Receive, Bytes, Chunks
  <2>2. /\ received' = [received EXCEPT ![r] = received[r] + n]
        /\ inHand' = [inHand EXCEPT ![r] = <<received[r] + 1, received[r] + n>>]
        /\ failure' = failure \/ failure' = [failure EXCEPT ![r] = "too-large"]
        /\ \E p : tpc' = [tpc EXCEPT ![r] = p]
        /\ UNCHANGED <<settled, err, headDone, chunks, buffered, eof, cancelReq,
                       slots, sawCancel, written, clientVars, lispVars>>
    BY <1>5 DEF Receive, Fail, Task
  <2> QED  BY <1>1, <2>1, <2>2 DEF TypeOK, OnlyOf, PointsOK, Errors, clientVars, lispVars
<1> QED  BY <1>2, <1>3, <1>4, <1>5 DEF WorldStep

LEMMA TaskTypes ==
    ASSUME Inv, PointsOK', NEW r \in Reqs, TaskStep(r)
    PROVE  TypeOK' /\ OnlyOf(r)
<1>0. TypeOK /\ QueueOK(r) /\ SlotsOK(r) /\ StreamOK(r)
  BY DEF Inv, RequestOK
<1>1. CASE Create(r) \/ Flush(r) \/ SeeCancel(r) \/ RuntimeDrops(r)
  <2>1. (\E p : tpc' = [tpc EXCEPT ![r] = p]) /\ OnlyTpc
    BY <1>1 DEF Create, Flush, SeeCancel, RuntimeDrops, Task
  <2> QED  BY <1>0, <2>1 DEF TypeOK, OnlyOf, PointsOK, OnlyTpc, clientVars, sharedVars,
                             lispVars
<1>2. CASE Write(r)
  <2>1. inHand[r][2] \in Bytes
    BY <1>0 DEF TypeOK, Chunks
  <2> QED  BY <1>0, <1>2, <2>1 DEF TypeOK, OnlyOf, PointsOK, Write, Task, clientVars,
                                   sharedVars, lispVars
<1>3. CASE AcquireSlot(r)
  <2>1. slots[r] - 1 \in Nat
    BY <1>0, <1>3 DEF TypeOK, AcquireSlot, SlotFree
  <2> QED  BY <1>0, <1>3, <2>1 DEF TypeOK, OnlyOf, PointsOK, AcquireSlot, Task,
                                   clientVars, lispVars
<1>4. CASE Stall(r)
  BY <1>0, <1>4 DEF TypeOK, OnlyOf, PointsOK, Stall, Fail, Task, Errors, clientVars,
                    sharedVars, lispVars
<1>5. CASE Push(r)
  <2>1. tpc[r] = "push" /\ inHand[r] \in Chunks
    BY <1>0, <1>5 DEF TypeOK, Push
  <2>2. inHand[r][1] \in Nat /\ inHand[r][2] \in Nat /\ inHand[r][1] <= inHand[r][2]
    BY <1>0, <2>1, SizesAssumption DEF StreamOK, Chunks, Bytes
  <2>3. buffered[r] + Size(inHand[r]) \in Nat
    BY <1>0, <2>2 DEF Size, TypeOK
  <2>4. Append(chunks[r], inHand[r]) \in Seq(Chunks)
    BY <1>0, <2>1, AppendProperties DEF TypeOK
  <2>5. /\ buffered' = [buffered EXCEPT ![r] = buffered[r] + Size(inHand[r])]
        /\ chunks' = [chunks EXCEPT ![r] = Append(chunks[r], inHand[r])]
        /\ \E p : tpc' = [tpc EXCEPT ![r] = p]
        /\ UNCHANGED <<settled, err, headDone, eof, received, cancelReq, slots,
                       inHand, failure, sawCancel, written, clientVars, lispVars>>
    BY <1>5 DEF Push, Task
  <2> QED  BY <1>0, <2>3, <2>4, <2>5 DEF TypeOK, OnlyOf, PointsOK, clientVars, lispVars
<1>6. CASE Eof(r)
  BY <1>0, <1>6 DEF TypeOK, OnlyOf, PointsOK, Eof, Task, clientVars, lispVars
<1>7. CASE SettleError(r) \/ SettleGuard(r)
  <2>1. PICK e \in Errors : err' = [err EXCEPT ![r] = e]
    BY <1>0, <1>7 DEF SettleError, SettleGuard, Settle, TypeOK, Errors
  <2>2. /\ settled' = [settled EXCEPT ![r] = TRUE]
        /\ \E p : tpc' = [tpc EXCEPT ![r] = p]
        /\ UNCHANGED <<headDone, chunks, buffered, eof, received, cancelReq, slots,
                       inHand, failure, sawCancel, written, clientVars, lispVars>>
    BY <1>7 DEF SettleError, SettleGuard, Settle, Task
  <2> QED  BY <1>0, <2>1, <2>2 DEF TypeOK, OnlyOf, PointsOK, clientVars, lispVars
<1>8. CASE ReturnPermit(r)
  <2>1. Cancelled(r) \in BOOLEAN
    BY <1>0 DEF TypeOK, Cancelled
  <2> QED  BY <1>0, <1>8, <2>1 DEF TypeOK, OnlyOf, PointsOK, ReturnPermit, Task,
                                   sharedVars, lispVars
<1>9. CASE LeaveFlight(r)
  BY <1>0, <1>9 DEF TypeOK, OnlyOf, PointsOK, LeaveFlight, Task, sharedVars, lispVars
<1>10. CASE Announce(r)
  <2>1. ready' \in Seq(Reqs)
    <3>1. Len(ready) \in Nat /\ (Len(ready) >= ReadyCap => ready # <<>>)
      BY <1>0, SizesAssumption, LenProperties DEF TypeOK
    <3>2. (IF Len(ready) >= ReadyCap THEN Tail(ready) ELSE ready) \in Seq(Reqs)
      BY <1>0, <3>1, HeadTailProperties DEF TypeOK
    <3>3. PICK q \in Seq(Reqs) : ready' = Append(q, r)
      BY <1>10, <3>2 DEF Announce
    <3> QED  BY <3>3, AppendProperties
  <2>2. /\ \E p : tpc' = [tpc EXCEPT ![r] = p]
        /\ UNCHANGED <<down, cancelAll, rtUp, admission, inFlight, sharedVars, inHand,
                       failure, sawCancel, written, lispVars>>
    BY <1>10 DEF Announce, Task
  <2> QED  BY <1>0, <2>1, <2>2 DEF TypeOK, OnlyOf, PointsOK, sharedVars, lispVars
<1> QED  BY <1>1, <1>2, <1>3, <1>4, <1>5, <1>6, <1>7, <1>8, <1>9, <1>10 DEF TaskStep

LEMMA LispTypes ==
    ASSUME Inv, PointsOK', NEW r \in Reqs,
           LispStep(r) \/ Unwind(r) \/ Cancel(r) \/ (\E b \in BOOLEAN : Start(r, b))
    PROVE  TypeOK' /\ OnlyOf(r)
<1>0. TypeOK /\ QueueOK(r) /\ SlotsOK(r)
  BY DEF Inv, RequestOK
<1>1. CASE \E b \in BOOLEAN : Start(r, b)
  <2>1. /\ \E p : lpc' = [lpc EXCEPT ![r] = p]
        /\ \E b \in BOOLEAN : sink' = [sink EXCEPT ![r] = b]
        /\ result' = result \/ result' = [result EXCEPT ![r] = "error"]
        /\ UNCHANGED <<clientVars, sharedVars, taskVars, got>>
    BY <1>1 DEF Start, Refused, Lisp
  <2> QED  BY <1>0, <2>1 DEF TypeOK, OnlyOf, PointsOK, clientVars, sharedVars, taskVars
<1>2. CASE Admit(r)
  <2>1. /\ \E p : lpc' = [lpc EXCEPT ![r] = p]
        /\ result' = result \/ result' = [result EXCEPT ![r] = "error"]
        /\ UNCHANGED <<down, cancelAll, rtUp, inFlight, ready, sharedVars, taskVars,
                       sink, got>>
    BY <1>2 DEF Admit, Refused, Lisp
  <2> QED  BY <1>0, <2>1 DEF TypeOK, OnlyOf, PointsOK, sharedVars, taskVars
<1>3. CASE Spawn(r)
  <2>1. /\ \E p : lpc' = [lpc EXCEPT ![r] = p]
        /\ tpc' = tpc \/ tpc' = [tpc EXCEPT ![r] = "head"]
        /\ result' = result \/ result' = [result EXCEPT ![r] = "error"]
        /\ UNCHANGED <<down, cancelAll, rtUp, admission, ready, sharedVars, inHand,
                       failure, sawCancel, written, sink, got>>
    BY <1>3 DEF Spawn, Refused, Lisp, Task
  <2> QED  BY <1>0, <2>1 DEF TypeOK, OnlyOf, PointsOK, sharedVars
<1>4. CASE ReadChunk(r)
  <2>1. /\ chunks[r] \in Seq(Chunks) /\ got[r] \in Bytes /\ chunks[r] # <<>>
        /\ Shape(chunks[r], got[r])
    BY <1>0, <1>4 DEF TypeOK, QueueOK, ReadChunk
  <2>2. PICK last : last = LastTaken(Head(chunks[r]))
    OBVIOUS
  <2>3. /\ last \in Bytes /\ last \in Nat /\ Unread(chunks[r], last) \in Seq(Chunks)
        /\ Size(<<Head(chunks[r])[1], last>>) = last - got[r]
        /\ Shape(Unread(chunks[r], last), last)
        /\ End(Unread(chunks[r], last), last) = End(chunks[r], got[r])
    BY <2>1, <2>2, UnreadInOrder
  <2>4. End(chunks[r], got[r]) >= last /\ End(chunks[r], got[r]) \in Nat /\ got[r] \in Nat
    BY <2>1, <2>3, EndBounds
  <2>5. buffered[r] = End(chunks[r], got[r]) - got[r]
    BY <1>0 DEF QueueOK
  <2>6. buffered[r] - Size(<<Head(chunks[r])[1], last>>) \in Nat
    BY <2>3, <2>4, <2>5
  <2>7. /\ chunks' = [chunks EXCEPT ![r] = Unread(chunks[r], last)]
        /\ buffered' = [buffered EXCEPT ![r] =
                            buffered[r] - Size(<<Head(chunks[r])[1], last>>)]
        /\ got' = [got EXCEPT ![r] = last]
        /\ \E p : lpc' = [lpc EXCEPT ![r] = p]
        /\ UNCHANGED <<settled, err, headDone, eof, received, cancelReq, slots,
                       sink, result, clientVars, taskVars>>
    BY <1>4, <2>2 DEF ReadChunk, Lisp
  <2> QED  BY <1>0, <2>3, <2>6, <2>7 DEF TypeOK, OnlyOf, PointsOK, clientVars, taskVars
<1>5. CASE GiveBack(r)
  BY <1>0, <1>5 DEF TypeOK, OnlyOf, PointsOK, GiveBack, Lisp, clientVars, taskVars
<1>6. CASE ReadNothing(r) \/ TestDone(r) \/ Verify(r) \/ Unwind(r)
  <2>1. /\ \E p : lpc' = [lpc EXCEPT ![r] = p]
        /\ \/ result' = result
           \/ \E v \in {"value", "error"} : result' = [result EXCEPT ![r] = v]
        /\ UNCHANGED <<sink, got, clientVars, sharedVars, taskVars>>
    BY <1>6 DEF ReadNothing, TestDone, Verify, Unwind, Signal, Lisp
  <2> QED  BY <1>0, <2>1 DEF TypeOK, OnlyOf, PointsOK, clientVars, sharedVars, taskVars
<1>7. CASE FreeReq(r)
  BY <1>0, <1>7 DEF TypeOK, OnlyOf, PointsOK, FreeReq, Lisp, clientVars, taskVars
<1>8. CASE Cancel(r)
  BY <1>0, <1>8 DEF TypeOK, OnlyOf, PointsOK, Cancel, clientVars, taskVars, lispVars
<1> QED  BY <1>1, <1>2, <1>3, <1>4, <1>5, <1>6, <1>7, <1>8 DEF LispStep

\* A step of no request.
LEMMA ClientKeeps ==
    ASSUME Inv, NextReady \/ ShutDown \/ CloserStep \/ UNCHANGED vars
    PROVE  TypeOK' /\ ClosedInOrder' /\ (\A r \in Reqs : RequestOK(r)')
<1>0. TypeOK /\ ClosedInOrder
  BY DEF Inv
<1>1. /\ UNCHANGED <<sharedVars, taskVars, lispVars, admission, inFlight>>
      /\ CancelStands /\ ClosedInOrder'
      /\ down' \in BOOLEAN /\ cancelAll' \in BOOLEAN /\ rtUp' \in BOOLEAN
  BY <1>0 DEF NextReady, ShutDown, CloserStep, CancelEverything, TakeRuntime, vars,
              clientVars, ClosedInOrder, CancelStands, TypeOK
<1>2. ready' \in Seq(Reqs)
  <2>1. ready' = ready \/ (ready # <<>> /\ ready' = Tail(ready))
    BY DEF NextReady, ShutDown, CloserStep, CancelEverything, TakeRuntime, vars,
           clientVars
  <2>2. ready \in Seq(Reqs)
    BY <1>0 DEF TypeOK
  <2>3. ready # <<>> => Tail(ready) \in Seq(Reqs)
    BY <2>2, HeadTailProperties
  <2> QED  BY <2>1, <2>2, <2>3
<1>3. TypeOK'
  BY <1>0, <1>1, <1>2 DEF TypeOK, sharedVars, taskVars, lispVars
<1>4. PICK x : x \notin Reqs
  BY NoSetContainsEverything
<1>5. OnlyOf(x)
  BY <1>1 DEF OnlyOf, sharedVars, taskVars, lispVars
<1>6. \A r \in Reqs : RequestOK(r)'
  <2>1. SUFFICES ASSUME NEW r \in Reqs PROVE RequestOK(r)'
    OBVIOUS
  <2>2. r \in Reqs \ {x} /\ RequestOK(r)
    BY <1>4, <2>1 DEF Inv
  <2> QED  BY <1>1, <1>5, <2>2, OthersFrame
<1> QED  BY <1>1, <1>3, <1>6

-----------------------------------------------------------------------------

\* The invariant of the request that takes the step: what the server decides.
LEMMA WorldRequest ==
    ASSUME Inv, NEW r \in Reqs, WorldStep(r)
    PROVE  RequestOK(r)'
<1>0. TypeOK /\ QueueOK(r) /\ SlotsOK(r) /\ StreamOK(r) /\ OutcomeOK(r)
  BY DEF Inv, RequestOK
<1>1. CASE ResponseHead(r)
  <2>1. /\ tpc[r] = "head" /\ headDone'[r] = TRUE
        /\ tpc'[r] = IF sink[r] THEN "create" ELSE "stream"
        /\ UNCHANGED <<settled, err, chunks, buffered, eof, received, cancelReq,
                       slots, inHand, failure, sawCancel, written, cancelAll>>
        /\ UNCHANGED <<lpc, sink, got, result>>
    BY <1>0, <1>1 DEF ResponseHead, Task, TypeOK, clientVars, lispVars
  <2>2. QueueOK(r)' /\ SlotsOK(r)'
    BY <1>0, <2>1, QueueFrame, SlotsFrame
  <2>3. End(chunks[r], got[r]) = 0
    BY <1>0, <2>1 DEF StreamOK, End
  <2>4. ~eof[r]
    BY <1>0, <2>1 DEF StreamOK, Ended
  <2>5. StreamOK(r)'
    BY <1>0, <2>1, <2>3, <2>4, SizesAssumption DEF StreamOK, PutAway, Within
  <2>6. OutcomeOK(r)'
    BY <1>0, <2>1 DEF OutcomeOK, Ended, Done
  <2> QED  BY <2>2, <2>5, <2>6 DEF RequestOK
<1>2. CASE StreamEnds(r)
  <2>1. /\ tpc[r] = "stream"
        /\ tpc'[r] = IF sink[r] THEN "flush" ELSE "eof"
        /\ UNCHANGED <<inHand, failure, sawCancel, written, cancelAll>>
        /\ UNCHANGED <<settled, err, headDone, chunks, buffered, eof, received,
                       cancelReq, slots>>
        /\ UNCHANGED <<lpc, sink, got, result>>
    BY <1>0, <1>2 DEF StreamEnds, Task, OnlyTpc, TypeOK, clientVars, sharedVars, lispVars
  <2>2. QueueOK(r)' /\ SlotsOK(r)'
    BY <1>0, <2>1, QueueFrame, SlotsFrame
  <2>3. StreamOK(r)'
    BY <1>0, <2>1 DEF StreamOK, PutAway, Within, Ended
  <2>4. OutcomeOK(r)'
    BY <1>0, <2>1 DEF OutcomeOK, Ended, Done
  <2> QED  BY <2>2, <2>3, <2>4 DEF RequestOK
<1>3. CASE IoFails(r)
  <2>1. /\ tpc[r] \in Awaits \ {"slot"} /\ tpc'[r] = "fail" /\ failure'[r] = "failed"
        /\ UNCHANGED <<inHand, sawCancel, written, cancelAll>>
        /\ UNCHANGED <<settled, err, headDone, chunks, buffered, eof, received,
                       cancelReq, slots>>
        /\ UNCHANGED <<lpc, sink, got, result>>
    BY <1>0, <1>3 DEF IoFails, Fail, Task, TypeOK, clientVars, sharedVars, lispVars
  <2>2. QueueOK(r)' /\ SlotsOK(r)'
    BY <1>0, <2>1, QueueFrame, SlotsFrame DEF Awaits
  <2>3. StreamOK(r)'
    BY <1>0, <2>1 DEF StreamOK, PutAway, Within, Ended, Awaits
  <2>4. OutcomeOK(r)'
    BY <1>0, <2>1 DEF OutcomeOK, Ended, Done, Awaits
  <2> QED  BY <2>2, <2>3, <2>4 DEF RequestOK
<1>4. ASSUME NEW n \in ChunkSizes, Receive(r, n)
      PROVE  RequestOK(r)'
  <2>1. /\ tpc[r] = "stream" /\ received'[r] = received[r] + n
        /\ inHand'[r] = <<received[r] + 1, received[r] + n>>
        /\ IF TooLarge(received[r] + n)
           THEN tpc'[r] = "fail" /\ failure'[r] = "too-large"
           ELSE tpc'[r] = IF sink[r] THEN "write" ELSE "slot"
        /\ UNCHANGED <<settled, err, headDone, chunks, buffered, eof, cancelReq,
                       slots, sawCancel, written, cancelAll>>
        /\ UNCHANGED <<lpc, sink, got, result>>
    BY <1>0, <1>4 DEF Receive, Fail, Task, TypeOK, clientVars, lispVars
  <2>2. received[r] \in Nat /\ n \in Nat /\ n >= 1
    BY <1>0, SizesAssumption DEF TypeOK, Bytes
  <2>3. /\ inHand'[r][1] = received[r] + 1 /\ inHand'[r][2] = received'[r]
        /\ 1 <= inHand'[r][1] /\ inHand'[r][1] <= inHand'[r][2]
        /\ inHand'[r][1] - 1 = received[r]
    BY <2>1, <2>2
  <2>4. tpc'[r] \in {"fail", "write", "slot"}
    BY <2>1
  <2>5. QueueOK(r)' /\ SlotsOK(r)'
    BY <1>0, <2>1, <2>4, QueueFrame, SlotsFrame
  <2>6. ~eof[r]
    BY <1>0, <2>1 DEF StreamOK, Ended
  <2>7. tpc'[r] # "fail" => Within(r)'
    BY <1>0, <2>1, <2>2, SizesAssumption DEF StreamOK, Within, TooLarge
  <2>8. PutAway(r)' = IF tpc'[r] = "fail" THEN received'[r] ELSE received[r]
    BY <2>3, <2>4 DEF PutAway
  <2>9. ~sink[r] => End(chunks[r], got[r]) = received[r]
    BY <1>0, <2>1 DEF StreamOK, PutAway
  <2>10. tpc'[r] = "slot" => ~sink[r]
    BY <2>1
  <2>11. tpc'[r] = "write" => sink[r]
    BY <2>1
  <2>12. StreamOK(r)'
    BY <2>1, <2>3, <2>4, <2>6, <2>7, <2>8, <2>9, <2>10, <2>11 DEF StreamOK
  <2>13. OutcomeOK(r)'
    BY <1>0, <2>1, <2>4 DEF OutcomeOK, Ended, Done
  <2> QED  BY <2>5, <2>12, <2>13 DEF RequestOK
<1> QED  BY <1>1, <1>2, <1>3, <1>4 DEF WorldStep

\* A step of the task that only moves it.
LEMMA MoveRequest ==
    ASSUME Inv, NEW r \in Reqs,
           Create(r) \/ Flush(r) \/ SeeCancel(r) \/ RuntimeDrops(r)
    PROVE  RequestOK(r)'
<1>0. TypeOK /\ QueueOK(r) /\ SlotsOK(r) /\ StreamOK(r) /\ OutcomeOK(r) /\ ClosedInOrder
  BY DEF Inv, RequestOK
<1>1. /\ tpc[r] \in Awaits
      /\ UNCHANGED <<inHand, failure, sawCancel, written, cancelAll>>
      /\ UNCHANGED <<settled, err, headDone, chunks, buffered, eof, received,
                     cancelReq, slots>>
      /\ UNCHANGED <<lpc, sink, got, result>>
  BY DEF Create, Flush, SeeCancel, RuntimeDrops, OnlyTpc, clientVars, sharedVars,
         lispVars, Awaits
<1>2. \/ tpc[r] = "create" /\ tpc'[r] = "stream"
      \/ tpc[r] = "flush" /\ tpc'[r] = "eof"
      \/ tpc[r] \in Awaits /\ tpc'[r] = "permit" /\ Cancelled(r)
  BY <1>0 DEF Create, Flush, SeeCancel, RuntimeDrops, Task, TypeOK, ClosedInOrder,
              Cancelled
<1>3. QueueOK(r)' /\ SlotsOK(r)'
  BY <1>0, <1>1, <1>2, QueueFrame, SlotsFrame DEF Awaits
<1>4. ~eof[r] /\ ~settled[r]
  BY <1>0, <1>1 DEF StreamOK, OutcomeOK, Ended, Awaits
<1>5. StreamOK(r)'
  <2>1. CASE tpc[r] = "create" /\ tpc'[r] = "stream"
    <3>1. received[r] = 0
      BY <1>0, <2>1 DEF StreamOK
    <3> QED  BY <1>0, <1>1, <1>4, <2>1, <3>1, SizesAssumption DEF StreamOK, PutAway, Within
  <2>2. CASE tpc[r] = "flush" /\ tpc'[r] = "eof"
    BY <1>0, <1>1, <1>4, <2>2 DEF StreamOK, PutAway, Within
  <2>3. CASE tpc[r] \in Awaits /\ tpc'[r] = "permit"
    BY <1>0, <1>1, <1>4, <2>3 DEF StreamOK
  <2> QED  BY <1>2, <2>1, <2>2, <2>3
<1>6. OutcomeOK(r)'
  BY <1>0, <1>1, <1>2, <1>4 DEF OutcomeOK, Done, Cancelled
<1> QED  BY <1>3, <1>5, <1>6 DEF RequestOK

\* The steps of the task that put a chunk away, or fail to.
LEMMA ChunkRequest ==
    ASSUME Inv, NEW r \in Reqs,
           Write(r) \/ AcquireSlot(r) \/ Stall(r) \/ Push(r)
    PROVE  RequestOK(r)'
<1>0. TypeOK /\ QueueOK(r) /\ SlotsOK(r) /\ StreamOK(r) /\ OutcomeOK(r)
  BY DEF Inv, RequestOK
<1>1. /\ tpc[r] \in {"write", "slot", "push"}
      /\ ~eof[r] /\ ~settled[r]
  BY <1>0 DEF Write, AcquireSlot, Stall, Push, StreamOK, OutcomeOK, Ended
<1>2. OutcomeOK(r)'
  <2>1. /\ tpc'[r] \in {"stream", "push", "fail"}
        /\ tpc'[r] = "fail" => failure'[r] = "stalled"
        /\ UNCHANGED <<settled, err, eof, cancelReq, cancelAll, sawCancel>>
        /\ UNCHANGED <<lpc, result>>
    BY <1>0 DEF Write, AcquireSlot, Stall, Push, Fail, Task, TypeOK, clientVars,
                sharedVars, lispVars
  <2> QED  BY <1>0, <1>1, <2>1 DEF OutcomeOK, Done
<1>3. CASE Write(r)
  <2>1. /\ tpc[r] = "write" /\ tpc'[r] = "stream" /\ written'[r] = inHand[r][2]
        /\ UNCHANGED <<inHand, headDone, chunks, buffered, eof, received, slots>>
        /\ UNCHANGED <<lpc, sink, got>>
    BY <1>0, <1>3 DEF Write, Task, TypeOK, clientVars, sharedVars, lispVars
  <2>2. QueueOK(r)' /\ SlotsOK(r)'
    BY <1>0, <2>1, QueueFrame, SlotsFrame
  <2>3. StreamOK(r)'
    BY <1>0, <1>1, <2>1 DEF StreamOK, Within
  <2> QED  BY <1>2, <2>2, <2>3 DEF RequestOK
<1>4. CASE AcquireSlot(r)
  <2>1. /\ tpc[r] = "slot" /\ tpc'[r] = "push" /\ slots'[r] = slots[r] - 1
        /\ UNCHANGED <<inHand, headDone, chunks, buffered, eof, received, written>>
        /\ UNCHANGED <<lpc, sink, got>>
    BY <1>0, <1>4 DEF AcquireSlot, Task, TypeOK, lispVars
  <2>2. slots[r] \in Nat /\ Len(chunks[r]) \in Nat
    BY <1>0, LenProperties DEF TypeOK
  <2>3. SlotsOK(r)'
    BY <1>0, <2>1, <2>2, SizesAssumption DEF SlotsOK
  <2>4. StreamOK(r)'
    BY <1>0, <1>1, <2>1 DEF StreamOK, Within, PutAway
  <2> QED  BY <1>0, <1>2, <2>1, <2>3, <2>4, QueueFrame DEF RequestOK
<1>5. CASE Stall(r)
  <2>1. /\ tpc[r] = "slot" /\ tpc'[r] = "fail"
        /\ UNCHANGED <<inHand, headDone, chunks, buffered, eof, received, slots, written>>
        /\ UNCHANGED <<lpc, sink, got>>
    BY <1>0, <1>5 DEF Stall, Fail, Task, TypeOK, clientVars, sharedVars, lispVars
  <2>2. QueueOK(r)' /\ SlotsOK(r)'
    BY <1>0, <2>1, QueueFrame, SlotsFrame
  <2>3. StreamOK(r)'
    BY <1>0, <1>1, <2>1 DEF StreamOK
  <2> QED  BY <1>2, <2>2, <2>3 DEF RequestOK
<1>6. CASE Push(r)
  <2>0. PICK q, c, b : q = chunks[r] /\ c = inHand[r] /\ b = got[r]
    OBVIOUS
  <2>1. /\ tpc[r] = "push" /\ tpc'[r] = "stream"
        /\ buffered'[r] = buffered[r] + Size(c) /\ chunks'[r] = Append(q, c)
        /\ got'[r] = b
        /\ UNCHANGED <<inHand, headDone, eof, received, slots, written>>
        /\ UNCHANGED <<lpc, sink, got>>
    BY <1>0, <1>6, <2>0 DEF Push, Task, TypeOK, lispVars
  <2>2. /\ q \in Seq(Chunks) /\ b \in Bytes /\ c \in Chunks /\ Shape(q, b)
        /\ buffered[r] = End(q, b) - b
    BY <1>0, <2>0 DEF TypeOK, QueueOK
  <2>3. ~sink[r] /\ End(q, b) = c[1] - 1 /\ c[1] <= c[2] /\ c[2] = received[r]
    BY <1>0, <2>0, <2>1 DEF StreamOK, PutAway
  <2>4. c[1] \in Nat /\ c[2] \in Nat /\ b \in Nat /\ End(q, b) \in Nat
    <3>1. c[1] \in Nat /\ c[2] \in Nat
      BY <2>2, SizesAssumption DEF Chunks, Bytes
    <3>2. b \in Nat /\ End(q, b) \in Nat
      BY <2>2, EndBounds
    <3> QED  BY <3>1, <3>2
  <2>5. c[1] = End(q, b) + 1
    BY <2>3, <2>4
  <2>6. /\ Shape(Append(q, c), b) /\ End(Append(q, c), b) = c[2]
        /\ Len(Append(q, c)) = Len(q) + 1
    BY <2>2, <2>3, <2>5, AppendInOrder
  <2>7. buffered'[r] = c[2] - b
    BY <2>1, <2>2, <2>3, <2>4 DEF Size
  <2>8. QueueOK(r)'
    BY <2>1, <2>3, <2>6, <2>7 DEF QueueOK
  <2>9. slots[r] \in Nat /\ Len(q) \in Nat /\ Len(chunks'[r]) = Len(q) + 1
    BY <1>0, <2>1, <2>2, <2>6, LenProperties DEF TypeOK
  <2>10. SlotsOK(r)'
    BY <1>0, <2>0, <2>1, <2>9, SizesAssumption DEF SlotsOK
  <2>11. End(chunks'[r], got'[r]) = received'[r]
    BY <2>1, <2>3, <2>6
  <2>12. StreamOK(r)'
    BY <1>0, <1>1, <2>1, <2>3, <2>11 DEF StreamOK, Within, PutAway
  <2> QED  BY <1>2, <2>8, <2>10, <2>12 DEF RequestOK
<1> QED  BY <1>3, <1>4, <1>5, <1>6

\* The end of the task: Ok, Err, and the four effects of its guard.
LEMMA EndRequest ==
    ASSUME Inv, NEW r \in Reqs,
           \/ Eof(r) \/ SettleError(r) \/ ReturnPermit(r) \/ LeaveFlight(r)
           \/ Announce(r) \/ SettleGuard(r)
    PROVE  RequestOK(r)'
<1>0. TypeOK /\ QueueOK(r) /\ SlotsOK(r) /\ StreamOK(r) /\ OutcomeOK(r)
  BY DEF Inv, RequestOK
<1>1. /\ tpc[r] \in {"eof", "fail"} \cup Ended /\ tpc'[r] \in Ended
      /\ UNCHANGED <<inHand, headDone, chunks, buffered, received, slots, written,
                     cancelReq, cancelAll>>
      /\ UNCHANGED <<lpc, sink, got, result>>
  BY <1>0 DEF Eof, SettleError, ReturnPermit, LeaveFlight, Announce, SettleGuard,
              Settle, Task, TypeOK, Ended, clientVars, sharedVars, lispVars
<1>2. QueueOK(r)' /\ SlotsOK(r)'
  BY <1>0, <1>1, QueueFrame, SlotsFrame DEF Ended
<1>3. eof'[r] = eof[r] \/ (tpc[r] = "eof" /\ eof'[r] = TRUE)
  BY <1>0 DEF Eof, SettleError, ReturnPermit, LeaveFlight, Announce, SettleGuard,
              Settle, Task, TypeOK, sharedVars
<1>4. StreamOK(r)'
  BY <1>0, <1>1, <1>3 DEF StreamOK, Within, Ended, PutAway
<1>5. OutcomeOK(r)'
  <2>1. CASE Eof(r)
    <3>1. /\ tpc[r] = "eof" /\ tpc'[r] = "permit" /\ eof'[r] = TRUE
          /\ UNCHANGED <<settled, err, failure, sawCancel>>
      BY <1>0, <2>1 DEF Eof, Task, TypeOK
    <3> QED  BY <1>0, <1>1, <3>1 DEF OutcomeOK, Ended, Done
  <2>2. CASE SettleError(r)
    <3>1. /\ tpc[r] = "fail" /\ tpc'[r] = "permit" /\ settled'[r] = TRUE
          /\ err'[r] = IF settled[r] \/ err[r] # "none" THEN err[r] ELSE failure[r]
          /\ UNCHANGED <<eof, failure, sawCancel>>
      BY <1>0, <2>2 DEF SettleError, Settle, Task, TypeOK
    <3>2. ~settled[r] /\ failure[r] # "none"
      BY <1>0, <3>1 DEF OutcomeOK, Ended
    <3>3. err'[r] # "none"
      BY <3>1, <3>2
    <3> QED  BY <1>0, <1>1, <3>1, <3>2, <3>3 DEF OutcomeOK, Ended, Done
  <2>3. CASE ReturnPermit(r)
    <3>1. /\ tpc[r] = "permit" /\ tpc'[r] = "leave"
          /\ sawCancel'[r] <=> Cancelled(r)
          /\ UNCHANGED <<settled, err, eof, failure>>
      BY <1>0, <2>3 DEF ReturnPermit, Task, TypeOK, sharedVars
    <3> QED  BY <1>0, <1>1, <3>1 DEF OutcomeOK, Ended, Done
  <2>4. CASE LeaveFlight(r) \/ Announce(r)
    <3>1. /\ tpc[r] \in {"leave", "announce"} /\ tpc'[r] \in {"announce", "settle"}
          /\ UNCHANGED <<settled, err, eof, failure, sawCancel>>
      BY <1>0, <2>4 DEF LeaveFlight, Announce, Task, TypeOK, sharedVars
    <3> QED  BY <1>0, <1>1, <3>1 DEF OutcomeOK, Ended, Done
  <2>5. CASE SettleGuard(r)
    <3>1. /\ tpc[r] = "settle" /\ tpc'[r] = "done" /\ settled'[r] = TRUE
          /\ err'[r] = IF settled[r] \/ err[r] # "none" THEN err[r]
                       ELSE IF sawCancel[r] THEN "cancelled" ELSE "none"
          /\ UNCHANGED <<eof, failure, sawCancel>>
      BY <1>0, <2>5 DEF SettleGuard, Settle, Task, TypeOK
    <3>2. err'[r] = "none" => eof[r]
      BY <1>0, <3>1 DEF OutcomeOK
    <3> QED  BY <1>0, <1>1, <3>1, <3>2 DEF OutcomeOK, Ended, Done
  <2> QED  BY <2>1, <2>2, <2>3, <2>4, <2>5
<1> QED  BY <1>2, <1>4, <1>5 DEF RequestOK

\* REQUEST, on the Lisp thread, and the cancellation of its request.
LEMMA LispRequest ==
    ASSUME Inv, NEW r \in Reqs,
           LispStep(r) \/ Unwind(r) \/ Cancel(r) \/ (\E b \in BOOLEAN : Start(r, b))
    PROVE  RequestOK(r)'
<1>0. /\ TypeOK /\ QueueOK(r) /\ SlotsOK(r) /\ StreamOK(r) /\ OutcomeOK(r)
      /\ NoTaskBeforeSpawn
  BY DEF Inv, RequestOK, CapacityInv
<1>1. CASE \E b \in BOOLEAN : Start(r, b)
  <2>1. /\ lpc[r] = "idle" /\ lpc'[r] \in {"admit", "returned"}
        /\ result'[r] = result[r] \/ result'[r] = "error"
        /\ UNCHANGED <<sharedVars, taskVars, cancelAll, got>>
    BY <1>0, <1>1 DEF Start, Refused, Lisp, TypeOK, clientVars
  <2>2. tpc[r] = "none" /\ chunks[r] = <<>> /\ ~eof[r] /\ ~settled[r]
    BY <1>0, <2>1 DEF NoTaskBeforeSpawn, StreamOK, OutcomeOK, Ended
  <2>3. QueueOK(r)'
    BY <1>0, <2>1, <2>2 DEF QueueOK, sharedVars
  <2>4. SlotsOK(r)'
    BY <1>0, <2>1, SlotsFrame DEF sharedVars, taskVars
  <2>5. StreamOK(r)'
    BY <1>0, <2>1, <2>2 DEF StreamOK, sharedVars, taskVars
  <2>6. OutcomeOK(r)'
    BY <1>0, <2>1, <2>2 DEF OutcomeOK, Done, sharedVars, taskVars
  <2> QED  BY <2>3, <2>4, <2>5, <2>6 DEF RequestOK
<1>2. CASE Admit(r)
  <2>1. /\ lpc[r] = "admit" /\ lpc'[r] \in {"spawn", "returned"}
        /\ result'[r] = result[r] \/ result'[r] = "error"
        /\ UNCHANGED <<sharedVars, taskVars, cancelAll, sink, got>>
    BY <1>0, <1>2 DEF Admit, Refused, Lisp, TypeOK
  <2>2. QueueOK(r)' /\ SlotsOK(r)' /\ StreamOK(r)'
    BY <1>0, <2>1, QueueFrame, SlotsFrame, StreamFrame DEF sharedVars, taskVars
  <2>3. OutcomeOK(r)'
    BY <1>0, <2>1 DEF OutcomeOK, Done, Cancelled, sharedVars, taskVars
  <2> QED  BY <2>2, <2>3 DEF RequestOK
<1>3. CASE Spawn(r)
  <2>1. /\ lpc[r] = "spawn" /\ lpc'[r] \in {"read", "test", "returned"}
        /\ tpc'[r] \in {"head", tpc[r]}
        /\ result'[r] = result[r] \/ result'[r] = "error"
        /\ UNCHANGED <<sharedVars, inHand, failure, sawCancel, written, cancelAll,
                       sink, got>>
    BY <1>0, <1>3 DEF Spawn, Refused, Lisp, Task, TypeOK
  <2>2. tpc[r] = "none" /\ ~eof[r] /\ ~settled[r]
    BY <1>0, <2>1 DEF NoTaskBeforeSpawn, StreamOK, OutcomeOK, Ended
  <2>3. QueueOK(r)' /\ SlotsOK(r)'
    BY <1>0, <2>1, <2>2, QueueFrame, SlotsFrame DEF sharedVars
  <2>4. StreamOK(r)'
    BY <1>0, <2>1, <2>2 DEF StreamOK, sharedVars
  <2>5. OutcomeOK(r)'
    BY <1>0, <2>1, <2>2 DEF OutcomeOK, Done, sharedVars
  <2> QED  BY <2>3, <2>4, <2>5 DEF RequestOK
<1>4. CASE ReadChunk(r)
  <2>0. PICK q, b, last : q = chunks[r] /\ b = got[r] /\ last = LastTaken(Head(q))
    OBVIOUS
  <2>1. /\ lpc[r] = "read" /\ q # <<>>
        /\ lpc'[r] = IF GivesBack(Head(q)) THEN "giveback" ELSE "read"
        /\ chunks'[r] = Unread(q, last) /\ got'[r] = last
        /\ buffered'[r] = buffered[r] - Size(<<Head(q)[1], last>>)
        /\ UNCHANGED <<settled, err, headDone, eof, received, cancelReq, slots,
                       sink, result, cancelAll>>
        /\ UNCHANGED <<tpc, inHand, failure, sawCancel, written>>
    BY <1>0, <1>4, <2>0 DEF ReadChunk, Lisp, TypeOK, clientVars, taskVars
  <2>2. /\ q \in Seq(Chunks) /\ b \in Bytes /\ Shape(q, b)
        /\ buffered[r] = End(q, b) - b
    BY <1>0, <2>0 DEF TypeOK, QueueOK
  <2>3. /\ last \in Nat /\ Unread(q, last) \in Seq(Chunks)
        /\ Shape(Unread(q, last), last) /\ End(Unread(q, last), last) = End(q, b)
        /\ GivesBack(Head(q)) => Len(Unread(q, last)) = Len(q) - 1
        /\ ~GivesBack(Head(q)) => Len(Unread(q, last)) = Len(q)
        /\ Size(<<Head(q)[1], last>>) = last - b
    <3>1. q \in Seq(Chunks) /\ b \in Bytes /\ Shape(q, b) /\ q # <<>>
      BY <2>1, <2>2
    <3>2. last = LastTaken(Head(q))
      BY <2>0
    <3> QED  BY <3>1, <3>2, UnreadInOrder, Zenon
  <2>4. End(q, b) \in Nat /\ b \in Nat
    BY <2>2, EndBounds
  <2>5. ~sink[r]
    BY <1>0, <2>0, <2>1 DEF QueueOK
  <2>6. buffered'[r] = End(q, b) - last
    BY <2>1, <2>2, <2>3, <2>4
  <2>7. QueueOK(r)'
    BY <2>1, <2>3, <2>5, <2>6 DEF QueueOK
  <2>8. slots[r] \in Nat /\ Len(q) \in Nat
    BY <1>0, <2>2, LenProperties DEF TypeOK
  <2>9. SlotsOK(r)'
    <3>0. slots[r] + Len(q) + (IF tpc[r] = "push" THEN 1 ELSE 0) + 0 = QueueChunks
      BY <1>0, <2>0, <2>1 DEF SlotsOK
    <3>1. CASE GivesBack(Head(q))
      <4>1. lpc'[r] = "giveback" /\ Len(chunks'[r]) = Len(q) - 1
        BY <2>1, <2>3, <3>1
      <4> QED  BY <2>1, <2>8, <3>0, <4>1 DEF SlotsOK
    <3>2. CASE ~GivesBack(Head(q))
      <4>1. lpc'[r] = "read" /\ Len(chunks'[r]) = Len(q)
        BY <2>1, <2>3, <3>2
      <4> QED  BY <2>1, <2>8, <3>0, <4>1 DEF SlotsOK
    <3> QED  BY <3>1, <3>2
  <2>10. End(chunks'[r], got'[r]) = End(chunks[r], got[r])
    BY <2>0, <2>1, <2>3
  <2>11. tpc[r] \notin {"none", "head", "create"}
    BY <1>0, <2>0, <2>1 DEF StreamOK
  <2>12. StreamOK(r)'
    BY <1>0, <2>1, <2>10, <2>11 DEF StreamOK, PutAway, Within
  <2>13. OutcomeOK(r)'
    BY <1>0, <2>0, <2>1 DEF OutcomeOK, Done, Cancelled
  <2> QED  BY <2>7, <2>9, <2>12, <2>13 DEF RequestOK
<1>5. CASE GiveBack(r)
  <2>1. /\ lpc[r] = "giveback" /\ lpc'[r] = "read" /\ slots'[r] = slots[r] + 1
        /\ UNCHANGED <<settled, err, headDone, chunks, buffered, eof, received,
                       cancelReq, sink, got, result, cancelAll>>
        /\ UNCHANGED <<tpc, inHand, failure, sawCancel, written>>
    BY <1>0, <1>5 DEF GiveBack, Lisp, TypeOK, clientVars, taskVars
  <2>2. slots[r] \in Nat /\ Len(chunks[r]) \in Nat
    BY <1>0, LenProperties DEF TypeOK
  <2>3. SlotsOK(r)'
    BY <1>0, <2>1, <2>2, SizesAssumption DEF SlotsOK
  <2>4. QueueOK(r)' /\ StreamOK(r)'
    BY <1>0, <2>1, QueueFrame, StreamFrame
  <2>5. OutcomeOK(r)'
    BY <1>0, <2>1 DEF OutcomeOK, Done, Cancelled
  <2> QED  BY <2>3, <2>4, <2>5 DEF RequestOK
<1>6. CASE ReadNothing(r) \/ TestDone(r) \/ Verify(r) \/ Unwind(r)
  <2>1. /\ lpc[r] \in {"read", "test", "verify"}
        /\ lpc'[r] \in {"read", "test", "verify", "free"}
        /\ lpc'[r] = "verify" => Done(r)
        /\ \/ result'[r] = result[r]
           \/ result'[r] = "error"
           \/ /\ lpc[r] = "verify" /\ lpc'[r] = "free" /\ err[r] = "none"
        /\ UNCHANGED <<sink, got, cancelAll, sharedVars, taskVars>>
    BY <1>0, <1>6 DEF ReadNothing, TestDone, Verify, Unwind, Signal, Lisp, TypeOK,
                      clientVars
  <2>2. QueueOK(r)' /\ SlotsOK(r)' /\ StreamOK(r)'
    BY <1>0, <2>1, QueueFrame, SlotsFrame, StreamFrame DEF sharedVars, taskVars
  <2>3. OutcomeOK(r)'
    BY <1>0, <2>1 DEF OutcomeOK, Done, Cancelled, sharedVars, taskVars
  <2> QED  BY <2>2, <2>3 DEF RequestOK
<1>7. CASE FreeReq(r) \/ Cancel(r)
  <2>1. /\ \/ lpc'[r] = lpc[r]
           \/ lpc[r] = "free" /\ lpc'[r] = "returned"
        /\ cancelReq'[r] = TRUE
        /\ UNCHANGED <<settled, err, headDone, chunks, buffered, eof, received,
                       slots, sink, got, result, cancelAll, taskVars>>
    BY <1>0, <1>7 DEF FreeReq, Cancel, Lisp, TypeOK, clientVars, lispVars
  <2>2. QueueOK(r)' /\ SlotsOK(r)' /\ StreamOK(r)'
    BY <1>0, <2>1, QueueFrame, SlotsFrame, StreamFrame DEF taskVars
  <2>3. OutcomeOK(r)'
    BY <1>0, <2>1 DEF OutcomeOK, Done, Cancelled, taskVars
  <2> QED  BY <2>2, <2>3 DEF RequestOK
<1> QED  BY <1>1, <1>2, <1>3, <1>4, <1>5, <1>6, <1>7 DEF LispStep

-----------------------------------------------------------------------------

LEMMA InvInit == Init => Inv
<1> SUFFICES ASSUME Init PROVE Inv
  OBVIOUS
<1>1. CapacityInv
  BY CapacityInit
<1>2. 0 \in Bytes /\ 0 \in Nat /\ NoChunk \in Chunks
  BY SizesAssumption DEF Bytes, Chunks, NoChunk
<1>3. <<>> \in Seq(Chunks) /\ <<>> \in Seq(Reqs)
  BY EmptySeq
<1>4. TypeOK
  BY <1>1, <1>2, <1>3, SizesAssumption
     DEF CapacityInv, PointsOK, TypeOK, Init, Errors
<1>5. ASSUME NEW r \in Reqs
      PROVE  RequestOK(r)
  <2>1. End(<<>>, 0) = 0 /\ Shape(<<>>, 0) /\ Len(<<>>) = 0
    BY EmptySeq DEF End, Shape, InOrder, Sorted
  <2>2. QueueOK(r)
    BY <2>1 DEF Init, QueueOK
  <2>3. SlotsOK(r)
    BY <2>1, SizesAssumption DEF Init, SlotsOK
  <2>4. StreamOK(r)
    BY DEF Init, StreamOK
  <2>5. OutcomeOK(r)
    BY DEF Init, OutcomeOK
  <2> QED  BY <2>2, <2>3, <2>4, <2>5 DEF RequestOK
<1>6. ClosedInOrder
  BY DEF Init, ClosedInOrder
<1> QED  BY <1>1, <1>4, <1>5, <1>6 DEF Inv

LEMMA InvNext == Inv /\ [Next]_vars => Inv'
<1> SUFFICES ASSUME Inv, [Next]_vars PROVE Inv'
  OBVIOUS
<1>1. CapacityInv' /\ PointsOK'
  BY CapacityNext DEF Inv, CapacityInv
<1>2. ASSUME NEW r \in Reqs, TypeOK', OnlyOf(r), RequestOK(r)',
             UNCHANGED <<cancelAll, rtUp>>
      PROVE  Inv'
  <2>1. ClosedInOrder' /\ CancelStands
    BY <1>2 DEF Inv, ClosedInOrder, CancelStands
  <2>2. \A s \in Reqs : RequestOK(s)'
    <3>1. SUFFICES ASSUME NEW s \in Reqs, s # r PROVE RequestOK(s)'
      BY <1>2
    <3>2. RequestOK(s) /\ s \in Reqs \ {r}
      BY <3>1 DEF Inv
    <3> QED  BY <1>2, <2>1, <3>2, OthersFrame
  <2> QED  BY <1>1, <1>2, <2>1, <2>2 DEF Inv
<1>3. ASSUME NEW r \in Reqs, WorldStep(r)
      PROVE  Inv'
  <2>1. UNCHANGED <<cancelAll, rtUp>>
    BY <1>3 DEF WorldStep, ResponseHead, StreamEnds, IoFails, Receive, OnlyTpc, clientVars
  <2> QED  BY <1>1, <1>2, <1>3, <2>1, WorldTypes, WorldRequest
<1>4. ASSUME NEW r \in Reqs, TaskStep(r)
      PROVE  Inv'
  <2>1. UNCHANGED <<cancelAll, rtUp>>
    BY <1>4 DEF TaskStep, Create, Write, AcquireSlot, Stall, Push, Flush, Eof,
                SettleError, SeeCancel, RuntimeDrops, ReturnPermit, LeaveFlight,
                Announce, SettleGuard, OnlyTpc, clientVars
  <2>2. RequestOK(r)'
    BY <1>4, MoveRequest, ChunkRequest, EndRequest DEF TaskStep
  <2> QED  BY <1>1, <1>2, <1>4, <2>1, <2>2, TaskTypes
<1>5. ASSUME NEW r \in Reqs,
             LispStep(r) \/ Unwind(r) \/ Cancel(r) \/ (\E b \in BOOLEAN : Start(r, b))
      PROVE  Inv'
  <2>1. UNCHANGED <<cancelAll, rtUp>>
    BY <1>5 DEF LispStep, Admit, Spawn, ReadChunk, GiveBack, ReadNothing, TestDone,
                Verify, FreeReq, Unwind, Cancel, Start, clientVars
  <2> QED  BY <1>1, <1>2, <1>5, <2>1, LispTypes, LispRequest
<1>6. CASE NextReady \/ ShutDown \/ CloserStep \/ UNCHANGED vars
  BY <1>1, <1>6, ClientKeeps DEF Inv
<1> QED  BY <1>3, <1>4, <1>5, <1>6 DEF Next

LEMMA InvAlways == Spec => []Inv
  BY InvInit, InvNext, PTL DEF Spec

\* The counters, queues and program points of a client and its requests keep
\* their ranges: no unsigned counter of examples/fetch/src/lib.rs (admission,
\* in_flight, buffered, chunk_permits) is ever decremented below zero.
THEOREM TypeCorrect == Spec => []TypeOK
<1>1. Inv => TypeOK
  BY DEF Inv
<1> QED  BY <1>1, InvAlways, PTL

\* For chunks, reads and queues of any size, the slots and the byte count of a
\* request never drift although the reader returns a slot only after its unlock
\* (Req::read, run_request).
THEOREM SlotsNeverDrift == Spec => []SlotsAccountedFor
<1>1. ASSUME Inv PROVE SlotsAccountedFor
  <2>1. SUFFICES ASSUME NEW r \in Reqs
                 PROVE  /\ SlotsOK(r)
                        /\ buffered[r] = IF chunks[r] = <<>> THEN 0
                                         ELSE Last(chunks[r])[2] - chunks[r][1][1] + 1
    BY DEF SlotsAccountedFor, SlotsOK
  <2>2. TypeOK /\ QueueOK(r) /\ SlotsOK(r)
    BY <1>1 DEF Inv, RequestOK
  <2>3. PICK q, b : q = chunks[r] /\ b = got[r]
    OBVIOUS
  <2>4. q \in Seq(Chunks) /\ b \in Bytes /\ Shape(q, b) /\ buffered[r] = End(q, b) - b
    BY <2>2, <2>3 DEF TypeOK, QueueOK
  <2>5. /\ End(q, b) \in Nat /\ b \in Nat
        /\ q # <<>> => End(q, b) = Last(q)[2] /\ q[1][1] = b + 1
        /\ q = <<>> => End(q, b) = b
    BY <2>4, EndBounds
  <2>6. q # <<>> => buffered[r] = Last(q)[2] - q[1][1] + 1
    BY <2>4, <2>5
  <2>7. q = <<>> => buffered[r] = 0
    BY <2>4, <2>5
  <2> QED  BY <2>2, <2>3, <2>6, <2>7
<1> QED  BY <1>1, InvAlways, PTL

\* For bodies, chunks and reads of any size, no byte of a body in memory is
\* lost, doubled or reordered between the task and the reader (run_request,
\* Req::read).
THEOREM BytesStayInOrder == Spec => []BytesInOrder
<1>1. ASSUME Inv PROVE BytesInOrder
  <2>1. SUFFICES ASSUME NEW r \in Reqs, ~sink[r]
                 PROVE  /\ tpc[r] \in {"stream", "slot", "push", "eof"} =>
                              InOrder(chunks[r], got[r], PutAway(r))
                        /\ eof[r] => InOrder(chunks[r], got[r], received[r])
    BY DEF BytesInOrder
  <2>2. QueueOK(r) /\ StreamOK(r)
    BY <1>1 DEF Inv, RequestOK
  <2>3. InOrder(chunks[r], got[r], End(chunks[r], got[r]))
    BY <2>2 DEF QueueOK, Shape
  <2>4. /\ tpc[r] \in {"stream", "slot", "push", "eof"} =>
              End(chunks[r], got[r]) = PutAway(r)
        /\ eof[r] => End(chunks[r], got[r]) = received[r]
    BY <2>1, <2>2 DEF StreamOK
  <2> QED  BY <2>3, <2>4
<1> QED  BY <1>1, InvAlways, PTL

\* However many requests are cancelled, shut down or dropped meanwhile, a
\* request that settles without an error has seen the end of its body, and a
\* value REQUEST returns is the whole of it (Shared::settle, TaskGuard::drop,
\* REQUEST in http.lisp).
THEOREM SuccessIsComplete == Spec => []SuccessMeansComplete
<1>1. ASSUME Inv PROVE SuccessMeansComplete
  <2>1. SUFFICES ASSUME NEW r \in Reqs
                 PROVE  /\ settled[r] /\ err[r] = "none" => eof[r]
                        /\ result[r] = "value" =>
                              /\ eof[r] /\ headDone[r]
                              /\ IF sink[r] THEN written[r] = received[r]
                                 ELSE got[r] = received[r]
                              /\ MaxBody > 0 => received[r] <= MaxBody
    BY DEF SuccessMeansComplete
  <2>2. StreamOK(r) /\ OutcomeOK(r)
    BY <1>1 DEF Inv, RequestOK
  <2>3. result[r] = "value" => eof[r] /\ chunks[r] = <<>>
    BY <2>2 DEF OutcomeOK, Done
  <2>4. eof[r] => /\ Within(r)
                  /\ sink[r] => written[r] = received[r]
                  /\ ~sink[r] => End(chunks[r], got[r]) = received[r]
    BY <2>2 DEF StreamOK
  <2>5. chunks[r] = <<>> => End(chunks[r], got[r]) = got[r]
    BY DEF End
  <2>6. settled[r] /\ err[r] = "none" => eof[r]
    BY <2>2 DEF OutcomeOK
  <2> QED  BY <2>3, <2>4, <2>5, <2>6 DEF Within
<1> QED  BY <1>1, InvAlways, PTL

-----------------------------------------------------------------------------

\* What DoneIsFinal says of one request and one step.
StaysDone(r) ==
    Done(r) => Done(r)' /\ got'[r] = got[r] /\ err'[r] = err[r]

\* No step of a request takes its end back: its task has ended, so nothing is
\* pushed, and Settle keeps the terminal state that stands.
LEMMA OwnStepStaysDone ==
    ASSUME Inv, NEW r \in Reqs,
           \/ WorldStep(r) \/ TaskStep(r) \/ LispStep(r) \/ Unwind(r) \/ Cancel(r)
           \/ \E b \in BOOLEAN : Start(r, b)
    PROVE  StaysDone(r)
<1> SUFFICES ASSUME Done(r)
             PROVE  settled'[r] /\ chunks'[r] = <<>> /\ got'[r] = got[r] /\ err'[r] = err[r]
  BY DEF StaysDone, Done
<1>0. TypeOK /\ settled[r] /\ chunks[r] = <<>> /\ tpc[r] \in Ended
  BY DEF Inv, RequestOK, OutcomeOK, Done
<1>1. CASE WorldStep(r)
  BY <1>0, <1>1 DEF WorldStep, ResponseHead, StreamEnds, IoFails, Receive, Ended, Awaits
<1>2. CASE TaskStep(r)
  <2>1. \/ SettleError(r) \/ ReturnPermit(r) \/ LeaveFlight(r) \/ Announce(r)
        \/ SettleGuard(r)
    BY <1>0, <1>2 DEF TaskStep, Create, Write, AcquireSlot, Stall, Push, Flush, Eof,
                      SeeCancel, RuntimeDrops, Ended, Awaits
  <2>2. /\ UNCHANGED <<chunks, got>>
        /\ \/ UNCHANGED <<settled, err>>
           \/ \E e : Settle(r, e)
    BY <2>1 DEF SettleError, ReturnPermit, LeaveFlight, Announce, SettleGuard, Settle,
                sharedVars, lispVars
  <2> QED  BY <1>0, <2>2 DEF Settle, TypeOK
<1>3. CASE LispStep(r) \/ Unwind(r) \/ Cancel(r) \/ \E b \in BOOLEAN : Start(r, b)
  <2>1. UNCHANGED <<settled, err, chunks, got>>
    BY <1>0, <1>3 DEF LispStep, Admit, Spawn, ReadChunk, GiveBack, ReadNothing, TestDone,
                      Verify, FreeReq, Unwind, Cancel, Start, sharedVars, lispVars
  <2> QED  BY <1>0, <2>1
<1> QED  BY <1>1, <1>2, <1>3

LEMMA StepStaysDone ==
    ASSUME Inv, [Next]_vars, NEW r \in Reqs
    PROVE  StaysDone(r)
<1>1. PointsOK'
  BY CapacityNext DEF Inv, CapacityInv
<1>2. ASSUME NEW s \in Reqs,
             \/ WorldStep(s) \/ TaskStep(s) \/ LispStep(s) \/ Unwind(s) \/ Cancel(s)
             \/ \E b \in BOOLEAN : Start(s, b)
      PROVE  StaysDone(r)
  <2>1. CASE r = s
    BY <1>2, <2>1, OwnStepStaysDone
  <2>2. CASE r # s
    <3>1. OnlyOf(s)
      BY <1>1, <1>2, WorldTypes, TaskTypes, LispTypes
    <3> QED  BY <2>2, <3>1 DEF OnlyOf, StaysDone, Done
  <2> QED  BY <2>1, <2>2
<1>3. CASE NextReady \/ ShutDown \/ CloserStep \/ UNCHANGED vars
  <2>1. UNCHANGED <<settled, err, chunks, got>>
    BY <1>3 DEF NextReady, ShutDown, CloserStep, CancelEverything, TakeRuntime, vars,
                sharedVars, lispVars
  <2> QED  BY <2>1 DEF StaysDone, Done
<1> QED  BY <1>2, <1>3 DEF Next

\* "Nothing more will ever come out: settled AND drained" (Req::done): for
\* requests of any number and bodies of any size, a request that was once seen
\* done stays done, with the same error and without another byte.
THEOREM DoneForGood == Spec => DoneIsFinal
<1>1. ASSUME Inv, [Next]_vars
      PROVE  [\A r \in Reqs : Done(r) => /\ Done(r)'
                                         /\ got'[r] = got[r]
                                         /\ err'[r] = err[r]]_vars
  BY <1>1, StepStaysDone DEF StaysDone
<1> QED  BY <1>1, InvAlways, PTL DEF Spec, DoneIsFinal

=============================================================================
