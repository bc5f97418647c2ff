----------------------------- MODULE HttpdProofs -----------------------------
(***************************************************************************)
(* Proofs about the HTTP server of module Httpd, for any number of         *)
(* connections, requests, pullers and threads that stop, and any limits.   *)
(*                                                                         *)
(* A request that waits in the queue, or was drained from it by a stop,    *)
(* was pulled by nobody and its sender is unused; one that a puller has is *)
(* in the hands of that puller only, and its sender is unused until it     *)
(* answers.  That is why a sender is used once, and why what the client is *)
(* told and what Lisp is told agree.  A prune takes entries with a closed  *)
(* channel only, and keeps the order of the others (the lemmas about       *)
(* Live).                                                                  *)
(***************************************************************************)
EXTENDS Httpd, FiniteSetTheorems, SequenceTheorems, NaturalsInduction,
        WellFoundedInduction, TLAPS

-----------------------------------------------------------------------------
(***************************************************************************)
(* The inductive invariant.                                                *)
(***************************************************************************)

Distinct(s) == \A i, j \in 1..Len(s) : s[i] = s[j] => i = j

\* park has not pushed the request yet.
Early == {"idle", "permit", "body", "enable", "check", "await"}

\* The request is pushed, and its sender still has to be used.
Unsent(r) ==
    /\ rpc[r] \notin Early
    /\ chan[r] \in {"open", "closed"}
    /\ answer[r] \in {"none", "504"}
    /\ told[r] = "none"

\* What is in the queue, or was drained from it, no puller has seen.
Parked(s) == \A i \in 1..Len(s) : Unsent(s[i]) /\ ~pulled[s[i]]

QueueOK ==
    /\ Parked(q)
    /\ Distinct(q)

DrainedOK ==
    /\ \A t \in Threads : Parked(drained[t])
    /\ \A t \in Threads : drained[t] # <<>> => spc[t] = "send"
    /\ \A t, u \in Threads : t # u => drained[t] = <<>> \/ drained[u] = <<>>

\* A puller has a request from its pop to its free, and no two have the same.
HandsOK ==
    /\ \A p \in Pullers :
        /\ ppc[p] \in {"loop", "wait", "look", "sleep", "take", "pop", "uncount",
                       "returned"} => req[p] = NoReq
        /\ ppc[p] \in {"count", "handle", "send", "send500", "free"} => req[p] \in Reqs
        /\ held[p] => ppc[p] \in {"handle", "free"}
        /\ req[p] \in Reqs => pulled[req[p]]
        /\ req[p] \in Reqs /\ (held[p] \/ ppc[p] \in {"notify", "count", "send", "send500"})
             => Unsent(req[p])
    /\ \A p, s \in Pullers : req[p] = req[s] /\ req[p] # NoReq => p = s

\* The channel of a request, by where its park is.
ChanOK ==
    \A r \in Reqs :
        /\ rpc[r] \in {"idle", "permit", "body"} => chan[r] = "none"
        /\ rpc[r] \in {"enable", "check", "await"} => chan[r] = "open"
        /\ rpc[r] \in {"wake", "release", "reply", "late"} => chan[r] \in {"open"} \cup Sent
        /\ rpc[r] = "late" => HandlerLimit
        /\ chan[r] # "lost"
        /\ rpc[r] # "done" => answer[r] = "none"
        /\ rpc[r] \in Early => told[r] = "none" /\ ~pulled[r]

\* What was sent is what was told.
ToldOK ==
    \A r \in Reqs :
        /\ chan[r] = "lisp" => told[r] = "ok"
        /\ chan[r] = "500" => pulled[r] /\ told[r] = "none"
        /\ chan[r] = "503" => ~pulled[r]
        /\ told[r] = "gone" => chan[r] = "closed"

\* A stop sets the flag before it drains, and a puller ends only for a stop.
StopOK ==
    /\ \A t \in Threads :
        /\ spc[t] \in {"note", "drain", "send", "poll", "runtime", "over"} => down
        /\ spc[t] \in {"send", "poll", "runtime", "over"} => q = <<>>
    /\ stopCell \/ down => \E t \in Threads : spc[t] # "none"
    /\ \A p \in Pullers : ppc[p] = "returned" => stopCell \/ down

Inv ==
    /\ TypeOK /\ LimitsHold
    /\ StopOK
    /\ QueueOK /\ DrainedOK /\ HandsOK
    /\ ChanOK /\ ToldOK /\ AnswersAgree
    /\ NoLostSlot

-----------------------------------------------------------------------------
(***************************************************************************)
(* Svc::prune.                                                             *)
(***************************************************************************)

\* A set of numbers that is not empty has a least one.
LEMMA LeastNumber ==
    ASSUME NEW T \in SUBSET Nat, T # {}
    PROVE  \E n \in T : \A m \in T : n <= m
<1> DEFINE R == OpToRel(<, Nat)
<1>1. IsWellFoundedOn(R, Nat)
  BY NatLessThanWellFounded, Zenon
<1>2. \A n, m \in Nat : m < n => <<m, n>> \in R
  BY Zenon DEF OpToRel
<1> HIDE DEF R
<1>3. PICK n \in T : \A m \in T : ~ (<<m, n>> \in R)
  BY <1>1, WFMin
<1>4. \A m \in T : ~ (m < n)
  BY <1>2, <1>3
<1> QED
  BY <1>4

\* How many of the kept entries come up to the i-th.
Upto(K, i) == Cardinality({j \in K : j <= i})

\* Among the kept entries there is an n-th, for every n up to their number.
LEMMA NthKept ==
    ASSUME NEW L \in Nat, NEW K \in SUBSET (1..L), NEW n \in 1..Cardinality(K)
    PROVE  \E i \in K : Upto(K, i) = n
<1> DEFINE Pre(i) == {j \in K : j <= i}
           T == {i \in 0..L : Cardinality(Pre(i)) >= n}
<1>0. \A j \in K : j \in Nat /\ 1 <= j /\ j <= L
  OBVIOUS
<1>1. IsFiniteSet(K) /\ Cardinality(K) \in Nat
  <2>1. 1 \in Int /\ L \in Int
    OBVIOUS
  <2>2. IsFiniteSet(1..L)
    BY <2>1, FS_Interval
  <2> QED
    BY <2>2, FS_Subset, FS_CardinalityType
<1>2. \A i \in Nat : IsFiniteSet(Pre(i)) /\ Cardinality(Pre(i)) \in Nat
  <2> TAKE i \in Nat
  <2>1. Pre(i) \in SUBSET K
    OBVIOUS
  <2> QED
    BY <1>1, <2>1, FS_Subset, FS_CardinalityType
<1>3. Cardinality(Pre(0)) = 0
  <2>0. \A j \in K : ~(j <= 0)
    BY <1>0
  <2>1. Pre(0) = {}
    BY <2>0
  <2> QED
    BY <2>1, FS_EmptySet
<1>4. Cardinality(Pre(L)) >= n
  <2>1. Pre(L) = K
    BY <1>0
  <2> QED
    BY <1>1, <2>1
<1> HIDE DEF Pre
<1>5. L \in T /\ T \in SUBSET Nat
  BY <1>4
<1>6. PICK i \in T : \A m \in T : i <= m
  BY <1>5, LeastNumber
<1>7. i \in 1..L /\ i - 1 \in 0..L
  BY <1>3, <1>6
<1>8. Cardinality(Pre(i - 1)) < n
  BY <1>2, <1>6, <1>7
<1>9. CASE i \in K
  <2>0. /\ \A j \in K : (j <= i) <=> (j <= i - 1 \/ j = i)
        /\ i <= i /\ ~(i <= i - 1)
    BY <1>0, <1>7
  <2>1. Pre(i) = Pre(i - 1) \cup {i} /\ i \notin Pre(i - 1)
    BY <1>9, <2>0 DEF Pre
  <2>4. IsFiniteSet(Pre(i - 1))
    BY <1>2, <1>7
  <2>2. Cardinality(Pre(i)) = Cardinality(Pre(i - 1)) + 1
    BY <2>1, <2>4, FS_AddElement
  <2>3. Cardinality(Pre(i)) = n
    BY <1>2, <1>6, <1>7, <1>8, <2>2
  <2> QED
    BY <1>9, <2>3 DEF Upto, Pre
<1>10. CASE i \notin K
  <2>0. \A j \in K : (j <= i) <=> (j <= i - 1)
    BY <1>0, <1>7, <1>10
  <2>1. Pre(i) = Pre(i - 1)
    BY <2>0 DEF Pre
  <2> QED
    BY <1>2, <1>6, <1>7, <1>8, <2>1
<1> QED
  BY <1>9, <1>10

\* When all are kept, the n-th is the n-th.
LEMMA AllKept ==
    ASSUME NEW L \in Nat, NEW i \in 1..L
    PROVE  Upto(1..L, i) = i
<1>1. {j \in 1..L : j <= i} = 1..i
  OBVIOUS
<1>2. 1 \in Int /\ i \in Int
  OBVIOUS
<1>3. Cardinality(1..i) = IF 1 > i THEN 0 ELSE i - 1 + 1
  BY <1>2, FS_Interval
<1>4. ~(1 > i) /\ i - 1 + 1 = i
  OBVIOUS
<1>5. Cardinality(1..i) = i
  BY <1>3, <1>4
<1> QED
  BY <1>1, <1>5 DEF Upto

\* prune keeps entries of the queue, in their places one after the other, that
\* have a receiver; if it changed the queue, the queue is shorter.
LEMMA LiveProps ==
    ASSUME TypeOK, NEW s \in Seq(Reqs)
    PROVE  /\ Live(s) \in Seq(Reqs)
           /\ Len(Live(s)) <= Len(s)
           /\ Live(s) # s => Len(Live(s)) < Len(s)
           /\ \E f \in [1..Len(Live(s)) -> 1..Len(s)] :
                /\ \A n \in 1..Len(Live(s)) :
                     Live(s)[n] = s[f[n]] /\ chan[s[f[n]]] # "closed"
                /\ \A n, m \in 1..Len(Live(s)) : f[n] = f[m] => n = m
<1> DEFINE K == Kept(s)
           L == Len(s)
           C == Cardinality(K)
           g(n) == CHOOSE i \in K : Upto(K, i) = n
           f == [n \in 1..C |-> g(n)]
<1>1. L \in Nat /\ \A i \in 1..L : s[i] \in Reqs
  BY ElementOfSeq, LenProperties
<1>2. K \in SUBSET (1..L) /\ \A i \in K : chan[s[i]] # "closed"
  BY DEF Kept
<1>3. IsFiniteSet(1..L) /\ Cardinality(1..L) = L
  <2>1. 1 \in Int /\ L \in Int
    BY <1>1
  <2>2. IsFiniteSet(1..L) /\ Cardinality(1..L) = IF 1 > L THEN 0 ELSE L - 1 + 1
    BY <2>1, FS_Interval
  <2>3. CASE 1 > L
    BY <1>1, <2>2, <2>3
  <2>4. CASE ~(1 > L)
    <3>1. L - 1 + 1 = L
      BY <1>1
    <3> QED
      BY <2>2, <2>4, <3>1
  <2> QED
    BY <2>3, <2>4
<1>4. C \in Nat /\ C <= L /\ (C = L => K = 1..L)
  BY <1>2, <1>3, FS_Subset, FS_CardinalityType
<1>5. Live(s) = [n \in 1..C |-> s[g(n)]]
  BY DEF Live, Upto
<1> HIDE DEF K, C, L
<1>6. \A n \in 1..C : g(n) \in K /\ Upto(K, g(n)) = n
  <2> TAKE n \in 1..C
  <2>1. \E i \in K : Upto(K, i) = n
    BY <1>1, <1>2, NthKept DEF C
  <2> QED
    BY <2>1
<1> HIDE DEF g
<1>7. \A n \in 1..C : g(n) \in 1..L /\ s[g(n)] \in Reqs
  BY <1>1, <1>2, <1>6
<1>8. Live(s) \in Seq(Reqs) /\ Len(Live(s)) = C
  BY <1>4, <1>5, <1>7
<1>9. Live(s) # s => C < L
  <2> SUFFICES ASSUME C = L PROVE Live(s) = s
    BY <1>1, <1>4
  <2>1. \A n \in 1..L : g(n) = n
    <3> TAKE n \in 1..L
    <3>1. K = 1..L
      BY <1>4
    <3>2. g(n) \in 1..L /\ Upto(1..L, g(n)) = n
      BY <1>6, <3>1
    <3> QED
      BY <1>1, <3>2, AllKept
  <2>2. Live(s) = [n \in 1..L |-> s[n]]
    BY <1>5, <2>1
  <2>3. s = [n \in 1..L |-> s[n]]
    BY DEF L
  <2> QED
    BY <2>2, <2>3
<1>10. f \in [1..C -> 1..L]
  BY <1>7
<1>11. \A n \in 1..C : Live(s)[n] = s[f[n]] /\ chan[s[f[n]]] # "closed"
  BY <1>2, <1>5, <1>6
<1>12. \A n, m \in 1..C : f[n] = f[m] => n = m
  BY <1>6
<1> QED
  BY <1>4, <1>8, <1>9, <1>10, <1>11, <1>12 DEF L

-----------------------------------------------------------------------------
(***************************************************************************)
(* Who may change what: the steps of the accept loop and its connections,  *)
(* of park, of a puller and of a thread in STOP.                           *)
(***************************************************************************)

ConnNext ==
    \/ AcceptPermit \/ AcceptFails \/ AcceptStep
    \/ \E c \in Conns : Accept(c) \/ ConnEnds(c) \/ ConnStep(c)

ParkNext(r) ==
    \/ \E c \in Conns : Arrive(r, c)
    \/ BodyRead(r) \/ BodyRefused(r, "413") \/ HandlerTimeout(r) \/ ParkStep(r)

StopNext(t) == StopBegins(t) \/ StopStep(t) \/ (t = Main /\ DumpHook)

LEMMA NextParts ==
    Next => \/ ConnNext
            \/ \E r \in Reqs : ParkNext(r)
            \/ \E p \in Pullers : PullStep(p)
            \/ \E t \in Threads : StopNext(t)
<1> SUFFICES ASSUME Next
             PROVE  \/ ConnNext
                    \/ \E r \in Reqs : ParkNext(r)
                    \/ \E p \in Pullers : PullStep(p)
                    \/ \E t \in Threads : StopNext(t)
  OBVIOUS
<1>1. CASE ClientStep
  BY <1>1, Zenon DEF ClientStep, ConnNext, ParkNext
<1>2. CASE AcceptStep \/ \E c \in Conns : ConnStep(c)
  BY <1>2, Zenon DEF ConnNext
<1>3. CASE \E r \in Reqs : ParkStep(r)
  BY <1>3, Zenon DEF ParkNext
<1>4. CASE \E p \in Pullers : PullStep(p)
  BY <1>4
<1>5. CASE \E t \in Threads : StopBegins(t) \/ StopStep(t)
  BY <1>5, Zenon DEF StopNext
<1>6. CASE DumpHook
  <2>1. Main \in Threads
    BY DEF Threads
  <2> QED
    BY <1>6, <2>1, Zenon DEF StopNext
<1> QED
  BY <1>1, <1>2, <1>3, <1>4, <1>5, <1>6, Zenon DEF Next

LEMMA ConnKeeps ==
    ConnNext => UNCHANGED <<down, rtUp, q, bodyPermits, inFlight, reqVars, lispVars>>
<1> USE DEF svcVars, flags
<1>1. AcceptPermit \/ AcceptFails =>
        UNCHANGED <<down, rtUp, q, bodyPermits, inFlight, reqVars, lispVars>>
  BY DEF AcceptPermit, AcceptFails
<1>2. AcceptStep =>
        UNCHANGED <<down, rtUp, q, bodyPermits, inFlight, reqVars, lispVars>>
  BY DEF AcceptStep, AcceptStops, AcceptFinishes, AcceptDropped
<1>3. ASSUME NEW c \in Conns, Accept(c) \/ ConnEnds(c) \/ ConnStep(c)
      PROVE  UNCHANGED <<down, rtUp, q, bodyPermits, inFlight, reqVars, lispVars>>
  BY <1>3 DEF Accept, ConnEnds, ConnStep, ConnUncounted, ConnReleased
<1> QED
  BY <1>1, <1>2, <1>3, Zenon DEF ConnNext

LEMMA ParkKeeps ==
    ASSUME NEW r \in Reqs, ParkNext(r)
    PROVE  UNCHANGED <<inFlight, flags, connVars, lispVars>>
<1> USE DEF svcVars
<1>1. ASSUME NEW c \in Conns, Arrive(r, c)
      PROVE  UNCHANGED <<inFlight, flags, connVars, lispVars>>
  BY <1>1 DEF Arrive
<1>2. ASSUME BodyRead(r) \/ BodyRefused(r, "413") \/ HandlerTimeout(r)
      PROVE  UNCHANGED <<inFlight, flags, connVars, lispVars>>
  BY <1>2 DEF BodyRead, BodyRefused, HandlerTimeout
<1>3. ASSUME ParkStep(r)
      PROVE  UNCHANGED <<inFlight, flags, connVars, lispVars>>
  BY <1>3 DEF ParkStep, BodyPermit, BodyPermitTimeout, BodyRefused, PushEnable, PushCheck,
              Expire, AwaitReturns, PushReturns, Reply, LateReturns, Dropped
<1> QED
  BY <1>1, <1>2, <1>3, Zenon DEF ParkNext

LEMMA PullKeeps ==
    ASSUME NEW p \in Pullers, PullStep(p)
    PROVE  UNCHANGED <<flags, bodyPermits, connVars, rpc, on, expired, answer, stopVars>>
BY DEF PullStep, svcVars, reqVars, parkVars, ServeLoop, ServerWait, CheckUp, WaitLook,
       WaitWakes, TakeRequest, TakePop, TakeNotify, TakeCount, HandlerAnswers,
       HandlerSignals, TakeSender, HandlerReturns, SendAnswer, Send500, FreeRequest, Uncount

LEMMA StopKeeps ==
    ASSUME NEW t \in Threads, StopNext(t)
    PROVE  UNCHANGED <<bodyPermits, inFlight, connVars, rpc, on, expired, answer, pullVars>>
BY DEF StopNext, StopStep, svcVars, reqVars, parkVars, StopBegins, DumpHook, Join, SetDown,
       NotifyStop, Drain, DrainSends, PollEnds, TakeRuntime

-----------------------------------------------------------------------------
(***************************************************************************)
(* The permits and the counts.                                             *)
(***************************************************************************)

\* A set of which one element comes or goes.
LEMMA CountChange ==
    ASSUME NEW S, IsFiniteSet(S), NEW P \in SUBSET S, NEW Q \in SUBSET S, NEW x \in S,
           P \ {x} = Q \ {x}
    PROVE  /\ Cardinality(P) \in Nat /\ Cardinality(Q) \in Nat
           /\ x \in P /\ x \in Q => Cardinality(Q) = Cardinality(P)
           /\ x \notin P /\ x \notin Q => Cardinality(Q) = Cardinality(P)
           /\ x \in P /\ x \notin Q => Cardinality(Q) = Cardinality(P) - 1
           /\ x \notin P /\ x \in Q => Cardinality(Q) = Cardinality(P) + 1
<1>1. IsFiniteSet(P) /\ IsFiniteSet(Q)
  BY FS_Subset
<1>2. Cardinality(P) \in Nat /\ Cardinality(Q) \in Nat
  BY <1>1, FS_CardinalityType
<1>3. x \in P /\ x \in Q => P = Q
  OBVIOUS
<1>4. x \notin P /\ x \notin Q => P = Q
  OBVIOUS
<1>5. x \in P /\ x \notin Q => Q = P \ {x}
  OBVIOUS
<1>6. x \notin P /\ x \in Q => Q = P \cup {x}
  OBVIOUS
<1>7. x \in P => Cardinality(P \ {x}) = Cardinality(P) - 1
  BY <1>1, FS_RemoveElement
<1>8. x \notin P => Cardinality(P \cup {x}) = Cardinality(P) + 1
  BY <1>1, FS_AddElement
<1> QED
  BY <1>2, <1>3, <1>4, <1>5, <1>6, <1>7, <1>8

ReadingReqs == {r \in Reqs : rpc[r] \in Reading}
PermitConns == {c \in Conns : conn[c] \in {"open", "ended", "uncounted"}}
CountedConns == {c \in Conns : conn[c] \in {"open", "ended"}}
InHand == {p \in Pullers : held[p] \/ ppc[p] = "uncount"}

BodyCounted == bodyPermits + Cardinality(ReadingReqs) = Cap
ConnCounted ==
    /\ connPermits + Cardinality(PermitConns) + (IF acceptor = "accept" THEN 1 ELSE 0)
         = MaxConnections
    /\ connections = Cardinality(CountedConns)
InFlightCounted == inFlight = Cardinality(InHand)

LEMMA LimitsParts ==
    ASSUME TypeOK
    PROVE  LimitsHold <=> BodyCounted /\ ConnCounted /\ InFlightCounted /\ Len(q) <= Cap
<1>1. LimitsHold => BodyCounted /\ ConnCounted /\ InFlightCounted /\ Len(q) <= Cap
  BY DEF LimitsHold, BodyCounted, ConnCounted, InFlightCounted, ReadingReqs, PermitConns,
         CountedConns, InHand
<1>2. ConnCounted => connections <= MaxConnections
  <2>1. IsFiniteSet(PermitConns) /\ PermitConns \in SUBSET Conns
    BY SetsAssumption, FS_Subset DEF PermitConns
  <2>2. CountedConns \in SUBSET PermitConns
    BY DEF CountedConns, PermitConns
  <2>3. /\ Cardinality(PermitConns) \in Nat /\ Cardinality(CountedConns) \in Nat
        /\ Cardinality(CountedConns) <= Cardinality(PermitConns)
    BY <2>1, <2>2, FS_Subset, FS_CardinalityType
  <2>4. connPermits \in Nat /\ MaxConnections \in Nat
    BY LimitsAssumption DEF TypeOK
  <2> QED
    BY <2>3, <2>4 DEF ConnCounted
<1>3. BodyCounted /\ ConnCounted /\ InFlightCounted /\ Len(q) <= Cap => LimitsHold
  BY <1>2 DEF LimitsHold, BodyCounted, ConnCounted, InFlightCounted, ReadingReqs, PermitConns,
         CountedConns, InHand
<1> QED
  BY <1>1, <1>3

\* park moves, and the permit moves with it.
LEMMA BodyMoves ==
    ASSUME TypeOK, BodyCounted, NEW r \in Reqs, NEW w \in ParkPoints, Park(r, w),
           \/ rpc[r] \in Reading /\ w \in Reading /\ bodyPermits' = bodyPermits
           \/ rpc[r] \notin Reading /\ w \notin Reading /\ bodyPermits' = bodyPermits
           \/ rpc[r] \in Reading /\ w \notin Reading /\ bodyPermits' = bodyPermits + 1
           \/ rpc[r] \notin Reading /\ w \in Reading /\ bodyPermits' = bodyPermits - 1
    PROVE  BodyCounted'
<1> DEFINE P == ReadingReqs
           Q == ReadingReqs'
<1>1. rpc \in [Reqs -> ParkPoints] /\ bodyPermits \in Nat /\ Cap \in Nat
  BY LimitsAssumption DEF TypeOK
<1>2. P \in SUBSET Reqs /\ Q \in SUBSET Reqs
  BY DEF ReadingReqs
<1>3. P \ {r} = Q \ {r}
  BY <1>1 DEF ReadingReqs, Park
<1>4. (r \in P <=> rpc[r] \in Reading) /\ (r \in Q <=> w \in Reading)
  BY <1>1 DEF ReadingReqs, Park
<1>5. IsFiniteSet(Reqs)
  BY SetsAssumption
<1> HIDE DEF P, Q
<1>6. /\ Cardinality(P) \in Nat /\ Cardinality(Q) \in Nat
      /\ r \in P /\ r \in Q => Cardinality(Q) = Cardinality(P)
      /\ r \notin P /\ r \notin Q => Cardinality(Q) = Cardinality(P)
      /\ r \in P /\ r \notin Q => Cardinality(Q) = Cardinality(P) - 1
      /\ r \notin P /\ r \in Q => Cardinality(Q) = Cardinality(P) + 1
  BY <1>2, <1>3, <1>5, CountChange
<1>7. bodyPermits + Cardinality(P) = Cap
  BY DEF BodyCounted, P
<1>8. bodyPermits' + Cardinality(Q) = Cap
  BY <1>1, <1>4, <1>6, <1>7
<1> QED
  BY <1>8 DEF BodyCounted, Q

LEMMA BodyKeeps ==
    ASSUME TypeOK, BodyCounted, UNCHANGED <<rpc, bodyPermits>>
    PROVE  BodyCounted'
BY DEF BodyCounted, ReadingReqs

\* Every path through park, and its cancellation at any await, gives the body
\* permit back once.
LEMMA ParkCountsBodies ==
    ASSUME TypeOK, BodyCounted, NEW r \in Reqs, ParkNext(r)
    PROVE  BodyCounted' /\ bodyPermits' \in Nat
<1> DEFINE Goal == BodyCounted' /\ bodyPermits' \in Nat
<1>0. rpc \in [Reqs -> ParkPoints] /\ bodyPermits \in Nat
  BY DEF TypeOK
<1> USE DEF Reading, ParkPoints, Awaits, Runs
<1>1. ASSUME NEW c \in Conns, Arrive(r, c) PROVE Goal
  <2>1. rpc[r] = "idle" /\ bodyPermits' = bodyPermits
    BY <1>1 DEF Arrive, svcVars
  <2>2. Park(r, "done") \/ Park(r, "permit")
    BY <1>1 DEF Arrive, Return
  <2> QED
    BY <1>0, <2>1, <2>2, BodyMoves
<1>2. ASSUME BodyRead(r) PROVE Goal
  <2>1. rpc[r] = "body" /\ bodyPermits' = bodyPermits /\ Park(r, "enable")
    BY <1>2 DEF BodyRead, svcVars
  <2> QED
    BY <1>0, <2>1, BodyMoves
<1>3. ASSUME NEW s, BodyRefused(r, s) PROVE Goal
  <2>1. rpc[r] = "body" /\ bodyPermits' = bodyPermits + 1 /\ Park(r, "done")
    BY <1>3 DEF BodyRefused, Return
  <2> QED
    BY <1>0, <2>1, BodyMoves
<1>4. ASSUME HandlerTimeout(r) PROVE Goal
  <2>1. rpc[r] = "reply" /\ bodyPermits' = bodyPermits /\ Park(r, "late")
    BY <1>4 DEF HandlerTimeout, svcVars
  <2> QED
    BY <1>0, <2>1, BodyMoves
<1>5. ASSUME BodyPermit(r) PROVE Goal
  <2>1. rpc[r] = "permit" /\ bodyPermits > 0 /\ bodyPermits' = bodyPermits - 1 /\ Park(r, "body")
    BY <1>5 DEF BodyPermit
  <2> QED
    BY <1>0, <2>1, BodyMoves
<1>6. ASSUME BodyPermitTimeout(r) PROVE Goal
  <2>1. rpc[r] = "permit" /\ bodyPermits' = bodyPermits /\ Park(r, "done")
    BY <1>6 DEF BodyPermitTimeout, Return, svcVars
  <2> QED
    BY <1>0, <2>1, BodyMoves
<1>7. ASSUME PushEnable(r) PROVE Goal
  <2>1. rpc[r] = "enable" /\ bodyPermits' = bodyPermits /\ Park(r, "check")
    BY <1>7 DEF PushEnable, svcVars
  <2> QED
    BY <1>0, <2>1, BodyMoves
<1>8. ASSUME PushCheck(r) PROVE Goal
  <2>1. rpc[r] = "check"
    BY <1>8 DEF PushCheck
  <2>2. \/ bodyPermits' = bodyPermits + 1 /\ Park(r, "done")
        \/ bodyPermits' = bodyPermits /\ Park(r, "await")
        \/ bodyPermits' = bodyPermits /\ Park(r, "wake")
        \/ bodyPermits' = bodyPermits /\ Park(r, "release")
    <3>1. PushRefused(r) => bodyPermits' = bodyPermits + 1 /\ Park(r, "done")
      BY DEF PushRefused, Return
    <3>2. PushFull(r) => \/ PushRefused(r)
                         \/ bodyPermits' = bodyPermits /\ Park(r, "await")
      BY DEF PushFull
    <3>3. Pushed(r) => \/ bodyPermits' = bodyPermits /\ Park(r, "wake")
                       \/ bodyPermits' = bodyPermits /\ Park(r, "release")
      BY DEF Pushed
    <3> QED
      BY <1>8, <3>1, <3>2, <3>3 DEF PushCheck
  <2>3. CASE bodyPermits' = bodyPermits + 1 /\ Park(r, "done")
    BY <1>0, <2>1, <2>3, BodyMoves
  <2>4. CASE bodyPermits' = bodyPermits /\ Park(r, "await")
    BY <1>0, <2>1, <2>4, BodyMoves
  <2>5. CASE bodyPermits' = bodyPermits /\ Park(r, "wake")
    BY <1>0, <2>1, <2>5, BodyMoves
  <2>6. CASE bodyPermits' = bodyPermits /\ Park(r, "release")
    BY <1>0, <2>1, <2>6, BodyMoves
  <2> QED
    BY <2>2, <2>3, <2>4, <2>5, <2>6
<1>9. ASSUME Expire(r) PROVE Goal
  <2>1. UNCHANGED <<rpc, bodyPermits>>
    BY <1>9 DEF Expire, svcVars
  <2> QED
    BY <1>0, <2>1, BodyKeeps
<1>10. ASSUME AwaitReturns(r) PROVE Goal
  <2>1. rpc[r] = "await" /\ bodyPermits' = bodyPermits /\ Park(r, "enable")
    BY <1>10 DEF AwaitReturns, svcVars
  <2> QED
    BY <1>0, <2>1, BodyMoves
<1>11. ASSUME PushReturns(r) PROVE Goal
  <2>1. rpc[r] \in {"wake", "release"} /\ bodyPermits' = bodyPermits + 1 /\ Park(r, "reply")
    BY <1>11 DEF PushReturns
  <2> QED
    BY <1>0, <2>1, BodyMoves
<1>12. ASSUME Reply(r) PROVE Goal
  <2>1. rpc[r] = "reply" /\ bodyPermits' = bodyPermits /\ Park(r, "done")
    BY <1>12 DEF Reply, Return, svcVars
  <2> QED
    BY <1>0, <2>1, BodyMoves
<1>13. ASSUME LateReturns(r) PROVE Goal
  <2>1. rpc[r] = "late" /\ bodyPermits' = bodyPermits /\ Park(r, "done")
    BY <1>13 DEF LateReturns, Return, svcVars
  <2> QED
    BY <1>0, <2>1, BodyMoves
<1>14. ASSUME Dropped(r) PROVE Goal
  <2>1. Park(r, "dropped")
    BY <1>14 DEF Dropped
  <2>2. \/ rpc[r] \in Reading /\ bodyPermits' = bodyPermits + 1
        \/ rpc[r] \notin Reading /\ bodyPermits' = bodyPermits
    BY <1>0, <1>14 DEF Dropped
  <2> QED
    BY <1>0, <2>1, <2>2, BodyMoves
<1> HIDE DEF Goal
<1>15. ParkStep(r) => Goal
  BY <1>3, <1>5, <1>6, <1>7, <1>8, <1>9, <1>10, <1>11, <1>12, <1>13, <1>14, Zenon
     DEF ParkStep
<1>16. Goal
  BY <1>1, <1>2, <1>3, <1>4, <1>15, Zenon DEF ParkNext
<1> QED
  BY <1>16 DEF Goal

LEMMA ConnMoves ==
    ASSUME TypeOK, ConnCounted, NEW c \in Conns, NEW w,
           conn' = [conn EXCEPT ![c] = w]
    PROVE  LET P == PermitConns
               C == CountedConns
           IN  /\ Cardinality(P) \in Nat /\ Cardinality(P') \in Nat
               /\ Cardinality(C) \in Nat /\ Cardinality(C') \in Nat
               /\ conn[c] = "waiting" /\ w = "open" =>
                    Cardinality(P') = Cardinality(P) + 1 /\ Cardinality(C') = Cardinality(C) + 1
               /\ conn[c] = "open" /\ w = "ended" =>
                    Cardinality(P') = Cardinality(P) /\ Cardinality(C') = Cardinality(C)
               /\ conn[c] = "ended" /\ w = "uncounted" =>
                    Cardinality(P') = Cardinality(P) /\ Cardinality(C') = Cardinality(C) - 1
               /\ conn[c] = "uncounted" /\ w = "closed" =>
                    Cardinality(P') = Cardinality(P) - 1 /\ Cardinality(C') = Cardinality(C)
<1> DEFINE P == PermitConns
           Q == PermitConns'
           C == CountedConns
           D == CountedConns'
<1>1. DOMAIN conn = Conns
  BY DEF TypeOK
<1>2. P \in SUBSET Conns /\ Q \in SUBSET Conns /\ C \in SUBSET Conns /\ D \in SUBSET Conns
  BY DEF PermitConns, CountedConns
<1>3. P \ {c} = Q \ {c} /\ C \ {c} = D \ {c}
  BY <1>1 DEF PermitConns, CountedConns
<1>4. /\ c \in P <=> conn[c] \in {"open", "ended", "uncounted"}
      /\ c \in Q <=> w \in {"open", "ended", "uncounted"}
      /\ c \in C <=> conn[c] \in {"open", "ended"}
      /\ c \in D <=> w \in {"open", "ended"}
  BY <1>1 DEF PermitConns, CountedConns
<1>5. IsFiniteSet(Conns)
  BY SetsAssumption
<1> HIDE DEF P, Q, C, D
<1>6. /\ Cardinality(P) \in Nat /\ Cardinality(Q) \in Nat
      /\ c \in P /\ c \in Q => Cardinality(Q) = Cardinality(P)
      /\ c \in P /\ c \notin Q => Cardinality(Q) = Cardinality(P) - 1
      /\ c \notin P /\ c \in Q => Cardinality(Q) = Cardinality(P) + 1
  BY <1>2, <1>3, <1>5, CountChange
<1>7. /\ Cardinality(C) \in Nat /\ Cardinality(D) \in Nat
      /\ c \in C /\ c \in D => Cardinality(D) = Cardinality(C)
      /\ c \notin C /\ c \notin D => Cardinality(D) = Cardinality(C)
      /\ c \in C /\ c \notin D => Cardinality(D) = Cardinality(C) - 1
      /\ c \notin C /\ c \in D => Cardinality(D) = Cardinality(C) + 1
  BY <1>2, <1>3, <1>5, CountChange
<1>8. /\ Cardinality(P) \in Nat /\ Cardinality(Q) \in Nat
      /\ Cardinality(C) \in Nat /\ Cardinality(D) \in Nat
      /\ conn[c] = "waiting" /\ w = "open" =>
           Cardinality(Q) = Cardinality(P) + 1 /\ Cardinality(D) = Cardinality(C) + 1
      /\ conn[c] = "open" /\ w = "ended" =>
           Cardinality(Q) = Cardinality(P) /\ Cardinality(D) = Cardinality(C)
      /\ conn[c] = "ended" /\ w = "uncounted" =>
           Cardinality(Q) = Cardinality(P) /\ Cardinality(D) = Cardinality(C) - 1
      /\ conn[c] = "uncounted" /\ w = "closed" =>
           Cardinality(Q) = Cardinality(P) - 1 /\ Cardinality(D) = Cardinality(C)
  BY <1>4, <1>6, <1>7
<1> QED
  BY <1>8 DEF P, Q, C, D

ConnTypeOK ==
    /\ stopNote \in BOOLEAN /\ finished \in BOOLEAN
    /\ connections \in Nat /\ connPermits \in Nat
    /\ acceptor \in {"permit", "accept", "closing", "ended"}
    /\ conn \in [Conns -> {"waiting", "open", "ended", "uncounted", "closed"}]

\* So does every end of a connection with its place and its permit.
LEMMA ConnStepsCount ==
    ASSUME TypeOK, ConnCounted, ConnNext
    PROVE  ConnCounted' /\ ConnTypeOK'
<1> DEFINE Goal == ConnCounted' /\ ConnTypeOK'
           P == Cardinality(PermitConns)
           C == Cardinality(CountedConns)
<1>0. ConnTypeOK /\ MaxConnections \in Nat
  BY LimitsAssumption DEF TypeOK, ConnTypeOK
<1>1. /\ connPermits + P + (IF acceptor = "accept" THEN 1 ELSE 0) = MaxConnections
      /\ connections = C
  BY DEF ConnCounted
<1>2. P \in Nat /\ C \in Nat
  <2>1. PermitConns \in SUBSET Conns /\ CountedConns \in SUBSET Conns
    BY DEF PermitConns, CountedConns
  <2> QED
    BY <2>1, SetsAssumption, FS_Subset, FS_CardinalityType
<1>3. UNCHANGED conn => P' = P /\ C' = C
  BY DEF PermitConns, CountedConns
<1> HIDE DEF P, C
<1>4. ASSUME AcceptPermit \/ AcceptFails PROVE Goal
  <2>1. UNCHANGED <<conn, connections, stopNote, finished>>
    BY <1>4 DEF AcceptPermit, AcceptFails, svcVars, flags
  <2>2. \/ /\ acceptor = "permit" /\ acceptor' = "accept"
           /\ connPermits > 0 /\ connPermits' = connPermits - 1
        \/ acceptor = "accept" /\ acceptor' = "permit" /\ connPermits' = connPermits + 1
    BY <1>4 DEF AcceptPermit, AcceptFails
  <2>3. /\ connPermits' \in Nat
        /\ connPermits' + P' + (IF acceptor' = "accept" THEN 1 ELSE 0) = MaxConnections
    BY <1>0, <1>1, <1>2, <1>3, <2>1, <2>2 DEF ConnTypeOK
  <2>4. ConnTypeOK'
    BY <1>0, <2>1, <2>2, <2>3 DEF ConnTypeOK
  <2> QED
    BY <1>1, <1>3, <2>1, <2>3, <2>4 DEF ConnCounted, P, C
<1>5. ASSUME AcceptStep PROVE Goal
  <2>1. UNCHANGED <<conn, connections>>
    BY <1>5 DEF AcceptStep, AcceptStops, AcceptFinishes, AcceptDropped
  <2>2. stopNote' \in BOOLEAN /\ finished' \in BOOLEAN
    BY <1>0, <1>5 DEF AcceptStep, AcceptStops, AcceptFinishes, AcceptDropped, ConnTypeOK,
                      svcVars, flags
  <2>3. /\ acceptor' \in {"closing", "ended"}
        /\ connPermits' = connPermits + (IF acceptor = "accept" THEN 1 ELSE 0)
    BY <1>0, <1>5 DEF AcceptStep, AcceptStops, AcceptFinishes, AcceptDropped, ConnTypeOK
  <2>4. /\ connPermits' \in Nat
        /\ connPermits' + P' + (IF acceptor' = "accept" THEN 1 ELSE 0) = MaxConnections
    BY <1>0, <1>1, <1>2, <1>3, <2>1, <2>3 DEF ConnTypeOK
  <2>5. ConnTypeOK'
    BY <1>0, <2>1, <2>2, <2>3, <2>4 DEF ConnTypeOK
  <2> QED
    BY <1>1, <1>3, <2>1, <2>4, <2>5 DEF ConnCounted, P, C
<1>6. ASSUME NEW c \in Conns, Accept(c) PROVE Goal
  <2>1. /\ conn[c] = "waiting" /\ conn' = [conn EXCEPT ![c] = "open"]
        /\ connections' = connections + 1 /\ connPermits' = connPermits
        /\ acceptor = "accept" /\ acceptor' = "permit"
        /\ stopNote' = stopNote /\ finished' = finished
    BY <1>6 DEF Accept, svcVars, flags
  <2>2. P' = P + 1 /\ C' = C + 1
    BY <2>1, ConnMoves DEF P, C
  <2>3. ConnTypeOK'
    BY <1>0, <2>1 DEF ConnTypeOK
  <2>4. connPermits' + P' + (IF acceptor' = "accept" THEN 1 ELSE 0) = MaxConnections
    BY <1>0, <1>1, <1>2, <2>1, <2>2 DEF ConnTypeOK
  <2> QED
    BY <1>1, <2>1, <2>2, <2>3, <2>4 DEF ConnCounted, P, C
<1>7. ASSUME NEW c \in Conns, ConnEnds(c) PROVE Goal
  <2>1. /\ conn[c] = "open" /\ conn' = [conn EXCEPT ![c] = "ended"]
        /\ UNCHANGED <<connections, connPermits, acceptor, stopNote, finished>>
    BY <1>7 DEF ConnEnds, svcVars, flags
  <2>2. P' = P /\ C' = C
    BY <2>1, ConnMoves DEF P, C
  <2>3. ConnTypeOK'
    BY <1>0, <2>1 DEF ConnTypeOK
  <2> QED
    BY <1>1, <2>1, <2>2, <2>3 DEF ConnCounted, P, C
<1>8. ASSUME NEW c \in Conns, ConnUncounted(c) PROVE Goal
  <2>1. /\ conn[c] = "ended" /\ conn' = [conn EXCEPT ![c] = "uncounted"]
        /\ connections' = connections - 1
        /\ UNCHANGED <<connPermits, acceptor, stopNote, finished>>
    BY <1>8 DEF ConnUncounted, svcVars, flags
  <2>2. P' = P /\ C' = C - 1 /\ C' \in Nat
    BY <2>1, ConnMoves DEF P, C
  <2>3. ConnTypeOK'
    BY <1>0, <1>1, <2>1, <2>2 DEF ConnTypeOK
  <2> QED
    BY <1>1, <2>1, <2>2, <2>3 DEF ConnCounted, P, C
<1>9. ASSUME NEW c \in Conns, ConnReleased(c) PROVE Goal
  <2>1. /\ conn[c] = "uncounted" /\ conn' = [conn EXCEPT ![c] = "closed"]
        /\ connPermits' = connPermits + 1
        /\ UNCHANGED <<connections, acceptor, stopNote, finished>>
    BY <1>9 DEF ConnReleased, svcVars, flags
  <2>2. P' = P - 1 /\ C' = C
    BY <2>1, ConnMoves DEF P, C
  <2>3. ConnTypeOK'
    BY <1>0, <2>1 DEF ConnTypeOK
  <2>4. connPermits' + P' + (IF acceptor' = "accept" THEN 1 ELSE 0) = MaxConnections
    BY <1>0, <1>1, <1>2, <2>1, <2>2 DEF ConnTypeOK
  <2> QED
    BY <1>1, <2>1, <2>2, <2>3, <2>4 DEF ConnCounted, P, C
<1> HIDE DEF Goal
<1>10. ASSUME NEW c \in Conns, ConnStep(c) PROVE Goal
  BY <1>7, <1>8, <1>9, <1>10, Zenon DEF ConnStep
<1>11. Goal
  BY <1>4, <1>5, <1>6, <1>7, <1>10, Zenon DEF ConnNext
<1> QED
  BY <1>11 DEF Goal

\* A puller moves, and the count of the requests in flight with it.
LEMMA FlightMoves ==
    ASSUME TypeOK, InFlightCounted, NEW p \in Pullers, NEW w \in PullPoints, Pull(p, w),
           \A s \in Pullers \ {p} : held'[s] = held[s],
           LET in == held[p] \/ ppc[p] = "uncount"
               out == held'[p] \/ w = "uncount"
           IN  \/ (in <=> out) /\ inFlight' = inFlight
               \/ in /\ ~out /\ inFlight' = inFlight - 1
               \/ ~in /\ out /\ inFlight' = inFlight + 1
    PROVE  InFlightCounted' /\ inFlight' \in Nat
<1> DEFINE P == InHand
           Q == InHand'
<1>1. ppc \in [Pullers -> PullPoints]
  BY DEF TypeOK
<1>2. P \in SUBSET Pullers /\ Q \in SUBSET Pullers
  BY DEF InHand
<1>3. P \ {p} = Q \ {p}
  BY <1>1 DEF InHand, Pull
<1>4. (p \in P <=> held[p] \/ ppc[p] = "uncount") /\ (p \in Q <=> held'[p] \/ w = "uncount")
  BY <1>1 DEF InHand, Pull
<1>5. IsFiniteSet(Pullers)
  BY SetsAssumption
<1> HIDE DEF P, Q
<1>6. /\ Cardinality(P) \in Nat /\ Cardinality(Q) \in Nat
      /\ p \in P /\ p \in Q => Cardinality(Q) = Cardinality(P)
      /\ p \notin P /\ p \notin Q => Cardinality(Q) = Cardinality(P)
      /\ p \in P /\ p \notin Q => Cardinality(Q) = Cardinality(P) - 1
      /\ p \notin P /\ p \in Q => Cardinality(Q) = Cardinality(P) + 1
  BY <1>2, <1>3, <1>5, CountChange
<1>7. inFlight = Cardinality(P)
  BY DEF InFlightCounted, P
<1>8. \/ (p \in P <=> p \in Q) /\ inFlight' = inFlight
      \/ p \in P /\ p \notin Q /\ inFlight' = inFlight - 1
      \/ p \notin P /\ p \in Q /\ inFlight' = inFlight + 1
  BY <1>4
<1>9. inFlight' = Cardinality(Q)
  BY <1>6, <1>7, <1>8
<1> QED
  BY <1>6, <1>9 DEF InFlightCounted, Q

LEMMA PullersCount ==
    ASSUME TypeOK, HandsOK, InFlightCounted, NEW p \in Pullers, PullStep(p)
    PROVE  InFlightCounted' /\ inFlight' \in Nat
<1> DEFINE Goal == InFlightCounted' /\ inFlight' \in Nat
<1>0. /\ ppc \in [Pullers -> PullPoints] /\ held \in [Pullers -> BOOLEAN]
      /\ held[p] \in BOOLEAN
      /\ held[p] => ppc[p] \in {"handle", "free"}
  BY DEF TypeOK, HandsOK
<1> USE DEF PullPoints
<1>1. ASSUME NEW w \in PullPoints, Pull(p, w), w # "uncount", ppc[p] # "uncount",
             UNCHANGED <<held, inFlight>>
      PROVE  Goal
  BY <1>1, FlightMoves
<1>2. ASSUME ServeLoop(p) \/ ServerWait(p) \/ WaitLook(p) \/ WaitWakes(p) \/ TakeRequest(p)
      PROVE  Goal
  <2>1. UNCHANGED <<held, inFlight>> /\ ppc[p] # "uncount"
    BY <1>2 DEF ServeLoop, ServerWait, TakeRequest, CheckUp, WaitLook, WaitWakes, At, svcVars
  <2>2. \/ Pull(p, "returned") \/ Pull(p, "wait") \/ Pull(p, "look") \/ Pull(p, "take")
        \/ Pull(p, "sleep") \/ Pull(p, "loop") \/ Pull(p, "pop")
    BY <1>2 DEF ServeLoop, ServerWait, TakeRequest, CheckUp, WaitLook, WaitWakes
  <2> QED
    BY <1>1, <2>1, <2>2
<1>3. ASSUME TakePop(p) \/ TakeNotify(p) \/ SendAnswer(p) \/ Send500(p) \/ HandlerReturns(p)
      PROVE  Goal
  <2>1. UNCHANGED <<held, inFlight>> /\ ppc[p] # "uncount"
    BY <1>3 DEF TakePop, TakeNotify, SendAnswer, Send500, HandlerReturns, At, svcVars
  <2>2. \/ Pull(p, "notify") \/ Pull(p, "loop") \/ Pull(p, "count") \/ Pull(p, "handle")
        \/ Pull(p, "free")
    BY <1>3 DEF TakePop, TakeNotify, SendAnswer, Send500, HandlerReturns
  <2> QED
    BY <1>1, <2>1, <2>2
<1>4. ASSUME TakeCount(p) PROVE Goal
  <2>1. /\ ppc[p] = "count" /\ Pull(p, "handle") /\ inFlight' = inFlight + 1
        /\ held' = [held EXCEPT ![p] = TRUE]
    BY <1>4 DEF TakeCount, At
  <2>2. held'[p] /\ ~held[p] /\ \A s \in Pullers \ {p} : held'[s] = held[s]
    BY <1>0, <2>1
  <2> QED
    BY <2>1, <2>2, FlightMoves
<1>5. ASSUME NEW w \in PullPoints, NEW v \in PullPoints, w # "uncount", v # "uncount",
             ppc[p] = "handle", TakeSender(p, w, v)
      PROVE  Goal
  <2>1. held' = [held EXCEPT ![p] = FALSE]
    BY <1>5 DEF TakeSender
  <2>2. ~held'[p] /\ \A s \in Pullers \ {p} : held'[s] = held[s]
    BY <1>0, <2>1
  <2>3. inFlight \in Nat
    BY DEF TypeOK
  <2>4. CASE held[p]
    <3>1. Pull(p, w) /\ inFlight' = inFlight - 1
      BY <1>5, <2>4 DEF TakeSender
    <3> QED
      BY <1>5, <2>2, <2>4, <3>1, FlightMoves
  <2>5. CASE ~held[p]
    <3>1. Pull(p, v) /\ inFlight' = inFlight
      BY <1>5, <2>3, <2>5 DEF TakeSender
    <3> QED
      BY <1>5, <2>2, <2>5, <3>1, FlightMoves
  <2> QED
    BY <2>4, <2>5
<1>6. ASSUME HandlerAnswers(p) \/ HandlerSignals(p) PROVE Goal
  BY <1>5, <1>6 DEF HandlerAnswers, HandlerSignals, At
<1>7. ASSUME FreeRequest(p) PROVE Goal
  <2>1. /\ ppc[p] = "free" /\ Pull(p, IF held[p] THEN "uncount" ELSE "loop")
        /\ held' = [held EXCEPT ![p] = FALSE] /\ inFlight' = inFlight
    BY <1>7 DEF FreeRequest, At, svcVars
  <2>2. ~held'[p] /\ \A s \in Pullers \ {p} : held'[s] = held[s]
    BY <1>0, <2>1
  <2>3. CASE held[p]
    BY <2>1, <2>2, <2>3, FlightMoves
  <2>4. CASE ~held[p]
    BY <2>1, <2>2, <2>4, FlightMoves
  <2> QED
    BY <2>3, <2>4
<1>8. ASSUME Uncount(p) PROVE Goal
  <2>1. /\ ppc[p] = "uncount" /\ Pull(p, "loop") /\ inFlight' = inFlight - 1
        /\ held' = held
    BY <1>8 DEF Uncount, At
  <2> QED
    BY <1>0, <2>1, FlightMoves
<1> HIDE DEF Goal
<1>9. Goal
  BY <1>2, <1>3, <1>4, <1>6, <1>7, <1>8, Zenon DEF PullStep
<1> QED
  BY <1>9 DEF Goal

-----------------------------------------------------------------------------
(***************************************************************************)
(* Types, and the length of the queue.                                     *)
(***************************************************************************)

LEMMA NotifyTypes ==
    ASSUME NotifyWaiters
    PROVE  notified' \in [Reqs -> BOOLEAN]
BY Zenon DEF NotifyWaiters

ParkTypeOK ==
    /\ rpc \in [Reqs -> ParkPoints]
    /\ on \in [Reqs -> Conns \cup {NoConn}]
    /\ notified \in [Reqs -> BOOLEAN] /\ expired \in [Reqs -> BOOLEAN]
    /\ chan \in [Reqs -> {"none", "open", "closed", "lost"} \cup Sent]
    /\ answer \in [Reqs -> {"none", "408", "413", "504"} \cup Sent]

LEMMA ParkTypes ==
    ASSUME TypeOK, NEW r \in Reqs, ParkNext(r)
    PROVE  ParkTypeOK'
<1>0. ParkTypeOK
  BY DEF TypeOK, ParkTypeOK
<1> USE DEF ParkTypeOK, ParkPoints, Awaits, Runs, Sent, Park, Return, Hangup, LeavePush
<1>1. ASSUME NEW c \in Conns, Arrive(r, c) PROVE ParkTypeOK'
  BY <1>0, <1>1 DEF Arrive
<1>2. ASSUME BodyRead(r) PROVE ParkTypeOK'
  BY <1>0, <1>2 DEF BodyRead
<1>3. ASSUME NEW s \in {"408", "413"}, BodyRefused(r, s) PROVE ParkTypeOK'
  BY <1>0, <1>3 DEF BodyRefused
<1>4. ASSUME HandlerTimeout(r) PROVE ParkTypeOK'
  BY <1>0, <1>4 DEF HandlerTimeout
<1>5. ASSUME BodyPermit(r) PROVE ParkTypeOK'
  BY <1>0, <1>5 DEF BodyPermit
<1>6. ASSUME BodyPermitTimeout(r) PROVE ParkTypeOK'
  BY <1>0, <1>6 DEF BodyPermitTimeout
<1>7. ASSUME PushEnable(r) PROVE ParkTypeOK'
  BY <1>0, <1>7 DEF PushEnable
<1>8. ASSUME PushCheck(r) PROVE ParkTypeOK'
  <2>0. on' = on
    BY <1>8 DEF PushCheck
  <2>1. PushRefused(r) => ParkTypeOK'
    BY <1>0, <2>0 DEF PushRefused
  <2>2. PushFull(r) => ParkTypeOK'
    BY <1>0, <2>0, <2>1 DEF PushFull
  <2>3. Pushed(r) => ParkTypeOK'
    BY <1>0, <2>0 DEF Pushed
  <2> QED
    BY <1>8, <2>1, <2>2, <2>3 DEF PushCheck
<1>9. ASSUME Expire(r) PROVE ParkTypeOK'
  BY <1>0, <1>9 DEF Expire
<1>10. ASSUME AwaitReturns(r) PROVE ParkTypeOK'
  BY <1>0, <1>10 DEF AwaitReturns
<1>11. ASSUME PushReturns(r) PROVE ParkTypeOK'
  <2>1. notified' \in [Reqs -> BOOLEAN]
    BY <1>0, <1>11, NotifyTypes DEF PushReturns
  <2>2. Park(r, "reply") /\ UNCHANGED <<on, expired, chan, answer>>
    BY <1>11 DEF PushReturns
  <2> QED
    BY <1>0, <2>1, <2>2
<1>12. ASSUME Reply(r) PROVE ParkTypeOK'
  BY <1>0, <1>12 DEF Reply
<1>13. ASSUME LateReturns(r) PROVE ParkTypeOK'
  BY <1>0, <1>13 DEF LateReturns
<1>14. ASSUME Dropped(r) PROVE ParkTypeOK'
  BY <1>0, <1>14 DEF Dropped
<1> HIDE DEF ParkTypeOK
<1>15. ParkStep(r) => ParkTypeOK'
  BY <1>3, <1>5, <1>6, <1>7, <1>8, <1>9, <1>10, <1>11, <1>12, <1>13, <1>14, Zenon
     DEF ParkStep
<1> QED
  BY <1>1, <1>2, <1>3, <1>4, <1>15, Zenon DEF ParkNext

\* push appends, if what prune has left is shorter than QUEUE.
LEMMA ParkQueue ==
    ASSUME TypeOK, NEW r \in Reqs, ParkNext(r)
    PROVE  \/ q' = q
           \/ /\ PushCheck(r) /\ ~down /\ Len(Live(q)) < Cap /\ Pushed(r)
              /\ q' = Append(Live(q), r)
<1>1. ASSUME NEW c \in Conns, Arrive(r, c) PROVE q' = q
  BY <1>1 DEF Arrive, svcVars
<1>2. ASSUME BodyRead(r) \/ HandlerTimeout(r) PROVE q' = q
  BY <1>2 DEF BodyRead, HandlerTimeout, svcVars
<1>3. ASSUME NEW s, BodyRefused(r, s) PROVE q' = q
  BY <1>3 DEF BodyRefused
<1>4. ASSUME BodyPermit(r) \/ BodyPermitTimeout(r) \/ PushEnable(r) \/ Expire(r)
               \/ AwaitReturns(r)
      PROVE  q' = q
  BY <1>4 DEF BodyPermit, BodyPermitTimeout, PushEnable, Expire, AwaitReturns, svcVars
<1>5. ASSUME PushReturns(r) \/ Reply(r) \/ LateReturns(r) \/ Dropped(r) PROVE q' = q
  BY <1>5 DEF PushReturns, Reply, LateReturns, Dropped, svcVars
<1>6. ASSUME PushCheck(r)
      PROVE  \/ q' = q
             \/ /\ PushCheck(r) /\ ~down /\ Len(Live(q)) < Cap /\ Pushed(r)
                /\ q' = Append(Live(q), r)
  BY <1>6 DEF PushCheck, PushRefused, PushFull, Pushed
<1> QED
  BY <1>1, <1>2, <1>3, <1>4, <1>5, <1>6, Zenon DEF ParkNext, ParkStep

\* A puller or a stop only shortens the queue.
LEMMA OthersQueue ==
    ASSUME TypeOK
    PROVE  /\ \A p \in Pullers : PullStep(p) =>
                \/ q' = q
                \/ q' = Live(q) /\ WaitLook(p)
                \/ q' = <<>> /\ TakePop(p) /\ Live(q) = <<>>
                \/ q' = Tail(Live(q)) /\ Live(q) # <<>> /\ TakePop(p)
           /\ \A t \in Threads : StopNext(t) => q' = q \/ (q' = <<>> /\ Drain(t))
<1>1. ASSUME NEW p \in Pullers, PullStep(p)
      PROVE  \/ q' = q
             \/ q' = Live(q) /\ WaitLook(p)
             \/ q' = <<>> /\ TakePop(p) /\ Live(q) = <<>>
             \/ q' = Tail(Live(q)) /\ Live(q) # <<>> /\ TakePop(p)
  <2>1. CASE WaitLook(p)
    BY <2>1 DEF WaitLook
  <2>2. CASE TakePop(p)
    BY <2>2 DEF TakePop
  <2>3. CASE ~WaitLook(p) /\ ~TakePop(p)
    BY <1>1, <2>3 DEF PullStep, svcVars, ServeLoop, ServerWait, CheckUp, WaitWakes,
       TakeRequest, TakeNotify, TakeCount, HandlerAnswers, HandlerSignals, TakeSender,
       HandlerReturns, SendAnswer, Send500, FreeRequest, Uncount
  <2> QED
    BY <2>1, <2>2, <2>3
<1>2. ASSUME NEW t \in Threads, StopNext(t)
      PROVE  q' = q \/ (q' = <<>> /\ Drain(t))
  <2>1. CASE Drain(t)
    BY <2>1 DEF Drain
  <2>2. CASE ~Drain(t)
    BY <1>2, <2>2 DEF StopNext, StopStep, svcVars, StopBegins, DumpHook, Join, SetDown,
       NotifyStop, DrainSends, PollEnds, TakeRuntime
  <2> QED
    BY <2>1, <2>2
<1> QED
  BY <1>1, <1>2

\* The queue holds requests, and never more than QUEUE.
LEMMA QueueLength ==
    ASSUME TypeOK, Len(q) <= Cap, Next
    PROVE  q' \in Seq(Reqs) /\ Len(q') <= Cap
<1>0. q \in Seq(Reqs) /\ Len(q) \in Nat /\ Cap \in Nat
  BY LimitsAssumption DEF TypeOK
<1>1. Live(q) \in Seq(Reqs) /\ Len(Live(q)) <= Len(q) /\ Len(Live(q)) \in Nat
  BY <1>0, LiveProps
<1>2. q' = q => q' \in Seq(Reqs) /\ Len(q') <= Cap
  BY <1>0
<1>3. q' = <<>> => q' \in Seq(Reqs) /\ Len(q') <= Cap
  BY <1>0
<1>4. CASE ConnNext
  BY <1>2, <1>4, ConnKeeps
<1>5. ASSUME NEW r \in Reqs, ParkNext(r) PROVE q' \in Seq(Reqs) /\ Len(q') <= Cap
  <2>1. CASE Len(Live(q)) < Cap /\ q' = Append(Live(q), r)
    BY <1>0, <1>1, <2>1
  <2> QED
    BY <1>2, <1>5, <2>1, ParkQueue
<1>6. ASSUME NEW p \in Pullers, PullStep(p) PROVE q' \in Seq(Reqs) /\ Len(q') <= Cap
  <2>1. CASE q' = Live(q)
    BY <1>0, <1>1, <2>1
  <2>2. CASE q' = Tail(Live(q)) /\ Live(q) # <<>>
    BY <1>0, <1>1, <2>2
  <2> QED
    BY <1>2, <1>3, <1>6, <2>1, <2>2, OthersQueue
<1>7. ASSUME NEW t \in Threads, StopNext(t) PROVE q' \in Seq(Reqs) /\ Len(q') <= Cap
  BY <1>2, <1>3, <1>7, OthersQueue
<1> QED
  BY <1>4, <1>5, <1>6, <1>7, NextParts

PullTypeOK ==
    /\ ppc \in [Pullers -> PullPoints]
    /\ req \in [Pullers -> Reqs \cup {NoReq}]
    /\ held \in [Pullers -> BOOLEAN]
    /\ pulled \in [Reqs -> BOOLEAN]
    /\ told \in [Reqs -> {"none", "ok", "gone"}]

LEMMA PullTypes ==
    ASSUME TypeOK, HandsOK, NEW p \in Pullers, PullStep(p)
    PROVE  /\ PullTypeOK' /\ notified' \in [Reqs -> BOOLEAN]
           /\ chan' \in [Reqs -> {"none", "open", "closed", "lost"} \cup Sent]
<1> DEFINE ChanType == chan \in [Reqs -> {"none", "open", "closed", "lost"} \cup Sent]
           NoteType == notified \in [Reqs -> BOOLEAN]
           Goal == PullTypeOK' /\ NoteType' /\ ChanType'
<1>0. PullTypeOK /\ NoteType /\ ChanType
  BY DEF TypeOK, PullTypeOK
<1>1. ppc[p] \in {"send", "send500"} \/ held[p] => req[p] \in Reqs
  BY <1>0 DEF HandsOK
<1>2. UNCHANGED <<notified, chan>> => NoteType' /\ ChanType'
  BY <1>0
<1>3. ASSUME UNCHANGED <<req, held, pulled, told>>, NEW w \in PullPoints, Pull(p, w)
      PROVE  PullTypeOK'
  BY <1>0, <1>3 DEF PullTypeOK, Pull
<1> USE DEF PullPoints
<1> HIDE DEF ChanType, NoteType
<1>4. ASSUME ServeLoop(p) \/ ServerWait(p) \/ TakeRequest(p) \/ WaitWakes(p)
               \/ HandlerReturns(p)
      PROVE  Goal
  <2>1. UNCHANGED <<req, held, pulled, told, notified, chan>>
    BY <1>4 DEF ServeLoop, ServerWait, TakeRequest, CheckUp, WaitWakes, HandlerReturns,
                reqVars, parkVars, histVars
  <2>2. \/ Pull(p, "returned") \/ Pull(p, "wait") \/ Pull(p, "look") \/ Pull(p, "take")
        \/ Pull(p, "loop") \/ Pull(p, "pop") \/ Pull(p, "free")
    BY <1>4 DEF ServeLoop, ServerWait, TakeRequest, CheckUp, WaitWakes, HandlerReturns
  <2> QED
    BY <1>2, <1>3, <2>1, <2>2
<1>5. ASSUME WaitLook(p) \/ TakeNotify(p) PROVE Goal
  <2>1. UNCHANGED <<req, held, pulled, told, chan>>
    BY <1>5 DEF WaitLook, TakeNotify, histVars
  <2>2. Pull(p, "take") \/ Pull(p, "sleep") \/ Pull(p, "loop") \/ Pull(p, "count")
    BY <1>5 DEF WaitLook, TakeNotify
  <2>3. NotifyWaiters \/ notified' = notified
    BY <1>5 DEF WaitLook, TakeNotify
  <2>4. NoteType'
    BY <1>0, <2>3, NotifyTypes DEF NoteType
  <2>5. ChanType'
    BY <1>0, <2>1 DEF ChanType
  <2> QED
    BY <1>3, <2>1, <2>2, <2>4, <2>5
<1>6. ASSUME TakePop(p) PROVE Goal
  <2>1. UNCHANGED <<held, told, notified, chan>>
    BY <1>6 DEF TakePop, reqVars, parkVars
  <2>2. CASE Live(q) = <<>>
    <3>1. UNCHANGED <<req, pulled>> /\ (Pull(p, "notify") \/ Pull(p, "loop"))
      BY <1>6, <2>2 DEF TakePop
    <3> QED
      BY <1>2, <1>3, <2>1, <3>1
  <2>3. CASE Live(q) # <<>>
    <3>1. Head(Live(q)) \in Reqs
      BY <2>3, LiveProps DEF TypeOK
    <3>2. /\ req' = [req EXCEPT ![p] = Head(Live(q))]
          /\ pulled' = [pulled EXCEPT ![Head(Live(q))] = TRUE]
          /\ ppc' = [ppc EXCEPT ![p] = "notify"]
      BY <1>6, <2>3 DEF TakePop, Pull
    <3>3. PullTypeOK'
      BY <1>0, <2>1, <3>1, <3>2 DEF PullTypeOK
    <3> QED
      BY <1>2, <2>1, <3>3
  <2> QED
    BY <2>2, <2>3
<1>7. ASSUME TakeCount(p) \/ HandlerAnswers(p) \/ HandlerSignals(p) \/ Uncount(p) PROVE Goal
  <2>1. UNCHANGED <<req, pulled, told, notified, chan>>
    BY <1>7 DEF TakeCount, HandlerAnswers, HandlerSignals, TakeSender, Uncount, reqVars,
                parkVars, histVars
  <2>2. \/ held' = [held EXCEPT ![p] = TRUE] \/ held' = [held EXCEPT ![p] = FALSE]
        \/ held' = held
    BY <1>7 DEF TakeCount, HandlerAnswers, HandlerSignals, TakeSender, Uncount
  <2>3. \/ Pull(p, "handle") \/ Pull(p, "send") \/ Pull(p, "send500") \/ Pull(p, "free")
        \/ Pull(p, "loop")
    BY <1>7 DEF TakeCount, HandlerAnswers, HandlerSignals, TakeSender, Uncount
  <2>4. ppc' \in [Pullers -> PullPoints] /\ held' \in [Pullers -> BOOLEAN]
    BY <1>0, <2>2, <2>3 DEF PullTypeOK, Pull
  <2> QED
    BY <1>0, <1>2, <2>1, <2>4 DEF PullTypeOK
<1>8. ASSUME SendAnswer(p) PROVE Goal
  <2>1. ppc[p] = "send" /\ Send(req[p], "lisp") /\ Pull(p, "handle")
        /\ UNCHANGED <<req, held, pulled, notified>>
    BY <1>8 DEF SendAnswer, At, parkVars
  <2>2. told' = [told EXCEPT ![req[p]] = IF chan[req[p]] = "open" THEN "ok" ELSE "gone"]
    BY <1>8 DEF SendAnswer
  <2>3. told' \in [Reqs -> {"none", "ok", "gone"}]
    BY <1>0, <1>1, <2>1, <2>2 DEF PullTypeOK
  <2>4. ChanType'
    BY <1>0, <1>1, <2>1 DEF ChanType, Send, Sent
  <2>5. PullTypeOK'
    BY <1>0, <2>1, <2>3 DEF PullTypeOK, Pull
  <2> QED
    BY <1>0, <2>1, <2>4, <2>5 DEF NoteType
<1>9. ASSUME Send500(p) PROVE Goal
  <2>1. ppc[p] = "send500" /\ Send(req[p], "500") /\ Pull(p, "free")
        /\ UNCHANGED <<req, held, pulled, told, notified>>
    BY <1>9 DEF Send500, At, parkVars, histVars
  <2>2. ChanType'
    BY <1>0, <1>1, <2>1 DEF ChanType, Send, Sent
  <2> QED
    BY <1>0, <1>3, <2>1, <2>2 DEF NoteType
<1>10. ASSUME FreeRequest(p) PROVE Goal
  <2>1. /\ req' = [req EXCEPT ![p] = NoReq] /\ held' = [held EXCEPT ![p] = FALSE]
        /\ Pull(p, "uncount") \/ Pull(p, "loop")
        /\ UNCHANGED <<pulled, told, notified>>
    BY <1>10 DEF FreeRequest, parkVars, histVars
  <2>2. (held[p] /\ Send(req[p], "500")) \/ chan' = chan
    BY <1>10 DEF FreeRequest
  <2>3. ChanType'
    BY <1>0, <1>1, <2>2 DEF ChanType, Send, Sent
  <2>4. PullTypeOK'
    BY <1>0, <2>1 DEF PullTypeOK, Pull
  <2> QED
    BY <1>0, <2>1, <2>3, <2>4 DEF NoteType
<1> HIDE DEF Goal
<1>11. Goal
  BY <1>4, <1>5, <1>6, <1>7, <1>8, <1>9, <1>10, Zenon DEF PullStep
<1> QED
  BY <1>11 DEF Goal, ChanType, NoteType

StopTypeOK ==
    /\ down \in BOOLEAN /\ stopNote \in BOOLEAN /\ finished \in BOOLEAN /\ rtUp \in BOOLEAN
    /\ stopCell \in BOOLEAN /\ registered \in BOOLEAN
    /\ spc \in [Threads -> StopPoints]
    /\ quiescing \in [Threads -> BOOLEAN]
    /\ drained \in [Threads -> Seq(Reqs)]

LEMMA StopTypes ==
    ASSUME TypeOK, NEW t \in Threads, StopNext(t)
    PROVE  /\ StopTypeOK' /\ notified' \in [Reqs -> BOOLEAN]
           /\ chan' \in [Reqs -> {"none", "open", "closed", "lost"} \cup Sent]
<1> DEFINE ChanType == chan \in [Reqs -> {"none", "open", "closed", "lost"} \cup Sent]
           NoteType == notified \in [Reqs -> BOOLEAN]
           Goal == StopTypeOK' /\ NoteType' /\ ChanType'
<1>0. StopTypeOK /\ NoteType /\ ChanType /\ q \in Seq(Reqs) /\ <<>> \in Seq(Reqs)
  BY DEF TypeOK, StopTypeOK
<1>1. UNCHANGED <<notified, chan>> => NoteType' /\ ChanType'
  BY <1>0
<1> HIDE DEF ChanType, NoteType
<1> USE DEF StopTypeOK, StopPoints, Stop, flags
<1>2. ASSUME StopBegins(t) PROVE Goal
  BY <1>0, <1>1, <1>2 DEF StopBegins, reqVars, parkVars, svcVars
<1>3. ASSUME t = Main, DumpHook PROVE Goal
  BY <1>0, <1>1, <1>3 DEF DumpHook, reqVars, parkVars, svcVars
<1>4. ASSUME Join(t) PROVE Goal
  BY <1>0, <1>1, <1>4 DEF Join, reqVars, parkVars, svcVars
<1>5. ASSUME SetDown(t) \/ NotifyStop(t) \/ TakeRuntime(t) PROVE Goal
  BY <1>0, <1>1, <1>5 DEF SetDown, NotifyStop, TakeRuntime, reqVars, parkVars
<1>6. ASSUME Drain(t) PROVE Goal
  BY <1>0, <1>1, <1>6 DEF Drain, reqVars, parkVars
<1>7. ASSUME DrainSends(t) PROVE Goal
  <2>1. NoteType'
    BY <1>7, NotifyTypes DEF DrainSends, NoteType
  <2>2. ChanType'
    BY <1>0, <1>7 DEF DrainSends, ChanType, Sent
  <2>3. StopTypeOK'
    BY <1>0, <1>7 DEF DrainSends, svcVars
  <2> QED
    BY <2>1, <2>2, <2>3
<1>8. ASSUME PollEnds(t) PROVE Goal
  BY <1>0, <1>1, <1>8 DEF PollEnds, reqVars, parkVars, svcVars
<1> HIDE DEF Goal
<1>9. Goal
  BY <1>2, <1>3, <1>4, <1>5, <1>6, <1>7, <1>8, Zenon DEF StopNext, StopStep
<1> QED
  BY <1>9 DEF Goal, ChanType, NoteType

LEMMA TypeParts ==
    TypeOK <=> /\ ConnTypeOK /\ ParkTypeOK /\ PullTypeOK /\ StopTypeOK
               /\ q \in Seq(Reqs) /\ bodyPermits \in Nat /\ inFlight \in Nat
BY DEF TypeOK, ConnTypeOK, ParkTypeOK, PullTypeOK, StopTypeOK

LEMMA TypesAndLimits ==
    ASSUME TypeOK, LimitsHold, HandsOK, Next
    PROVE  TypeOK' /\ LimitsHold'
<1> USE DEF svcVars, flags, connVars, parkVars, reqVars, histVars, pullVars, stopVars, lispVars
<1>1. /\ ConnTypeOK /\ ParkTypeOK /\ PullTypeOK /\ StopTypeOK
      /\ bodyPermits \in Nat /\ inFlight \in Nat
      /\ BodyCounted /\ ConnCounted /\ InFlightCounted /\ Len(q) <= Cap
  BY TypeParts, LimitsParts
<1>2. q' \in Seq(Reqs) /\ Len(q') <= Cap
  BY <1>1, QueueLength
<1>3. UNCHANGED connVars /\ UNCHANGED <<stopNote, finished>> => ConnTypeOK'
  BY <1>1 DEF ConnTypeOK
<1>4. UNCHANGED connVars => ConnCounted'
  BY <1>1 DEF ConnCounted, PermitConns, CountedConns
<1>5. UNCHANGED reqVars => ParkTypeOK'
  BY <1>1 DEF ParkTypeOK
<1>6. UNCHANGED pullVars => PullTypeOK'
  BY <1>1 DEF PullTypeOK
<1>7. UNCHANGED <<down, rtUp>> /\ UNCHANGED stopVars /\ ConnTypeOK' => StopTypeOK'
  BY <1>1 DEF StopTypeOK, ConnTypeOK
<1>8. UNCHANGED <<rpc, bodyPermits>> => BodyCounted' /\ bodyPermits' \in Nat
  BY <1>1, BodyKeeps
<1>9. UNCHANGED pullVars /\ UNCHANGED inFlight => InFlightCounted' /\ inFlight' \in Nat
  BY <1>1 DEF InFlightCounted, InHand
<1>10. SUFFICES /\ ConnTypeOK' /\ ParkTypeOK' /\ PullTypeOK' /\ StopTypeOK'
                /\ bodyPermits' \in Nat /\ inFlight' \in Nat
                /\ BodyCounted' /\ ConnCounted' /\ InFlightCounted'
  <2> SUFFICES ASSUME /\ ConnTypeOK' /\ ParkTypeOK' /\ PullTypeOK' /\ StopTypeOK'
                      /\ bodyPermits' \in Nat /\ inFlight' \in Nat
                      /\ BodyCounted' /\ ConnCounted' /\ InFlightCounted'
               PROVE  TypeOK' /\ LimitsHold'
    OBVIOUS
  <2>1. TypeOK'
    BY <1>2 DEF TypeOK, ConnTypeOK, ParkTypeOK, PullTypeOK, StopTypeOK
  <2>2. (LimitsHold <=> BodyCounted /\ ConnCounted /\ InFlightCounted /\ Len(q) <= Cap)'
    BY <2>1, LimitsParts, PTL
  <2> QED
    BY <1>2, <2>1, <2>2
<1>11. CASE ConnNext
  <2>1. UNCHANGED <<down, rtUp, q, bodyPermits, inFlight, reqVars, lispVars>>
    BY <1>11, ConnKeeps
  <2>2. ConnTypeOK' /\ ConnCounted'
    BY <1>1, <1>11, ConnStepsCount
  <2> QED
    BY <1>5, <1>6, <1>7, <1>8, <1>9, <2>1, <2>2
<1>12. ASSUME NEW r \in Reqs, ParkNext(r)
       PROVE  /\ ConnTypeOK' /\ ParkTypeOK' /\ PullTypeOK' /\ StopTypeOK'
              /\ bodyPermits' \in Nat /\ inFlight' \in Nat
              /\ BodyCounted' /\ ConnCounted' /\ InFlightCounted'
  <2>1. UNCHANGED <<inFlight, flags, connVars, lispVars>>
    BY <1>12, ParkKeeps
  <2>2. ParkTypeOK'
    BY <1>12, ParkTypes
  <2>3. BodyCounted' /\ bodyPermits' \in Nat
    BY <1>1, <1>12, ParkCountsBodies
  <2> QED
    BY <1>3, <1>4, <1>6, <1>7, <1>9, <2>1, <2>2, <2>3
<1>13. ASSUME NEW p \in Pullers, PullStep(p)
       PROVE  /\ ConnTypeOK' /\ ParkTypeOK' /\ PullTypeOK' /\ StopTypeOK'
              /\ bodyPermits' \in Nat /\ inFlight' \in Nat
              /\ BodyCounted' /\ ConnCounted' /\ InFlightCounted'
  <2>1. UNCHANGED <<flags, bodyPermits, connVars, rpc, on, expired, answer, stopVars>>
    BY <1>13, PullKeeps
  <2>2. /\ PullTypeOK' /\ notified' \in [Reqs -> BOOLEAN]
        /\ chan' \in [Reqs -> {"none", "open", "closed", "lost"} \cup Sent]
    BY <1>13, PullTypes
  <2>3. ParkTypeOK'
    BY <1>1, <2>1, <2>2 DEF ParkTypeOK
  <2>4. InFlightCounted' /\ inFlight' \in Nat
    BY <1>1, <1>13, PullersCount
  <2> QED
    BY <1>3, <1>4, <1>7, <1>8, <2>1, <2>2, <2>3, <2>4
<1>14. ASSUME NEW t \in Threads, StopNext(t)
       PROVE  /\ ConnTypeOK' /\ ParkTypeOK' /\ PullTypeOK' /\ StopTypeOK'
              /\ bodyPermits' \in Nat /\ inFlight' \in Nat
              /\ BodyCounted' /\ ConnCounted' /\ InFlightCounted'
  <2>1. UNCHANGED <<bodyPermits, inFlight, connVars, rpc, on, expired, answer, pullVars>>
    BY <1>14, StopKeeps
  <2>2. /\ StopTypeOK' /\ notified' \in [Reqs -> BOOLEAN]
        /\ chan' \in [Reqs -> {"none", "open", "closed", "lost"} \cup Sent]
    BY <1>14, StopTypes
  <2>3. ParkTypeOK'
    BY <1>1, <2>1, <2>2 DEF ParkTypeOK
  <2>4. ConnTypeOK'
    BY <1>1, <2>1, <2>2 DEF ConnTypeOK, StopTypeOK
  <2> QED
    BY <1>4, <1>6, <1>8, <1>9, <2>1, <2>2, <2>3, <2>4
<1> QED
  BY <1>11, <1>12, <1>13, <1>14, NextParts

-----------------------------------------------------------------------------
(***************************************************************************)
(* Stopping.                                                               *)
(***************************************************************************)

\* An empty queue stays empty once the flag is set.
LEMMA EmptyStays ==
    ASSUME TypeOK, down, q = <<>>, Next
    PROVE  q' = <<>>
<1>1. q \in Seq(Reqs) /\ Live(q) \in Seq(Reqs) /\ Len(Live(q)) <= Len(q)
  BY LiveProps DEF TypeOK
<1>2. Live(q) = <<>>
  BY <1>1
<1>3. CASE ConnNext
  BY <1>3, ConnKeeps
<1>4. ASSUME NEW r \in Reqs, ParkNext(r) PROVE q' = <<>>
  BY <1>4, ParkQueue
<1>5. ASSUME NEW p \in Pullers, PullStep(p) PROVE q' = <<>>
  BY <1>2, <1>5, OthersQueue
<1>6. ASSUME NEW t \in Threads, StopNext(t) PROVE q' = <<>>
  BY <1>6, OthersQueue
<1> QED
  BY <1>3, <1>4, <1>5, <1>6, NextParts

LEMMA StopOKSteps ==
    ASSUME TypeOK, StopOK, Next
    PROVE  StopOK'
<1> USE DEF flags, stopVars, lispVars, pullVars, histVars
<1>0. spc \in [Threads -> StopPoints] /\ ppc \in [Pullers -> PullPoints]
  BY DEF TypeOK
<1>1. ASSUME UNCHANGED <<down, stopCell, spc>>, q = <<>> /\ down => q' = <<>>,
             \A p \in Pullers : ppc'[p] = "returned" => stopCell \/ down
      PROVE  StopOK'
  BY <1>1 DEF StopOK
<1>2. q = <<>> /\ down => q' = <<>>
  BY EmptyStays
<1>3. CASE ConnNext
  BY <1>1, <1>2, <1>3, ConnKeeps DEF StopOK
<1>4. ASSUME NEW r \in Reqs, ParkNext(r) PROVE StopOK'
  BY <1>1, <1>2, <1>4, ParkKeeps DEF StopOK
<1>5. ASSUME NEW p \in Pullers, PullStep(p) PROVE StopOK'
  <2>1. UNCHANGED <<down, stopCell, spc>>
    BY <1>5, PullKeeps
  <2>2. \/ ServeLoop(p) \/ ServerWait(p) \/ TakeRequest(p)
        \/ \E w \in PullPoints \ {"returned"} : Pull(p, w)
    BY <1>5 DEF PullStep, PullPoints, WaitLook, WaitWakes, TakePop, TakeNotify, TakeCount,
       HandlerAnswers, HandlerSignals, TakeSender, HandlerReturns, SendAnswer, Send500,
       FreeRequest, Uncount
  <2>3. ASSUME NEW w, Pull(p, w), w = "returned" => stopCell \/ down
        PROVE  \A s \in Pullers : ppc'[s] = "returned" => stopCell \/ down
    BY <1>0, <2>3 DEF StopOK, Pull
  <2>4. \A s \in Pullers : ppc'[s] = "returned" => stopCell \/ down
    <3>1. CASE ServeLoop(p)
      <4>1. Pull(p, IF stopCell THEN "returned" ELSE "wait")
        BY <3>1 DEF ServeLoop
      <4> QED
        BY <2>3, <4>1
    <3>2. CASE ServerWait(p) \/ TakeRequest(p)
      <4>1. Pull(p, IF down THEN "returned" ELSE "look")
              \/ Pull(p, IF down THEN "returned" ELSE "pop")
        BY <3>2 DEF ServerWait, TakeRequest, CheckUp
      <4> QED
        BY <2>3, <4>1
    <3>3. CASE \E w \in PullPoints \ {"returned"} : Pull(p, w)
      BY <2>3, <3>3
    <3> QED
      BY <2>2, <3>1, <3>2, <3>3
  <2> QED
    BY <1>1, <1>2, <2>1, <2>4
<1>6. ASSUME NEW t \in Threads, StopNext(t) PROVE StopOK'
  <2>1. ppc' = ppc
    BY <1>6, StopKeeps
  <2>2. ASSUME NEW w \in StopPoints \ {"none"}, Stop(t, w),
               down => down', stopCell => stopCell',
               w \in {"note", "drain", "send", "poll", "runtime", "over"} => down',
               w \in {"send", "poll", "runtime", "over"} => q' = <<>>
        PROVE  StopOK'
    <3>1. \A u \in Threads : spc'[u] = IF u = t THEN w ELSE spc[u]
      BY <1>0, <2>2 DEF Stop
    <3>2. \A u \in Threads :
            /\ spc'[u] \in {"note", "drain", "send", "poll", "runtime", "over"} => down'
            /\ spc'[u] \in {"send", "poll", "runtime", "over"} => q' = <<>>
      BY <1>2, <2>2, <3>1 DEF StopOK
    <3>3. spc'[t] # "none"
      BY <2>2, <3>1
    <3> QED
      BY <2>1, <2>2, <3>2, <3>3 DEF StopOK
  <2> USE DEF StopPoints
  <2>3. CASE StopBegins(t)
    <3>1. down' = down /\ (stopCell => stopCell') /\ (Stop(t, "join") \/ Stop(t, "down"))
      BY <2>3 DEF StopBegins, svcVars
    <3> QED
      BY <2>2, <3>1
  <2>4. CASE t = Main /\ DumpHook
    <3>1. UNCHANGED <<down, stopCell>> /\ Stop(t, "down")
      BY <2>4 DEF DumpHook, svcVars
    <3> QED
      BY <2>2, <3>1
  <2>5. CASE Join(t)
    <3>1. UNCHANGED <<down, stopCell>> /\ Stop(t, "down")
      BY <2>5 DEF Join, svcVars
    <3> QED
      BY <2>2, <3>1
  <2>6. CASE SetDown(t)
    <3>1. down' /\ UNCHANGED stopCell /\ Stop(t, "note")
      BY <2>6 DEF SetDown
    <3> QED
      BY <2>2, <3>1
  <2>7. CASE NotifyStop(t)
    <3>1. UNCHANGED <<down, stopCell>> /\ Stop(t, "drain") /\ spc[t] = "note"
      BY <2>7 DEF NotifyStop
    <3>2. down
      BY <3>1 DEF StopOK
    <3> QED
      BY <2>2, <3>1, <3>2
  <2>8. CASE Drain(t)
    <3>1. UNCHANGED <<down, stopCell>> /\ Stop(t, "send") /\ spc[t] = "drain" /\ q' = <<>>
      BY <2>8 DEF Drain
    <3>2. down
      BY <3>1 DEF StopOK
    <3> QED
      BY <2>2, <3>1, <3>2
  <2>9. CASE DrainSends(t)
    <3>1. UNCHANGED <<down, stopCell>> /\ Stop(t, "poll") /\ spc[t] = "send"
      BY <2>9 DEF DrainSends, svcVars
    <3>2. down /\ q' = <<>>
      BY <1>2, <3>1 DEF StopOK
    <3> QED
      BY <2>2, <3>1, <3>2
  <2>10. CASE PollEnds(t)
    <3>1. /\ UNCHANGED <<down, stopCell>> /\ spc[t] = "poll"
          /\ Stop(t, "runtime") \/ Stop(t, "down")
      BY <2>10 DEF PollEnds, svcVars
    <3>2. down /\ q' = <<>>
      BY <1>2, <3>1 DEF StopOK
    <3> QED
      BY <2>2, <3>1, <3>2
  <2>11. CASE TakeRuntime(t)
    <3>1. UNCHANGED <<down, stopCell>> /\ spc[t] = "runtime" /\ Stop(t, "over")
      BY <2>11 DEF TakeRuntime
    <3>2. down /\ q' = <<>>
      BY <1>2, <3>1 DEF StopOK
    <3> QED
      BY <2>2, <3>1, <3>2
  <2> QED
    BY <1>6, <2>3, <2>4, <2>5, <2>6, <2>7, <2>8, <2>9, <2>10, <2>11 DEF StopNext, StopStep
<1> QED
  BY <1>3, <1>4, <1>5, <1>6, NextParts

LEMMA StopServes ==
    ASSUME TypeOK, StopOK
    PROVE  ParkedIsServed
<1>0. spc \in [Threads -> StopPoints] /\ Pullers # {}
  BY SetsAssumption DEF TypeOK
<1>1. SUFFICES ASSUME q # <<>>
               PROVE  /\ \/ \E p \in Pullers : ppc[p] # "returned"
                         \/ \E t \in Threads : spc[t] \in {"join", "down", "note", "drain"}
                      /\ \A t \in Threads : spc[t] \notin {"send", "poll", "runtime", "over"}
  BY DEF ParkedIsServed
<1>2. \A t \in Threads : spc[t] \notin {"send", "poll", "runtime", "over"}
  BY <1>1 DEF StopOK
<1>3. ASSUME \A p \in Pullers : ppc[p] = "returned"
      PROVE  \E t \in Threads : spc[t] \in {"join", "down", "note", "drain"}
  <2>1. PICK t \in Threads : spc[t] # "none"
    BY <1>0, <1>3 DEF StopOK
  <2> QED
    BY <1>0, <1>2, <2>1 DEF StopPoints
<1> QED
  BY <1>2, <1>3

-----------------------------------------------------------------------------
(***************************************************************************)
(* A push that sleeps.                                                     *)
(***************************************************************************)

\* The queue is full, or somebody is about to notify.
Coming ==
    \/ Len(q) >= Cap
    \/ \E p \in Pullers : ppc[p] = "notify"
    \/ \E s \in Reqs : rpc[s] = "wake"
    \/ \E t \in Threads : spc[t] = "send"

LEMMA SlotByComing ==
    NoLostSlot <=> \A r \in Reqs : rpc[r] = "await" /\ ~notified[r] => Coming
BY DEF NoLostSlot, Coming

\* Whoever sleeps when all are notified is notified.
LEMMA SlotNotified ==
    ASSUME NotifyWaiters, \A r \in Reqs : rpc'[r] = "await" => rpc[r] = "await"
    PROVE  NoLostSlot'
BY DEF NotifyWaiters, NoLostSlot

LEMMA SlotKept ==
    ASSUME NoLostSlot, Coming => Coming',
           \A r \in Reqs : rpc'[r] = "await" => rpc[r] = "await" /\ notified'[r] = notified[r]
    PROVE  NoLostSlot'
<1>1. \A r \in Reqs : rpc[r] = "await" /\ ~notified[r] => Coming
  BY SlotByComing
<1>2. \A r \in Reqs : rpc'[r] = "await" /\ ~notified'[r] => Coming'
  BY <1>1
<1> QED
  BY <1>2 DEF NoLostSlot, Coming

\* The future is enabled before the queue is looked at, and every path that
\* makes room notifies after it.
LEMMA SlotSteps ==
    ASSUME TypeOK, LimitsHold, NoLostSlot, Next
    PROVE  NoLostSlot'
<1> USE DEF flags, stopVars, lispVars, pullVars, histVars, svcVars, reqVars, parkVars
<1>0. /\ rpc \in [Reqs -> ParkPoints] /\ notified \in [Reqs -> BOOLEAN]
      /\ ppc \in [Pullers -> PullPoints] /\ spc \in [Threads -> StopPoints]
      /\ Len(q) \in Nat /\ Cap \in Nat /\ Len(q) <= Cap
  BY LimitsAssumption DEF TypeOK, LimitsHold
<1>1. /\ Len(Live(q)) \in Nat /\ Len(Live(q)) <= Len(q)
      /\ Live(q) # q => Len(Live(q)) < Len(q)
  BY LiveProps DEF TypeOK
<1>2. CASE ConnNext
  <2>1. UNCHANGED <<q, ppc, rpc, notified, spc>>
    BY <1>2, ConnKeeps
  <2> QED
    BY <2>1, SlotKept DEF Coming
<1>3. ASSUME NEW r \in Reqs, ParkNext(r) PROVE NoLostSlot'
  <2>0. UNCHANGED <<ppc, spc>>
    BY <1>3, ParkKeeps
  <2>1. ASSUME NEW w \in ParkPoints, Park(r, w), w # "await", rpc[r] # "wake", q' = q,
               \A s \in Reqs \ {r} : notified'[s] = notified[s]
        PROVE  NoLostSlot'
    <3>1. \A s \in Reqs : rpc'[s] = IF s = r THEN w ELSE rpc[s]
      BY <1>0, <2>1 DEF Park
    <3>2. Coming => Coming'
      BY <2>0, <2>1, <3>1 DEF Coming
    <3> QED
      BY <2>1, <3>1, <3>2, SlotKept
  <2>2. LeavePush(r) => \A s \in Reqs \ {r} : notified'[s] = notified[s]
    BY <1>0 DEF LeavePush
  <2> USE DEF ParkPoints, Awaits, Runs
  <2>3. ASSUME NEW c \in Conns, Arrive(r, c) PROVE NoLostSlot'
    <3>1. rpc[r] = "idle" /\ UNCHANGED <<q, notified>> /\ (Park(r, "done") \/ Park(r, "permit"))
      BY <2>3 DEF Arrive, Return
    <3> QED
      BY <2>1, <3>1
  <2>4. CASE BodyRead(r) \/ HandlerTimeout(r) \/ BodyPermit(r) \/ BodyPermitTimeout(r)
    <3>1. /\ rpc[r] \in {"body", "reply", "permit"} /\ UNCHANGED <<q, notified>>
          /\ \/ Park(r, "enable") \/ Park(r, "late") \/ Park(r, "body") \/ Park(r, "done")
      BY <2>4 DEF BodyRead, HandlerTimeout, BodyPermit, BodyPermitTimeout, Return
    <3> QED
      BY <2>1, <3>1
  <2>5. ASSUME NEW s, BodyRefused(r, s) PROVE NoLostSlot'
    <3>1. rpc[r] = "body" /\ UNCHANGED <<q, notified>> /\ Park(r, "done")
      BY <2>5 DEF BodyRefused, Return
    <3> QED
      BY <2>1, <3>1
  <2>6. CASE PushEnable(r)
    <3>1. /\ rpc[r] = "enable" /\ q' = q /\ Park(r, "check")
          /\ notified' = [notified EXCEPT ![r] = FALSE]
      BY <2>6 DEF PushEnable
    <3>2. \A s \in Reqs \ {r} : notified'[s] = notified[s]
      BY <1>0, <3>1
    <3> QED
      BY <2>1, <3>1, <3>2
  <2>7. CASE PushCheck(r)
    <3>0. rpc[r] = "check"
      BY <2>7 DEF PushCheck
    <3>1. CASE PushRefused(r)
      <4>1. q' = q /\ Park(r, "done") /\ LeavePush(r)
        BY <3>1 DEF PushRefused, Return
      <4> QED
        BY <2>1, <2>2, <3>0, <4>1
    <3>2. CASE Len(Live(q)) >= Cap /\ Park(r, "await") /\ UNCHANGED <<q, notified>>
      <4>1. Len(q') >= Cap
        BY <1>0, <1>1, <3>2
      <4> QED
        BY <4>1 DEF NoLostSlot
    <3>3. CASE Len(Live(q)) < Cap /\ Pushed(r)
      <4>1. /\ q' = Append(Live(q), r) /\ LeavePush(r)
            /\ Park(r, IF Live(q) # q THEN "wake" ELSE "release")
        BY <3>3 DEF Pushed
      <4>2. \A s \in Reqs : s # r => rpc'[s] = rpc[s]
        BY <1>0, <4>1 DEF Park
      <4>3. rpc'[r] = IF Live(q) # q THEN "wake" ELSE "release"
        BY <1>0, <4>1 DEF Park
      <4>4. CASE Live(q) # q
        BY <4>3, <4>4 DEF NoLostSlot
      <4>5. CASE Live(q) = q
        <5>1. ~(Len(q) >= Cap)
          BY <1>0, <3>3, <4>5
        <5>2. Coming => Coming'
          BY <2>0, <3>0, <4>2, <5>1 DEF Coming
        <5>3. \A s \in Reqs : rpc'[s] = "await" => rpc[s] = "await" /\ notified'[s] = notified[s]
          BY <2>2, <4>1, <4>2, <4>3, <4>5
        <5> QED
          BY <5>2, <5>3, SlotKept
      <4> QED
        BY <4>4, <4>5
    <3>4. PushFull(r) => PushRefused(r) \/ (Park(r, "await") /\ UNCHANGED <<q, notified>>)
      BY DEF PushFull
    <3> QED
      BY <2>7, <3>1, <3>2, <3>3, <3>4 DEF PushCheck
  <2>8. CASE Expire(r)
    <3>1. UNCHANGED <<q, rpc, notified>>
      BY <2>8 DEF Expire
    <3> QED
      BY <2>0, <3>1, SlotKept DEF Coming
  <2>9. CASE AwaitReturns(r) \/ Reply(r) \/ LateReturns(r)
    <3>1. /\ rpc[r] \in {"await", "reply", "late"} /\ UNCHANGED <<q, notified>>
          /\ Park(r, "enable") \/ Park(r, "done")
      BY <2>9 DEF AwaitReturns, Reply, LateReturns, Return
    <3> QED
      BY <2>1, <3>1
  <2>10. CASE PushReturns(r)
    <3>1. Park(r, "reply") /\ q' = q
      BY <2>10 DEF PushReturns
    <3>2. CASE rpc[r] = "wake"
      <4>1. NotifyWaiters
        BY <2>10, <3>2 DEF PushReturns
      <4>2. \A s \in Reqs : rpc'[s] = "await" => rpc[s] = "await"
        BY <1>0, <3>1 DEF Park
      <4> QED
        BY <4>1, <4>2, SlotNotified
    <3>3. CASE rpc[r] # "wake"
      <4>1. notified' = notified
        BY <2>10, <3>3 DEF PushReturns
      <4> QED
        BY <2>1, <3>1, <3>3, <4>1
    <3> QED
      BY <3>2, <3>3
  <2>11. CASE Dropped(r)
    <3>1. rpc[r] \in Awaits /\ q' = q /\ Park(r, "dropped") /\ LeavePush(r)
      BY <2>11 DEF Dropped
    <3> QED
      BY <2>1, <2>2, <3>1
  <2>12. ParkStep(r) => NoLostSlot'
    BY <2>4, <2>5, <2>6, <2>7, <2>8, <2>9, <2>10, <2>11, Zenon DEF ParkStep
  <2> QED
    BY <1>3, <2>3, <2>4, <2>5, <2>12, Zenon DEF ParkNext
<1>4. ASSUME NEW p \in Pullers, PullStep(p) PROVE NoLostSlot'
  <2>0. UNCHANGED <<rpc, spc>>
    BY <1>4, PullKeeps
  <2>1. ASSUME ppc[p] # "notify", NEW w, Pull(p, w), UNCHANGED notified,
               q' = q \/ w = "notify"
        PROVE  NoLostSlot'
    <3>1. \A s \in Pullers : ppc'[s] = IF s = p THEN w ELSE ppc[s]
      BY <1>0, <2>1 DEF Pull
    <3>2. Coming => Coming'
      BY <2>0, <2>1, <3>1 DEF Coming
    <3> QED
      BY <2>0, <2>1, <3>2, SlotKept
  <2>2. CASE WaitLook(p)
    <3>1. CASE Live(q) # q
      <4>1. NotifyWaiters
        BY <2>2, <3>1 DEF WaitLook
      <4> QED
        BY <2>0, <4>1, SlotNotified
    <3>2. CASE Live(q) = q
      <4>1. /\ ppc[p] # "notify" /\ q' = q /\ notified' = notified
            /\ Pull(p, IF Live(q) # <<>> THEN "take" ELSE "sleep")
        BY <2>2, <3>2 DEF WaitLook, At
      <4> QED
        BY <2>1, <4>1
    <3> QED
      BY <3>1, <3>2
  <2>3. CASE TakePop(p)
    <3>1. ppc[p] # "notify" /\ notified' = notified
      BY <2>3 DEF TakePop, At
    <3>2. \/ Pull(p, "notify")
          \/ q = <<>> /\ q' = <<>> /\ Pull(p, "loop")
      BY <2>3 DEF TakePop
    <3> QED
      BY <2>1, <3>1, <3>2
  <2>4. CASE TakeNotify(p)
    BY <2>0, <2>4, SlotNotified DEF TakeNotify
  <2>5. CASE ~WaitLook(p) /\ ~TakePop(p) /\ ~TakeNotify(p)
    <3>1. /\ ppc[p] # "notify" /\ UNCHANGED <<q, notified>>
          /\ \E w : Pull(p, w)
      BY <1>4, <2>5 DEF PullStep, ServeLoop, ServerWait, CheckUp, WaitWakes, At,
         TakeRequest, TakeCount, HandlerAnswers, HandlerSignals, TakeSender,
         HandlerReturns, SendAnswer, Send500, FreeRequest, Uncount
    <3> QED
      BY <2>1, <3>1
  <2> QED
    BY <2>2, <2>3, <2>4, <2>5
<1>5. ASSUME NEW t \in Threads, StopNext(t) PROVE NoLostSlot'
  <2>0. UNCHANGED <<rpc, ppc>>
    BY <1>5, StopKeeps
  <2>1. CASE DrainSends(t)
    BY <2>0, <2>1, SlotNotified DEF DrainSends
  <2>2. CASE ~DrainSends(t)
    <3>1. UNCHANGED notified /\ spc[t] # "send"
      BY <1>5, <2>2 DEF StopNext, StopStep, StopBegins, DumpHook, Join, SetDown, NotifyStop,
                        Drain, PollEnds, TakeRuntime
    <3>2. \E w : Stop(t, w) /\ (q' = q \/ w = "send")
      BY <1>5, <2>2 DEF StopNext, StopStep, StopBegins, DumpHook, Join, SetDown, NotifyStop,
                        Drain, PollEnds, TakeRuntime
    <3>3. PICK w : Stop(t, w) /\ (q' = q \/ w = "send")
      BY <3>2
    <3>4. \A u \in Threads : spc'[u] = IF u = t THEN w ELSE spc[u]
      BY <1>0, <3>3 DEF Stop
    <3>5. Coming => Coming'
      BY <2>0, <3>1, <3>3, <3>4 DEF Coming
    <3> QED
      BY <2>0, <3>1, <3>5, SlotKept
  <2> QED
    BY <2>1, <2>2
<1> QED
  BY <1>2, <1>3, <1>4, <1>5, NextParts

-----------------------------------------------------------------------------
(***************************************************************************)
(* The way of a request: parked, pulled or drained, answered once.         *)
(***************************************************************************)

\* The conjuncts of ChanOK, ToldOK and AnswersAgree for one request.
RequestOK(r) ==
    /\ rpc[r] \in {"idle", "permit", "body"} => chan[r] = "none"
    /\ rpc[r] \in {"enable", "check", "await"} => chan[r] = "open"
    /\ rpc[r] \in {"wake", "release", "reply", "late"} => chan[r] \in {"open"} \cup Sent
    /\ rpc[r] = "late" => HandlerLimit
    /\ chan[r] # "lost"
    /\ rpc[r] # "done" => answer[r] = "none"
    /\ rpc[r] \in Early => told[r] = "none" /\ ~pulled[r]
    /\ chan[r] = "lisp" => told[r] = "ok"
    /\ chan[r] = "500" => pulled[r] /\ told[r] = "none"
    /\ chan[r] = "503" => ~pulled[r]
    /\ told[r] = "gone" => chan[r] = "closed"
    /\ answer[r] = "lisp" => told[r] = "ok"
    /\ told[r] = "ok" => chan[r] = "lisp" /\ answer[r] \in {"none", "lisp", "504"}
    /\ told[r] = "gone" => answer[r] \in {"none", "504"}
    /\ answer[r] = "500" => pulled[r] /\ told[r] = "none"
    /\ answer[r] = "503" => ~pulled[r]
    /\ answer[r] = "504" => HandlerLimit

LEMMA RequestParts ==
    ChanOK /\ ToldOK /\ AnswersAgree <=> \A r \in Reqs : RequestOK(r)
BY DEF ChanOK, ToldOK, AnswersAgree, RequestOK

Places == QueueOK /\ DrainedOK /\ HandsOK

\* A step of park changes its own request only, and what is unsent stays so.
LEMMA OwnRequest ==
    ASSUME TypeOK, Places, \A s \in Reqs : RequestOK(s), NEW r \in Reqs,
           UNCHANGED <<q, pullVars, stopVars>>,
           \A s \in Reqs \ {r} : rpc'[s] = rpc[s] /\ chan'[s] = chan[s] /\ answer'[s] = answer[s],
           RequestOK(r)', Unsent(r) => Unsent(r)'
    PROVE  Places' /\ \A s \in Reqs : RequestOK(s)'
<1> USE DEF pullVars, histVars, stopVars
<1>0. /\ q \in Seq(Reqs) /\ drained \in [Threads -> Seq(Reqs)]
      /\ req \in [Pullers -> Reqs \cup {NoReq}]
  BY DEF TypeOK
<1>1. \A s \in Reqs : RequestOK(s)'
  <2> TAKE s \in Reqs
  <2>1. CASE s # r
    BY <2>1 DEF RequestOK
  <2> QED
    BY <2>1
<1>2. \A s \in Reqs : Unsent(s) => Unsent(s)'
  <2> TAKE s \in Reqs
  <2>1. CASE s # r
    BY <2>1 DEF Unsent
  <2> QED
    BY <2>1
<1>3. \A i \in 1..Len(q) : q[i] \in Reqs
  BY <1>0, ElementOfSeq
<1>4. \A t \in Threads : \A i \in 1..Len(drained[t]) : drained[t][i] \in Reqs
  BY <1>0, ElementOfSeq
<1>5. QueueOK'
  <2>1. Parked(q)'
    BY <1>2, <1>3 DEF Places, QueueOK, Parked
  <2> QED
    BY <2>1 DEF Places, QueueOK, Distinct
<1>6. DrainedOK'
  <2>1. \A t \in Threads : Parked(drained[t])'
    BY <1>2, <1>4 DEF Places, DrainedOK, Parked
  <2> QED
    BY <2>1 DEF Places, DrainedOK
<1>7. HandsOK'
  BY <1>2 DEF Places, HandsOK
<1> QED
  BY <1>1, <1>5, <1>6, <1>7 DEF Places

\* What prune leaves of the queue is parked too.
LEMMA LiveParked ==
    ASSUME TypeOK, QueueOK
    PROVE  Parked(Live(q)) /\ Distinct(Live(q))
<1>1. q \in Seq(Reqs)
  BY DEF TypeOK
<1>2. PICK f \in [1..Len(Live(q)) -> 1..Len(q)] :
        /\ \A n \in 1..Len(Live(q)) : Live(q)[n] = q[f[n]] /\ chan[q[f[n]]] # "closed"
        /\ \A n, m \in 1..Len(Live(q)) : f[n] = f[m] => n = m
  BY <1>1, LiveProps
<1>3. Parked(Live(q))
  BY <1>2 DEF QueueOK, Parked
<1>4. Distinct(Live(q))
  BY <1>2 DEF QueueOK, Distinct
<1> QED
  BY <1>3, <1>4

LEMMA TailParked ==
    ASSUME NEW s \in Seq(Reqs), s # <<>>, Parked(s), Distinct(s)
    PROVE  /\ Head(s) \in Reqs /\ Unsent(Head(s)) /\ ~pulled[Head(s)]
           /\ Tail(s) \in Seq(Reqs) /\ Distinct(Tail(s))
           /\ \A i \in 1..Len(Tail(s)) :
                /\ Tail(s)[i] \in Reqs /\ Tail(s)[i] # Head(s)
                /\ Unsent(Tail(s)[i]) /\ ~pulled[Tail(s)[i]]
<1>1. Len(s) \in Nat /\ Len(s) >= 1 /\ Head(s) = s[1] /\ \A i \in 1..Len(s) : s[i] \in Reqs
  OBVIOUS
<1>2. /\ Tail(s) \in Seq(Reqs) /\ Len(Tail(s)) = Len(s) - 1
      /\ \A i \in 1..Len(Tail(s)) : Tail(s)[i] = s[i + 1]
  OBVIOUS
<1>3. \A i \in 1..Len(Tail(s)) : i + 1 \in 1..Len(s) /\ i + 1 # 1
  BY <1>1, <1>2
<1>4. 1 \in 1..Len(s)
  BY <1>1
<1>5. Head(s) \in Reqs /\ Unsent(Head(s)) /\ ~pulled[Head(s)]
  BY <1>1, <1>4 DEF Parked
<1>6. Distinct(Tail(s))
  BY <1>2, <1>3 DEF Distinct
<1>7. \A i \in 1..Len(Tail(s)) : Tail(s)[i] \in Reqs /\ Tail(s)[i] # Head(s)
  BY <1>1, <1>2, <1>3, <1>4 DEF Distinct
<1>8. \A i \in 1..Len(Tail(s)) : Unsent(Tail(s)[i]) /\ ~pulled[Tail(s)[i]]
  BY <1>2, <1>3 DEF Parked
<1> QED
  BY <1>2, <1>5, <1>6, <1>7, <1>8

LEMMA ParkAnswers ==
    ASSUME TypeOK, Places, \A s \in Reqs : RequestOK(s), NEW r \in Reqs, ParkNext(r)
    PROVE  Places' /\ \A s \in Reqs : RequestOK(s)'
<1> DEFINE Goal == Places' /\ \A s \in Reqs : RequestOK(s)'
<1>0. /\ rpc \in [Reqs -> ParkPoints]
      /\ chan \in [Reqs -> {"none", "open", "closed", "lost"} \cup Sent]
      /\ answer \in [Reqs -> {"none", "408", "413", "504"} \cup Sent]
  BY DEF TypeOK
<1>1. UNCHANGED <<pullVars, stopVars, told, pulled>>
  BY ParkKeeps DEF lispVars, pullVars, histVars
<1>2. RequestOK(r)
  OBVIOUS
<1>3. ASSUME NEW w, NEW c, NEW a, q' = q,
             rpc' = [rpc EXCEPT ![r] = w], chan' = [chan EXCEPT ![r] = c],
             answer' = [answer EXCEPT ![r] = a],
             RequestOK(r)', Unsent(r) => Unsent(r)'
      PROVE  Goal
  <2>1. \A s \in Reqs \ {r} : rpc'[s] = rpc[s] /\ chan'[s] = chan[s] /\ answer'[s] = answer[s]
    BY <1>0, <1>3
  <2> QED
    BY <1>1, <1>3, <2>1, OwnRequest
<1>4. /\ chan = [chan EXCEPT ![r] = chan[r]] /\ answer = [answer EXCEPT ![r] = answer[r]]
      /\ rpc = [rpc EXCEPT ![r] = rpc[r]]
  BY <1>0
<1>5. \A x : /\ [rpc EXCEPT ![r] = x][r] = x /\ [chan EXCEPT ![r] = x][r] = x
             /\ [answer EXCEPT ![r] = x][r] = x
  BY <1>0
<1> HIDE DEF Goal
<1>6. ASSUME NEW c \in Conns, Arrive(r, c) PROVE Goal
  <2>1. rpc[r] = "idle" /\ UNCHANGED <<q, chan>>
    BY <1>6 DEF Arrive, svcVars
  <2>2. \/ rpc' = [rpc EXCEPT ![r] = "done"] /\ answer' = [answer EXCEPT ![r] = "503"]
        \/ rpc' = [rpc EXCEPT ![r] = "permit"] /\ answer' = answer
    BY <1>6 DEF Arrive, Return, Park
  <2>3. RequestOK(r)' /\ (Unsent(r) => Unsent(r)')
    BY <1>1, <1>2, <1>5, <2>1, <2>2 DEF RequestOK, Unsent, Early
  <2> QED
    BY <1>3, <1>4, <2>1, <2>2, <2>3
<1>7. ASSUME BodyRead(r) PROVE Goal
  <2>1. /\ rpc[r] = "body" /\ UNCHANGED <<q, answer>>
        /\ rpc' = [rpc EXCEPT ![r] = "enable"] /\ chan' = [chan EXCEPT ![r] = "open"]
    BY <1>7 DEF BodyRead, svcVars, Park
  <2>2. RequestOK(r)' /\ (Unsent(r) => Unsent(r)')
    BY <1>1, <1>2, <1>5, <2>1 DEF RequestOK, Unsent, Early
  <2> QED
    BY <1>3, <1>4, <2>1, <2>2
<1>8. ASSUME NEW s \in {"408", "413"}, BodyRefused(r, s) PROVE Goal
  <2>1. /\ rpc[r] = "body" /\ UNCHANGED <<q, chan>>
        /\ rpc' = [rpc EXCEPT ![r] = "done"] /\ answer' = [answer EXCEPT ![r] = s]
    BY <1>8 DEF BodyRefused, Return, Park
  <2>2. RequestOK(r)' /\ (Unsent(r) => Unsent(r)')
    BY <1>1, <1>2, <1>5, <2>1 DEF RequestOK, Unsent, Early
  <2> QED
    BY <1>3, <1>4, <2>1, <2>2
<1>9. ASSUME BodyPermitTimeout(r) PROVE Goal
  <2>1. /\ rpc[r] = "permit" /\ UNCHANGED <<q, chan>>
        /\ rpc' = [rpc EXCEPT ![r] = "done"] /\ answer' = [answer EXCEPT ![r] = "503"]
    BY <1>9 DEF BodyPermitTimeout, Return, Park, svcVars
  <2>2. RequestOK(r)' /\ (Unsent(r) => Unsent(r)')
    BY <1>1, <1>2, <1>5, <2>1 DEF RequestOK, Unsent, Early
  <2> QED
    BY <1>3, <1>4, <2>1, <2>2
<1>10. ASSUME NEW v, NEW w, <<v, w>> \in {<<"reply", "late">>, <<"permit", "body">>,
                <<"enable", "check">>, <<"await", "enable">>, <<"wake", "reply">>,
                <<"release", "reply">>},
              rpc[r] = v, Park(r, w), w = "late" => HandlerLimit,
              UNCHANGED <<q, chan, answer>>
       PROVE  Goal
  <2>1. rpc' = [rpc EXCEPT ![r] = w]
    BY <1>10 DEF Park
  <2>2. RequestOK(r)' /\ (Unsent(r) => Unsent(r)')
    BY <1>1, <1>2, <1>5, <1>10, <2>1 DEF RequestOK, Unsent, Early
  <2> QED
    BY <1>3, <1>4, <1>10, <2>1, <2>2
<1>11. ASSUME HandlerTimeout(r) \/ BodyPermit(r) \/ PushEnable(r) \/ AwaitReturns(r)
              \/ PushReturns(r)
       PROVE  Goal
  <2>1. UNCHANGED <<q, chan, answer>>
    BY <1>11 DEF HandlerTimeout, BodyPermit, PushEnable, AwaitReturns, PushReturns, svcVars
  <2>2. \/ rpc[r] = "reply" /\ Park(r, "late") /\ HandlerLimit
        \/ rpc[r] = "permit" /\ Park(r, "body")
        \/ rpc[r] = "enable" /\ Park(r, "check")
        \/ rpc[r] = "await" /\ Park(r, "enable")
        \/ rpc[r] \in {"wake", "release"} /\ Park(r, "reply")
    BY <1>11 DEF HandlerTimeout, BodyPermit, PushEnable, AwaitReturns, PushReturns
  <2> QED
    BY <1>10, <2>1, <2>2
<1>12. ASSUME Expire(r) PROVE Goal
  <2>1. UNCHANGED <<q, rpc, chan, answer>>
    BY <1>12 DEF Expire, svcVars
  <2>2. RequestOK(r)' /\ (Unsent(r) => Unsent(r)')
    BY <1>1, <1>2, <2>1 DEF RequestOK, Unsent, Early
  <2> QED
    BY <1>3, <1>4, <2>1, <2>2
<1>13. ASSUME Reply(r) PROVE Goal
  <2>1. /\ rpc[r] = "reply" /\ chan[r] \in Sent \cup {"lost"} /\ UNCHANGED <<q, chan>>
        /\ rpc' = [rpc EXCEPT ![r] = "done"]
        /\ answer' = [answer EXCEPT ![r] = IF chan[r] = "lost" THEN "503" ELSE chan[r]]
    BY <1>13 DEF Reply, Return, Park, svcVars
  <2>2. chan[r] \in Sent /\ answer' = [answer EXCEPT ![r] = chan[r]]
    BY <1>2, <2>1 DEF RequestOK
  <2>3. RequestOK(r)' /\ (Unsent(r) => Unsent(r)')
    BY <1>1, <1>2, <1>5, <2>1, <2>2 DEF RequestOK, Unsent, Early, Sent
  <2> QED
    BY <1>3, <1>4, <2>1, <2>2, <2>3
<1>14. ASSUME LateReturns(r) PROVE Goal
  <2>1. /\ rpc[r] = "late" /\ q' = q
        /\ rpc' = [rpc EXCEPT ![r] = "done"]
        /\ answer' = [answer EXCEPT ![r] = "504"]
        /\ chan' = [chan EXCEPT ![r] = IF chan[r] = "open" THEN "closed" ELSE chan[r]]
    BY <1>0, <1>14 DEF LateReturns, Return, Park, Hangup, svcVars
  <2>2. RequestOK(r)' /\ (Unsent(r) => Unsent(r)')
    BY <1>1, <1>2, <1>5, <2>1 DEF RequestOK, Unsent, Early, Sent
  <2> QED
    BY <1>3, <2>1, <2>2
<1>15. ASSUME Dropped(r) PROVE Goal
  <2>1. /\ rpc[r] \in Awaits /\ q' = q /\ answer' = answer
        /\ rpc' = [rpc EXCEPT ![r] = "dropped"]
        /\ chan' = [chan EXCEPT ![r] = IF chan[r] = "open" THEN "closed" ELSE chan[r]]
    BY <1>0, <1>15 DEF Dropped, Park, Hangup
  <2>2. RequestOK(r)' /\ (Unsent(r) => Unsent(r)')
    BY <1>1, <1>2, <1>5, <2>1 DEF RequestOK, Unsent, Early, Sent, Awaits
  <2> QED
    BY <1>3, <1>4, <2>1, <2>2
<1>16. ASSUME PushCheck(r), ~Pushed(r) PROVE Goal
  <2>0. rpc[r] = "check"
    BY <1>16 DEF PushCheck
  <2>1. CASE PushRefused(r)
    <3>1. /\ q' = q /\ rpc' = [rpc EXCEPT ![r] = "done"]
          /\ answer' = [answer EXCEPT ![r] = "503"]
          /\ chan' = [chan EXCEPT ![r] = IF chan[r] = "open" THEN "closed" ELSE chan[r]]
      BY <1>0, <2>1 DEF PushRefused, Return, Park, Hangup
    <3>2. RequestOK(r)' /\ (Unsent(r) => Unsent(r)')
      BY <1>1, <1>2, <1>5, <2>0, <3>1 DEF RequestOK, Unsent, Early
    <3> QED
      BY <1>3, <3>1, <3>2
  <2>2. CASE ~PushRefused(r)
    <3>1. rpc' = [rpc EXCEPT ![r] = "await"] /\ UNCHANGED <<q, chan, answer>>
      BY <1>16, <2>2 DEF PushCheck, PushFull, Park
    <3>2. RequestOK(r)' /\ (Unsent(r) => Unsent(r)')
      BY <1>1, <1>2, <1>5, <2>0, <3>1 DEF RequestOK, Unsent, Early
    <3> QED
      BY <1>3, <1>4, <3>1, <3>2
  <2> QED
    BY <2>1, <2>2
<1>17. ASSUME PushCheck(r), Pushed(r) PROVE Goal
  <2>0. rpc[r] = "check"
    BY <1>17 DEF PushCheck
  <2>1. /\ q' = Append(Live(q), r) /\ UNCHANGED <<chan, answer>>
        /\ \E w \in {"wake", "release"} : rpc' = [rpc EXCEPT ![r] = w]
    BY <1>17 DEF Pushed, Park
  <2>2. PICK w \in {"wake", "release"} : rpc' = [rpc EXCEPT ![r] = w]
    BY <2>1
  <2>3. RequestOK(r)' /\ Unsent(r)' /\ ~pulled'[r] /\ ~Unsent(r)
    BY <1>1, <1>2, <1>5, <2>0, <2>1, <2>2 DEF RequestOK, Unsent, Early
  <2>4. \A s \in Reqs \ {r} : rpc'[s] = rpc[s] /\ chan'[s] = chan[s] /\ answer'[s] = answer[s]
    BY <1>0, <2>1, <2>2
  <2>5. \A s \in Reqs : RequestOK(s)'
    <3> TAKE s \in Reqs
    <3>1. CASE s # r
      BY <1>1, <2>1, <2>4, <3>1 DEF RequestOK
    <3> QED
      BY <2>3, <3>1
  <2>6. \A s \in Reqs : Unsent(s) => Unsent(s)' /\ s # r
    BY <1>1, <2>1, <2>3, <2>4 DEF Unsent
  <2>7. q \in Seq(Reqs) /\ Live(q) \in Seq(Reqs) /\ Parked(Live(q)) /\ Distinct(Live(q))
    BY LiveProps, LiveParked DEF Places, TypeOK
  <2>8. PICK lq \in Seq(Reqs) : lq = Live(q)
    BY <2>7
  <2>9. PICK nq : nq = q'
    OBVIOUS
  <2>10. /\ Len(nq) = Len(lq) + 1 /\ Len(lq) \in Nat
         /\ \A i \in 1..Len(nq) : nq[i] = IF i = Len(lq) + 1 THEN r ELSE lq[i]
         /\ \A i \in 1..Len(nq) : i = Len(lq) + 1 \/ i \in 1..Len(lq)
    BY <2>1, <2>8, <2>9
  <2>11. \A i \in 1..Len(lq) :
           lq[i] \in Reqs /\ lq[i] # r /\ Unsent(lq[i])' /\ ~pulled'[lq[i]]
    <3> TAKE i \in 1..Len(lq)
    <3>1. lq[i] \in Reqs
      BY ElementOfSeq
    <3>2. Unsent(lq[i]) /\ ~pulled[lq[i]]
      BY <2>7, <2>8 DEF Parked
    <3> QED
      BY <1>1, <2>6, <3>1, <3>2
  <2>12. Parked(q)' /\ Distinct(q')
    <3>1. \A i \in 1..Len(nq) : Unsent(nq[i])' /\ ~pulled'[nq[i]]
      BY <2>3, <2>10, <2>11
    <3>2. Distinct(nq)
      BY <2>7, <2>8, <2>10, <2>11 DEF Distinct
    <3> QED
      BY <2>9, <3>1, <3>2 DEF Parked
  <2>13. DrainedOK'
    <3>1. \A t \in Threads : \A i \in 1..Len(drained[t]) : drained[t][i] \in Reqs
      BY ElementOfSeq DEF TypeOK
    <3>2. \A t \in Threads : Parked(drained[t])'
      BY <1>1, <2>6, <3>1 DEF Places, DrainedOK, Parked, stopVars
    <3> QED
      BY <1>1, <3>2 DEF Places, DrainedOK, stopVars
  <2>14. HandsOK'
    BY <1>1, <2>6 DEF Places, HandsOK, pullVars
  <2> QED
    BY <2>5, <2>12, <2>13, <2>14 DEF Goal, Places, QueueOK, Distinct
<1>18. ParkStep(r) => Goal
  BY <1>8, <1>9, <1>11, <1>12, <1>13, <1>14, <1>15, <1>16, <1>17, Zenon DEF ParkStep
<1>19. Goal
  BY <1>6, <1>7, <1>8, <1>11, <1>18, Zenon DEF ParkNext
<1> QED
  BY <1>19 DEF Goal

\* The conjuncts of HandsOK for one puller.
HandOK(p) ==
    /\ ppc[p] \in {"loop", "wait", "look", "sleep", "take", "pop", "uncount", "returned"}
         => req[p] = NoReq
    /\ ppc[p] \in {"count", "handle", "send", "send500", "free"} => req[p] \in Reqs
    /\ held[p] => ppc[p] \in {"handle", "free"}
    /\ req[p] \in Reqs => pulled[req[p]]
    /\ req[p] \in Reqs /\ (held[p] \/ ppc[p] \in {"notify", "count", "send", "send500"})
         => Unsent(req[p])

\* What holds of the other pullers when one moves.
LEMMA OtherHands ==
    ASSUME TypeOK, HandsOK, NEW p \in Pullers, HandOK(p)',
           \A s \in Pullers \ {p} : ppc'[s] = ppc[s] /\ req'[s] = req[s] /\ held'[s] = held[s],
           \A x \in Reqs : pulled[x] => pulled'[x],
           \A x \in Reqs : x # req[p] /\ Unsent(x) => Unsent(x)',
           \/ req'[p] \in {req[p], NoReq}
           \/ req'[p] \in Reqs /\ ~pulled[req'[p]]
    PROVE  HandsOK'
<1>0. req \in [Pullers -> Reqs \cup {NoReq}] /\ NoReq \notin Reqs
  BY SetsAssumption DEF TypeOK
<1>1. ASSUME NEW s \in Pullers \ {p} PROVE HandOK(s)'
  <2>1. HandOK(s)
    BY DEF HandsOK, HandOK
  <2>2. CASE req[s] = NoReq
    BY <1>0, <2>1, <2>2 DEF HandOK
  <2>3. CASE req[s] \in Reqs
    <3>1. PICK x \in Reqs : x = req[s]
      BY <2>3
    <3>2. x # req[p]
      BY <1>0, <3>1 DEF HandsOK
    <3>3. pulled'[x] /\ (Unsent(x) => Unsent(x)')
      BY <2>1, <3>1, <3>2 DEF HandOK
    <3>4. held[s] \/ ppc[s] \in {"notify", "count", "send", "send500"} => Unsent(x)
      BY <2>1, <3>1 DEF HandOK
    <3>5. x = req'[s] /\ ppc'[s] = ppc[s] /\ held'[s] = held[s]
      BY <3>1
    <3>6. /\ ppc[s] \notin {"loop", "wait", "look", "sleep", "take", "pop", "uncount", "returned"}
          /\ held[s] => ppc[s] \in {"handle", "free"}
      BY <1>0, <2>1, <2>3 DEF HandOK
    <3>7. held'[s] \/ ppc'[s] \in {"notify", "count", "send", "send500"} => Unsent(x)'
      BY <3>3, <3>4, <3>5
    <3> QED
      BY <3>3, <3>5, <3>6, <3>7 DEF HandOK
  <2> QED
    BY <1>0, <2>2, <2>3
<1>2. \A s \in Pullers : HandOK(s)'
  BY <1>1
<1>3. \A s, u \in Pullers : req'[s] = req'[u] /\ req'[s] # NoReq => s = u
  <2>1. \A s, u \in Pullers : req[s] = req[u] /\ req[s] # NoReq => s = u
    BY DEF HandsOK
  <2>2. \A s \in Pullers \ {p} : req[s] # NoReq => req[s] \in Reqs /\ pulled[req[s]]
    BY <1>0 DEF HandsOK
  <2> QED
    BY <1>0, <2>1, <2>2
<1> QED
  BY <1>2, <1>3 DEF HandsOK, HandOK

\* What was parked stays parked, if only pulled requests are touched.
LEMMA ParkedStays ==
    ASSUME TypeOK, QueueOK, DrainedOK, q' = q \/ q' = Live(q), UNCHANGED <<drained, spc>>,
           \A x \in Reqs : ~pulled[x] /\ Unsent(x) => Unsent(x)' /\ ~pulled'[x]
    PROVE  QueueOK' /\ DrainedOK'
<1>1. q \in Seq(Reqs) /\ Live(q) \in Seq(Reqs) /\ Parked(Live(q)) /\ Distinct(Live(q))
  BY LiveProps, LiveParked DEF TypeOK
<1>2. PICK nq \in Seq(Reqs) : nq = q'
  BY <1>1
<1>3. Distinct(nq) /\ Parked(nq)
  BY <1>1, <1>2 DEF QueueOK
<1>4. \A i \in 1..Len(nq) : Unsent(nq[i])' /\ ~pulled'[nq[i]]
  <2> TAKE i \in 1..Len(nq)
  <2>1. nq[i] \in Reqs /\ Unsent(nq[i]) /\ ~pulled[nq[i]]
    BY <1>3, ElementOfSeq DEF Parked
  <2> QED
    BY <2>1
<1>5. QueueOK'
  BY <1>2, <1>3, <1>4 DEF QueueOK, Parked, Distinct
<1>6. \A t \in Threads : Parked(drained[t])'
  <2>1. \A t \in Threads : \A i \in 1..Len(drained[t]) : drained[t][i] \in Reqs
    BY ElementOfSeq DEF TypeOK
  <2> QED
    BY <2>1 DEF DrainedOK, Parked
<1> QED
  BY <1>5, <1>6 DEF DrainedOK

LEMMA PullAnswers ==
    ASSUME TypeOK, Places, StopOK, \A s \in Reqs : RequestOK(s), NEW p \in Pullers, PullStep(p)
    PROVE  Places' /\ \A s \in Reqs : RequestOK(s)'
<1> DEFINE Goal == Places' /\ \A s \in Reqs : RequestOK(s)'
<1>0. /\ ppc \in [Pullers -> PullPoints] /\ req \in [Pullers -> Reqs \cup {NoReq}]
      /\ held \in [Pullers -> BOOLEAN] /\ NoReq \notin Reqs
      /\ pulled \in [Reqs -> BOOLEAN] /\ told \in [Reqs -> {"none", "ok", "gone"}]
      /\ chan \in [Reqs -> {"none", "open", "closed", "lost"} \cup Sent]
  BY SetsAssumption DEF TypeOK
<1>1. UNCHANGED <<rpc, answer, drained, spc>>
  BY PullKeeps DEF stopVars
<1>2. HandOK(p) /\ HandsOK /\ QueueOK /\ DrainedOK
  BY DEF Places, HandsOK, HandOK
\* Nothing is sent, told or pulled.
<1>3. ASSUME UNCHANGED <<chan, told, pulled>>, q' = q \/ q' = Live(q), HandOK(p)',
             \A s \in Pullers \ {p} : ppc'[s] = ppc[s] /\ req'[s] = req[s] /\ held'[s] = held[s],
             req'[p] \in {req[p], NoReq}
      PROVE  Goal
  <2>1. \A x \in Reqs : (Unsent(x) => Unsent(x)') /\ RequestOK(x)'
    BY <1>1, <1>3 DEF Unsent, RequestOK
  <2>2. HandsOK'
    BY <1>2, <1>3, <2>1, OtherHands
  <2>3. QueueOK' /\ DrainedOK'
    BY <1>1, <1>2, <1>3, <2>1, ParkedStays
  <2> QED
    BY <2>1, <2>2, <2>3 DEF Places
<1> HIDE DEF Goal
\* The puller moves on, and nothing else.
<1>4. ASSUME NEW w, Pull(p, w), UNCHANGED <<chan, told, pulled, req, held>>,
             q' = q \/ q' = Live(q),
             \/ /\ ppc[p] \in {"loop", "wait", "look", "sleep", "take", "pop", "uncount"}
                /\ w \in {"loop", "wait", "look", "sleep", "take", "pop", "returned"}
             \/ ppc[p] = "notify" /\ w = "loop" /\ req[p] = NoReq
             \/ ppc[p] = "notify" /\ w = "count" /\ req[p] # NoReq
             \/ ppc[p] = "handle" /\ w = "free"
      PROVE  Goal
  <2>1. \A s \in Pullers : ppc'[s] = IF s = p THEN w ELSE ppc[s]
    BY <1>0, <1>4 DEF Pull
  <2>2. \A x : Unsent(x) => Unsent(x)'
    BY <1>1, <1>4 DEF Unsent
  <2>3. ppc'[p] = w /\ req'[p] = req[p] /\ held'[p] = held[p]
    BY <1>4, <2>1
  <2>4. PICK x \in Reqs \cup {NoReq} : x = req[p]
    BY <1>0
  <2>5. x \in Reqs => pulled'[x]
    BY <1>2, <1>4, <2>4 DEF HandOK
  <2>6. x \in Reqs /\ (held'[p] \/ ppc'[p] \in {"notify", "count", "send", "send500"})
          => Unsent(x)'
    BY <1>2, <1>4, <2>2, <2>3, <2>4 DEF HandOK
  <2>7. /\ w \in {"loop", "wait", "look", "sleep", "take", "pop", "uncount", "returned"}
             => x = NoReq
        /\ w \in {"count", "handle", "send", "send500", "free"} => x \in Reqs
        /\ held[p] => w \in {"handle", "free"}
    BY <1>0, <1>2, <1>4, <2>4 DEF HandOK
  <2>8. HandOK(p)'
    BY <2>3, <2>4, <2>5, <2>6, <2>7 DEF HandOK
  <2> QED
    BY <1>3, <1>4, <2>1, <2>8
<1>5. ASSUME ServeLoop(p) \/ ServerWait(p) \/ TakeRequest(p) \/ WaitWakes(p) PROVE Goal
  <2>1. UNCHANGED <<chan, told, pulled, req, held, q>>
    BY <1>5 DEF ServeLoop, ServerWait, TakeRequest, CheckUp, WaitWakes, reqVars, histVars,
                svcVars
  <2>2. ppc[p] \in {"loop", "wait", "take", "sleep"}
    BY <1>5 DEF ServeLoop, ServerWait, TakeRequest, CheckUp, WaitWakes, At
  <2>3. \E w \in {"loop", "wait", "look", "sleep", "take", "pop", "returned"} : Pull(p, w)
    BY <1>5 DEF ServeLoop, ServerWait, TakeRequest, CheckUp, WaitWakes
  <2> QED
    BY <1>4, <2>1, <2>2, <2>3
<1>6. ASSUME WaitLook(p) PROVE Goal
  <2>1. /\ UNCHANGED <<chan, told, pulled, req, held>> /\ q' = Live(q)
        /\ ppc[p] = "look" /\ (Pull(p, "take") \/ Pull(p, "sleep"))
    BY <1>6 DEF WaitLook, At, histVars
  <2> QED
    BY <1>4, <2>1
<1>7. ASSUME TakeNotify(p) PROVE Goal
  <2>1. /\ UNCHANGED <<chan, told, pulled, req, held, q>> /\ ppc[p] = "notify"
        /\ Pull(p, IF req[p] = NoReq THEN "loop" ELSE "count")
    BY <1>7 DEF TakeNotify, At, histVars, svcVars
  <2> QED
    BY <1>4, <2>1
<1>8. ASSUME HandlerReturns(p) PROVE Goal
  <2>1. /\ UNCHANGED <<chan, told, pulled, req, held, q>> /\ ppc[p] = "handle"
        /\ Pull(p, "free")
    BY <1>8 DEF HandlerReturns, At, histVars, svcVars, reqVars
  <2> QED
    BY <1>4, <2>1
<1>9. ASSUME Uncount(p) PROVE Goal
  <2>1. /\ UNCHANGED <<chan, told, pulled, req, held, q>> /\ ppc[p] = "uncount"
        /\ Pull(p, "loop")
    BY <1>9 DEF Uncount, At, histVars, reqVars
  <2> QED
    BY <1>4, <2>1
\* The handle is made, or its sender is taken.
<1>10. ASSUME NEW w, NEW h \in BOOLEAN, Pull(p, w), held' = [held EXCEPT ![p] = h],
              UNCHANGED <<chan, told, pulled, req, q>>,
              \/ ppc[p] = "count" /\ w = "handle"
              \/ ppc[p] = "handle" /\ held[p] /\ ~h /\ w \in {"send", "send500"}
              \/ ppc[p] = "handle" /\ ~h /\ w \in {"handle", "free"}
       PROVE  Goal
  <2>1. /\ \A s \in Pullers : ppc'[s] = IF s = p THEN w ELSE ppc[s]
        /\ held'[p] = h /\ \A s \in Pullers \ {p} : held'[s] = held[s]
    BY <1>0, <1>10 DEF Pull
  <2>2. \A x : Unsent(x) => Unsent(x)'
    BY <1>1, <1>10 DEF Unsent
  <2>3. PICK x \in Reqs : x = req[p]
    BY <1>2, <1>10 DEF HandOK
  <2>4. x = req'[p] /\ pulled'[x]
    BY <1>2, <1>10, <2>3 DEF HandOK
  <2>5. h \/ w \in {"notify", "count", "send", "send500"} => Unsent(x)'
    BY <1>2, <1>10, <2>2, <2>3 DEF HandOK
  <2>6. HandOK(p)'
    BY <1>10, <2>1, <2>4, <2>5 DEF HandOK
  <2> QED
    BY <1>3, <1>10, <2>1, <2>6
<1>11. ASSUME TakeCount(p) PROVE Goal
  <2>1. /\ UNCHANGED <<chan, told, pulled, req, q>> /\ ppc[p] = "count" /\ Pull(p, "handle")
        /\ held' = [held EXCEPT ![p] = TRUE]
    BY <1>11 DEF TakeCount, At, histVars, reqVars
  <2> QED
    BY <1>10, <2>1
<1>12. ASSUME HandlerAnswers(p) \/ HandlerSignals(p) PROVE Goal
  <2>1. /\ UNCHANGED <<chan, told, pulled, req, q>> /\ ppc[p] = "handle"
        /\ held' = [held EXCEPT ![p] = FALSE]
    BY <1>12 DEF HandlerAnswers, HandlerSignals, TakeSender, At, histVars, reqVars
  <2>2. \/ held[p] /\ (Pull(p, "send") \/ Pull(p, "send500"))
        \/ Pull(p, "handle") \/ Pull(p, "free")
    BY <1>12 DEF HandlerAnswers, HandlerSignals, TakeSender
  <2> QED
    BY <1>10, <2>1, <2>2
\* An entry is taken, and nobody else has it.
<1>13. ASSUME TakePop(p) PROVE Goal
  <2>0. UNCHANGED <<chan, told, held>> /\ ppc[p] = "pop"
    BY <1>13 DEF TakePop, At, reqVars
  <2>1. CASE Live(q) = <<>> /\ q # <<>>
    <3>1. UNCHANGED <<req, pulled>> /\ Pull(p, "notify") /\ q' = Live(q)
      BY <1>13, <2>1 DEF TakePop
    <3>2. \A s \in Pullers : ppc'[s] = IF s = p THEN "notify" ELSE ppc[s]
      BY <1>0, <3>1 DEF Pull
    <3>3. req[p] = NoReq /\ ~held[p]
      BY <1>2, <2>0 DEF HandOK
    <3>4. HandOK(p)'
      BY <1>0, <2>0, <3>1, <3>2, <3>3 DEF HandOK
    <3> QED
      BY <1>3, <2>0, <3>1, <3>2, <3>4
  <2>2. CASE Live(q) = <<>> /\ q = <<>>
    <3>1. UNCHANGED <<req, pulled>> /\ Pull(p, "loop") /\ q' = q
      BY <1>13, <2>2 DEF TakePop
    <3> QED
      BY <1>4, <2>0, <3>1
  <2>3. CASE Live(q) # <<>>
    <3>1. Live(q) \in Seq(Reqs) /\ Parked(Live(q)) /\ Distinct(Live(q))
      BY <1>2, LiveProps, LiveParked DEF TypeOK
    <3>2. PICK lq \in Seq(Reqs) : lq = Live(q)
      BY <3>1
    <3>3. PICK r \in Reqs : r = Head(lq)
      BY <2>3, <3>1, <3>2
    <3>4. /\ q' = Tail(lq) /\ req' = [req EXCEPT ![p] = r]
          /\ pulled' = [pulled EXCEPT ![r] = TRUE] /\ Pull(p, "notify")
      BY <1>13, <2>3, <3>2, <3>3 DEF TakePop
    <3>5. PICK nq : nq = Tail(lq)
      OBVIOUS
    <3>6. /\ Unsent(r) /\ ~pulled[r] /\ nq \in Seq(Reqs) /\ Distinct(nq)
          /\ \A i \in 1..Len(nq) :
               nq[i] \in Reqs /\ nq[i] # r /\ Unsent(nq[i]) /\ ~pulled[nq[i]]
      BY <2>3, <3>1, <3>2, <3>3, <3>5, TailParked
    <3>7. \A x : Unsent(x) <=> Unsent(x)'
      BY <1>1, <2>0 DEF Unsent
    <3>8. pulled'[r] /\ \A x \in Reqs \ {r} : pulled'[x] = pulled[x]
      BY <1>0, <3>4
    <3>9. QueueOK'
      <4>1. \A i \in 1..Len(nq) : Unsent(nq[i])' /\ ~pulled'[nq[i]]
        BY <3>6, <3>7, <3>8
      <4> QED
        BY <3>4, <3>5, <3>6, <4>1 DEF QueueOK, Parked, Distinct
    <3>10. \A t \in Threads : drained[t] = <<>>
      <4>1. q # <<>>
        BY <2>3, LiveProps DEF TypeOK
      <4> QED
        BY <1>2, <4>1 DEF DrainedOK, StopOK
    <3>11. DrainedOK'
      BY <1>1, <1>2, <3>10 DEF DrainedOK, Parked
    <3>12. /\ \A s \in Pullers : ppc'[s] = IF s = p THEN "notify" ELSE ppc[s]
           /\ \A s \in Pullers : req'[s] = IF s = p THEN r ELSE req[s]
      BY <1>0, <3>4 DEF Pull
    <3>13. HandOK(p)'
      <4>1. ~held[p]
        BY <1>2, <2>0 DEF HandOK
      <4>2. Unsent(r)' /\ pulled'[r] /\ req'[p] = r /\ ppc'[p] = "notify" /\ ~held'[p]
        BY <2>0, <3>6, <3>7, <3>8, <3>12, <4>1
      <4> QED
        BY <4>2 DEF HandOK
    <3>14. HandsOK'
      <4>1. \A x \in Reqs : pulled[x] => pulled'[x]
        BY <3>8
      <4>2. req'[p] \in Reqs /\ ~pulled[req'[p]]
        BY <3>6, <3>12
      <4>3. \A s \in Pullers \ {p} :
              ppc'[s] = ppc[s] /\ req'[s] = req[s] /\ held'[s] = held[s]
        BY <2>0, <3>12
      <4> QED
        BY <1>2, <3>7, <3>13, <4>1, <4>2, <4>3, OtherHands
    <3>15. \A x \in Reqs : RequestOK(x)'
      <4>1. ASSUME NEW x \in Reqs \ {r} PROVE RequestOK(x)'
        BY <1>1, <2>0, <3>8 DEF RequestOK
      <4>2. RequestOK(r)'
        <5>1. RequestOK(r) /\ Unsent(r)
          BY <3>6
        <5> QED
          BY <1>1, <2>0, <5>1 DEF RequestOK, Unsent
      <4> QED
        BY <4>1, <4>2
    <3> QED
      BY <3>9, <3>11, <3>14, <3>15 DEF Places, Goal
  <2> QED
    BY <2>1, <2>2, <2>3
\* The sender is used.
<1>14. ASSUME NEW x \in Reqs, x = req[p], Unsent(x), q' = q, pulled' = pulled,
              NEW w, NEW st \in {"lisp", "500"},
              chan' = [chan EXCEPT ![x] = IF chan[x] = "open" THEN st ELSE chan[x]],
              \/ /\ st = "lisp"
                 /\ told' = [told EXCEPT ![x] = IF chan[x] = "open" THEN "ok" ELSE "gone"]
              \/ st = "500" /\ told' = told,
              Pull(p, w), ~held'[p], \A s \in Pullers \ {p} : held'[s] = held[s],
              \/ w \in {"handle", "free"} /\ req' = req
              \/ w = "uncount" /\ req' = [req EXCEPT ![p] = NoReq]
       PROVE  Goal
  <2>1. /\ \A y \in Reqs \ {x} : chan'[y] = chan[y] /\ told'[y] = told[y]
        /\ \A s \in Pullers : ppc'[s] = IF s = p THEN w ELSE ppc[s]
        /\ \A s \in Pullers \ {p} : req'[s] = req[s]
        /\ req'[p] = IF w = "uncount" THEN NoReq ELSE x
    BY <1>0, <1>14 DEF Pull
  <2>2. pulled[x]
    BY <1>2, <1>14 DEF HandOK
  <2>3. ASSUME NEW y \in Reqs, y # x
        PROVE  (Unsent(y) => Unsent(y)') /\ RequestOK(y)'
    BY <1>1, <1>14, <2>1, <2>3 DEF Unsent, RequestOK
  <2>4. /\ chan[x] = "open" => chan'[x] = st
        /\ chan[x] # "open" => chan'[x] = "closed"
        /\ st = "500" => told'[x] = "none"
        /\ st = "lisp" /\ chan[x] = "open" => told'[x] = "ok"
        /\ st = "lisp" /\ chan[x] # "open" => told'[x] = "gone"
        /\ chan[x] \in {"open", "closed"} /\ answer[x] \in {"none", "504"} /\ rpc[x] \notin Early
    BY <1>0, <1>14 DEF Unsent
  <2>5. RequestOK(x)'
    <3>1. RequestOK(x)
      OBVIOUS
    <3>2. chan[x] # "open" => rpc[x] \in {"done", "dropped"}
      BY <1>14, <2>4, <3>1 DEF RequestOK, Sent, Early, TypeOK, ParkPoints, Awaits, Runs
    <3>3. CASE chan[x] = "open" /\ st = "lisp"
      BY <1>1, <1>14, <2>2, <2>4, <3>1, <3>3 DEF RequestOK, Sent, Early
    <3>4. CASE chan[x] = "open" /\ st = "500"
      BY <1>1, <1>14, <2>2, <2>4, <3>1, <3>4 DEF RequestOK, Sent, Early
    <3>5. CASE chan[x] # "open"
      BY <1>1, <1>14, <2>2, <2>4, <3>1, <3>2, <3>5 DEF RequestOK, Sent, Early
    <3> QED
      BY <1>14, <3>3, <3>4, <3>5
  <2>6. HandOK(p)'
    BY <1>0, <1>14, <2>1, <2>2 DEF HandOK
  <2>7. HandsOK'
    <3>1. \A y \in Reqs : y # req[p] /\ Unsent(y) => Unsent(y)'
      BY <1>14, <2>3
    <3>2. req'[p] \in {req[p], NoReq}
      BY <1>14, <2>1
    <3>3. \A s \in Pullers \ {p} : ppc'[s] = ppc[s] /\ req'[s] = req[s] /\ held'[s] = held[s]
      BY <1>14, <2>1
    <3> QED
      BY <1>2, <1>14, <2>6, <3>1, <3>2, <3>3, OtherHands
  <2>8. QueueOK' /\ DrainedOK'
    <3>1. \A y \in Reqs : ~pulled[y] /\ Unsent(y) => Unsent(y)' /\ ~pulled'[y]
      BY <1>14, <2>2, <2>3
    <3> QED
      BY <1>1, <1>2, <1>14, <3>1, ParkedStays
  <2> QED
    BY <2>3, <2>5, <2>7, <2>8 DEF Goal, Places
<1>15. ASSUME SendAnswer(p) PROVE Goal
  <2>1. /\ ppc[p] = "send" /\ Pull(p, "handle") /\ UNCHANGED <<req, held, pulled, q>>
        /\ Send(req[p], "lisp")
        /\ told' = [told EXCEPT ![req[p]] = IF chan[req[p]] = "open" THEN "ok" ELSE "gone"]
    BY <1>15 DEF SendAnswer, At, svcVars
  <2>2. PICK x \in Reqs : x = req[p]
    BY <1>2, <2>1 DEF HandOK
  <2>3. Unsent(x) /\ ~held[p]
    BY <1>2, <2>1, <2>2 DEF HandOK
  <2>4. chan' = [chan EXCEPT ![x] = IF chan[x] = "open" THEN "lisp" ELSE chan[x]]
    BY <1>0, <2>1, <2>2 DEF Send
  <2> QED
    BY <1>14, <2>1, <2>2, <2>3, <2>4
<1>16. ASSUME Send500(p) PROVE Goal
  <2>1. /\ ppc[p] = "send500" /\ Pull(p, "free") /\ UNCHANGED <<req, held, pulled, told, q>>
        /\ Send(req[p], "500")
    BY <1>16 DEF Send500, At, svcVars, histVars
  <2>2. PICK x \in Reqs : x = req[p]
    BY <1>2, <2>1 DEF HandOK
  <2>3. Unsent(x) /\ ~held[p]
    BY <1>2, <2>1, <2>2 DEF HandOK
  <2>4. chan' = [chan EXCEPT ![x] = IF chan[x] = "open" THEN "500" ELSE chan[x]]
    BY <1>0, <2>1, <2>2 DEF Send
  <2> QED
    BY <1>14, <2>1, <2>2, <2>3, <2>4
<1>17. ASSUME FreeRequest(p) PROVE Goal
  <2>1. /\ ppc[p] = "free" /\ UNCHANGED <<pulled, told, q>>
        /\ req' = [req EXCEPT ![p] = NoReq] /\ held' = [held EXCEPT ![p] = FALSE]
    BY <1>17 DEF FreeRequest, At, svcVars, histVars
  <2>2. ~held'[p] /\ \A s \in Pullers \ {p} : held'[s] = held[s]
    BY <1>0, <2>1
  <2>3. CASE held[p]
    <3>1. Send(req[p], "500") /\ Pull(p, "uncount")
      BY <1>17, <2>3 DEF FreeRequest
    <3>2. PICK x \in Reqs : x = req[p]
      BY <1>2, <2>1 DEF HandOK
    <3>3. Unsent(x)
      BY <1>2, <2>3, <3>2 DEF HandOK
    <3>4. chan' = [chan EXCEPT ![x] = IF chan[x] = "open" THEN "500" ELSE chan[x]]
      BY <1>0, <3>1, <3>2 DEF Send
    <3> QED
      BY <1>14, <2>1, <2>2, <3>1, <3>2, <3>3, <3>4
  <2>4. CASE ~held[p]
    <3>1. chan' = chan /\ Pull(p, "loop")
      BY <1>17, <2>4 DEF FreeRequest
    <3>2. /\ \A s \in Pullers : ppc'[s] = IF s = p THEN "loop" ELSE ppc[s]
          /\ \A s \in Pullers : req'[s] = IF s = p THEN NoReq ELSE req[s]
      BY <1>0, <2>1, <3>1 DEF Pull
    <3>3. HandOK(p)'
      BY <1>0, <2>2, <3>2 DEF HandOK
    <3> QED
      BY <1>3, <2>1, <2>2, <3>1, <3>2, <3>3
  <2> QED
    BY <2>3, <2>4
<1>18. Goal
  BY <1>5, <1>6, <1>7, <1>8, <1>9, <1>11, <1>12, <1>13, <1>15, <1>16, <1>17, Zenon
     DEF PullStep
<1> QED
  BY <1>18 DEF Goal

LEMMA StopAnswers ==
    ASSUME TypeOK, Places, StopOK, \A s \in Reqs : RequestOK(s), NEW t \in Threads, StopNext(t)
    PROVE  Places' /\ \A s \in Reqs : RequestOK(s)'
<1> DEFINE Goal == Places' /\ \A s \in Reqs : RequestOK(s)'
<1>0. /\ drained \in [Threads -> Seq(Reqs)] /\ spc \in [Threads -> StopPoints]
      /\ req \in [Pullers -> Reqs \cup {NoReq}] /\ q \in Seq(Reqs)
  BY DEF TypeOK
<1>1. UNCHANGED <<rpc, answer, ppc, req, held, pulled, told>>
  BY StopKeeps DEF pullVars, histVars
<1>2. QueueOK /\ DrainedOK /\ HandsOK
  BY DEF Places
<1>3. ASSUME chan' = chan
      PROVE  HandsOK' /\ (\A x : Unsent(x) <=> Unsent(x)') /\ \A x \in Reqs : RequestOK(x)'
  <2>1. \A x : Unsent(x) <=> Unsent(x)'
    BY <1>1, <1>3 DEF Unsent
  <2>2. \A x \in Reqs : RequestOK(x)'
    BY <1>1, <1>3 DEF RequestOK
  <2>3. HandsOK'
    BY <1>1, <1>2, <2>1 DEF HandsOK
  <2> QED
    BY <2>1, <2>2, <2>3
<1>4. ASSUME chan' = chan, q' = q, drained' = drained, spc[t] # "send",
             NEW w, Stop(t, w)
      PROVE  Goal
  <2>1. \A x : Unsent(x) <=> Unsent(x)'
    BY <1>3, <1>4
  <2>2. QueueOK'
    BY <1>1, <1>2, <1>4, <2>1 DEF QueueOK, Parked, Distinct
  <2>3. \A u \in Threads : spc[u] = "send" => spc'[u] = "send"
    BY <1>0, <1>4 DEF Stop
  <2>4. DrainedOK'
    BY <1>1, <1>2, <1>4, <2>1, <2>3 DEF DrainedOK, Parked
  <2>5. HandsOK' /\ \A x \in Reqs : RequestOK(x)'
    BY <1>3, <1>4
  <2> QED
    BY <2>2, <2>4, <2>5, Zenon DEF Places
<1> SUFFICES Goal
  OBVIOUS
<1> HIDE DEF Goal
<1>5. CASE ~Drain(t) /\ ~DrainSends(t)
  <2>1. UNCHANGED <<chan, q, drained>> /\ spc[t] # "send" /\ \E w : Stop(t, w)
    BY <1>5 DEF StopNext, StopStep, StopBegins, DumpHook, Join, SetDown, NotifyStop, PollEnds,
                TakeRuntime, svcVars, reqVars
  <2> QED
    BY <1>4, <2>1
\* What is drained was parked, and nothing else is drained.
<1>6. CASE Drain(t)
  <2>1. /\ spc[t] = "drain" /\ q' = <<>> /\ chan' = chan
        /\ drained' = [drained EXCEPT ![t] = q] /\ Stop(t, "send")
    BY <1>6 DEF Drain, reqVars
  <2>2. \A u \in Threads : /\ drained'[u] = IF u = t THEN q ELSE drained[u]
                           /\ spc'[u] = IF u = t THEN "send" ELSE spc[u]
    BY <1>0, <2>1 DEF Stop
  <2>3. \A x : Unsent(x) <=> Unsent(x)'
    BY <1>3, <2>1
  <2>4. QueueOK'
    BY <2>1 DEF QueueOK, Parked, Distinct
  <2>5. q # <<>> => \A u \in Threads : drained[u] = <<>>
    BY <1>2 DEF DrainedOK, StopOK
  <2>6. \A u \in Threads : Parked(drained[u])'
    <3> TAKE u \in Threads
    <3>1. PICK s : s = drained'[u] /\ (s = q \/ s = drained[u])
      BY <2>2
    <3>2. Parked(s)
      BY <1>2, <3>1 DEF QueueOK, DrainedOK
    <3>3. \A i \in 1..Len(s) : Unsent(s[i])' /\ ~pulled'[s[i]]
      BY <1>1, <2>3, <3>2 DEF Parked
    <3> QED
      BY <3>1, <3>3 DEF Parked
  <2>7. DrainedOK'
    BY <1>2, <2>2, <2>5, <2>6 DEF DrainedOK
  <2> QED
    BY <1>3, <2>1, <2>4, <2>7 DEF Places, Goal
\* The answers go to requests that no puller has, and that nobody else drained.
<1>7. CASE DrainSends(t)
  <2>1. /\ spc[t] = "send" /\ q' = q
        /\ drained' = [drained EXCEPT ![t] = <<>>] /\ Stop(t, "poll")
    BY <1>7 DEF DrainSends, svcVars
  <2>2. PICK d \in Seq(Reqs) : d = drained[t]
    BY <1>0
  <2>3. chan' = [r \in Reqs |-> IF chan[r] = "open" /\ \E i \in 1..Len(d) : d[i] = r
                                THEN "503" ELSE chan[r]]
    BY <1>7, <2>2 DEF DrainSends
  <2>4. q = <<>>
    BY <2>1 DEF StopOK
  <2>5. \A u \in Threads : /\ drained'[u] = IF u = t THEN <<>> ELSE drained[u]
                           /\ spc'[u] = IF u = t THEN "poll" ELSE spc[u]
    BY <1>0, <2>1 DEF Stop
  <2>6. QueueOK'
    BY <2>1, <2>4 DEF QueueOK, Parked, Distinct
  <2>7. \A x \in Reqs : (\E i \in 1..Len(d) : d[i] = x) => Unsent(x) /\ ~pulled[x]
    BY <1>2, <2>2 DEF DrainedOK, Parked
  <2>8. \A x \in Reqs : pulled[x] => chan'[x] = chan[x]
    BY <2>3, <2>7
  <2>9. \A x \in Reqs : RequestOK(x)'
    <3> TAKE x \in Reqs
    <3>1. RequestOK(x)
      OBVIOUS
    <3>2. CASE chan'[x] = chan[x]
      BY <1>1, <3>1, <3>2 DEF RequestOK
    <3>3. CASE chan'[x] # chan[x]
      <4>1. chan'[x] = "503" /\ chan[x] = "open" /\ Unsent(x) /\ ~pulled[x]
        BY <2>3, <2>7, <3>3
      <4> QED
        BY <1>1, <3>1, <4>1 DEF RequestOK, Unsent, Sent, Early
    <3> QED
      BY <3>2, <3>3
  <2>10. DrainedOK'
    <3>1. \A u \in Threads : drained'[u] # <<>> => u # t /\ spc'[u] = "send"
      BY <1>2, <2>5 DEF DrainedOK
    <3>2. ASSUME NEW u \in Threads PROVE Parked(drained[u])'
      <4>1. PICK s : s = drained'[u]
        OBVIOUS
      <4>2. CASE s = <<>>
        BY <4>1, <4>2 DEF Parked
      <4>3. CASE s # <<>>
        <5>1. u # t /\ s = drained[u] /\ d = <<>>
          BY <1>2, <2>2, <2>5, <4>1, <4>3 DEF DrainedOK
        <5>2. \A x \in Reqs : chan'[x] = chan[x]
          BY <2>3, <5>1
        <5>3. \A i \in 1..Len(s) : s[i] \in Reqs /\ Unsent(s[i]) /\ ~pulled[s[i]]
          BY <1>0, <1>2, <5>1, ElementOfSeq DEF DrainedOK, Parked
        <5>4. \A i \in 1..Len(s) : Unsent(s[i])' /\ ~pulled'[s[i]]
          BY <1>1, <5>2, <5>3 DEF Unsent
        <5> QED
          BY <4>1, <5>4 DEF Parked
      <4> QED
        BY <4>2, <4>3
    <3> QED
      BY <1>2, <2>5, <3>1, <3>2 DEF DrainedOK
  <2>11. HandsOK'
    <3>1. \A p \in Pullers : req[p] \in Reqs => pulled[req[p]] /\ chan'[req[p]] = chan[req[p]]
      BY <1>2, <2>8 DEF HandsOK
    <3> QED
      BY <1>1, <1>2, <3>1 DEF HandsOK, Unsent
  <2> QED
    BY <2>6, <2>9, <2>10, <2>11 DEF Places, Goal
<1> QED
  BY <1>5, <1>6, <1>7, Zenon

LEMMA ConnAnswers ==
    ASSUME TypeOK, Places, \A s \in Reqs : RequestOK(s), ConnNext
    PROVE  Places' /\ \A s \in Reqs : RequestOK(s)'
<1>1. UNCHANGED <<q, rpc, chan, answer, ppc, req, held, pulled, told, spc, drained>>
  BY ConnKeeps DEF reqVars, parkVars, lispVars, pullVars, histVars, stopVars
<1>2. \A x : Unsent(x) <=> Unsent(x)'
  BY <1>1 DEF Unsent
<1>3. QueueOK' /\ DrainedOK'
  BY <1>1, <1>2 DEF Places, QueueOK, DrainedOK, Parked, Distinct
<1>4. HandsOK'
  BY <1>1, <1>2 DEF Places, HandsOK
<1>5. \A s \in Reqs : RequestOK(s)'
  BY <1>1 DEF RequestOK
<1> QED
  BY <1>3, <1>4, <1>5 DEF Places

-----------------------------------------------------------------------------
(***************************************************************************)
(* The theorems.                                                           *)
(***************************************************************************)

LEMMA InvInit == Init => Inv
<1> SUFFICES ASSUME Init PROVE Inv
  OBVIOUS
<1>1. TypeOK
  <2>1. Cap \in Nat /\ MaxConnections \in Nat /\ <<>> \in Seq(Reqs)
    BY LimitsAssumption
  <2> QED
    BY <2>1 DEF Init, TypeOK, ParkPoints, PullPoints, StopPoints
<1>2. LimitsHold
  <2>1. ReadingReqs = {} /\ PermitConns = {} /\ CountedConns = {} /\ InHand = {}
    BY DEF Init, ReadingReqs, PermitConns, CountedConns, InHand, Reading
  <2>2. Cardinality({}) = 0
    BY FS_EmptySet
  <2>3. BodyCounted /\ ConnCounted /\ InFlightCounted /\ Len(q) <= Cap
    BY <2>1, <2>2, LimitsAssumption DEF Init, BodyCounted, ConnCounted, InFlightCounted
  <2> QED
    BY <1>1, <2>3, LimitsParts
<1>3. StopOK
  BY DEF Init, StopOK
<1>4. QueueOK /\ DrainedOK
  BY DEF Init, QueueOK, DrainedOK, Parked, Distinct
<1>5. HandsOK
  <2>1. NoReq \notin Reqs
    BY SetsAssumption
  <2> QED
    BY <2>1 DEF Init, HandsOK
<1>6. \A r \in Reqs : RequestOK(r)
  BY DEF Init, RequestOK
<1>7. NoLostSlot
  BY DEF Init, NoLostSlot
<1> QED
  BY <1>1, <1>2, <1>3, <1>4, <1>5, <1>6, <1>7, RequestParts DEF Inv

LEMMA InvNext == Inv /\ [Next]_vars => Inv'
<1> SUFFICES ASSUME Inv, [Next]_vars PROVE Inv'
  OBVIOUS
<1>1. CASE Next
  <2>1. TypeOK' /\ LimitsHold'
    BY <1>1, TypesAndLimits DEF Inv
  <2>2. StopOK'
    BY <1>1, StopOKSteps DEF Inv
  <2>3. NoLostSlot'
    BY <1>1, SlotSteps DEF Inv
  <2>4. Places /\ \A r \in Reqs : RequestOK(r)
    BY RequestParts DEF Inv, Places
  <2>5. TypeOK /\ StopOK
    BY DEF Inv
  <2>6. Places' /\ \A r \in Reqs : RequestOK(r)'
    BY <1>1, <2>4, <2>5, NextParts, ConnAnswers, ParkAnswers, PullAnswers, StopAnswers
  <2>7. ChanOK' /\ ToldOK' /\ AnswersAgree'
    BY <2>6 DEF RequestOK, ChanOK, ToldOK, AnswersAgree
  <2> QED
    BY <2>1, <2>2, <2>3, <2>6, <2>7 DEF Inv, Places
<1>2. CASE UNCHANGED vars
  <2> USE <1>2 DEF vars, svcVars, flags, connVars, reqVars, parkVars, lispVars, pullVars,
                   histVars, stopVars
  <2>1. TypeOK'
    BY DEF Inv, TypeOK
  <2>2. LimitsHold'
    BY DEF Inv, LimitsHold
  <2>3. StopOK' /\ NoLostSlot'
    BY DEF Inv, StopOK, NoLostSlot
  <2>4. \A x : Unsent(x) <=> Unsent(x)'
    BY DEF Unsent
  <2>5. QueueOK' /\ DrainedOK'
    BY <2>4 DEF Inv, QueueOK, DrainedOK, Parked, Distinct
  <2>6. HandsOK'
    BY <2>4 DEF Inv, HandsOK
  <2>7. ChanOK' /\ ToldOK' /\ AnswersAgree'
    BY DEF Inv, ChanOK, ToldOK, AnswersAgree
  <2> QED
    BY <2>1, <2>2, <2>3, <2>5, <2>6, <2>7 DEF Inv
<1> QED
  BY <1>1, <1>2

LEMMA Invariance == Spec => []Inv
BY InvInit, InvNext, PTL DEF Spec

\* The state of the server keeps its types.
THEOREM TypeCorrect == Spec => []TypeOK
<1>1. Inv => TypeOK
  BY DEF Inv
<1> QED
  BY <1>1, Invariance, PTL

\* The permits of accept_loop and park are never lost or doubled, the queue is
\* never longer than QUEUE, and IN-FLIGHT counts the requests whose sender is
\* still there.
THEOREM LimitsKept == Spec => []LimitsHold
<1>1. Inv => LimitsHold
  BY DEF Inv
<1> QED
  BY <1>1, Invariance, PTL

\* No push sleeps through the slot it waits for: Svc::push enables its Notified
\* before it looks, and all who make room notify.
THEOREM NoSlotIsLost == Spec => []NoLostSlot
<1>1. Inv => NoLostSlot
  BY DEF Inv
<1> QED
  BY <1>1, Invariance, PTL

\* What the client is sent and what RESPOND told the handler, whatever timers,
\* drops, stops and handlers do to the request: the client has Lisp's answer only
\* if RESPOND returned normally, and if RESPOND returned normally the client is
\* sent that answer, nothing, or a 504.  They agree but for the last case, which
\* Httpd!LateIsGone denies and the code allows.
THEOREM AnswersTrue == Spec => []AnswersAgree
<1>1. Inv => AnswersAgree
  BY DEF Inv
<1> QED
  BY <1>1, Invariance, PTL

\* A parked request has a puller to come or a stop that will drain it, and
\* nothing parks after a stop has drained the queue.
THEOREM ParkedServed == Spec => []ParkedIsServed
<1>1. Inv => ParkedIsServed
  BY StopServes DEF Inv
<1> QED
  BY <1>1, Invariance, PTL

=============================================================================
