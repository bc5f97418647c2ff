------------------------ MODULE CallbackTunnelProofs ------------------------
(***************************************************************************)
(* Proofs about CallbackTunnel, for every number of crates and every depth *)
(* of nesting.                                                             *)
(*                                                                         *)
(* Two facts carry the argument.  A call's binding of the stash always     *)
(* holds the last condition its own callback signalled.  And the tunnel of *)
(* a library is right for an undisturbed callback-taking call in progress, *)
(* of which there is at most one per library: a callback-taking call       *)
(* disturbs every call into the same library beneath it.                   *)
(***************************************************************************)
EXTENDS CallbackTunnel, TLAPS

\* One call in progress, with the tunnels t.
FrameInv(f, t) ==
    /\ f.stash = f.signaled
    /\ f.phase = "callback" => f.cb
    /\ f.cb /\ ~f.disturbed => (t[f.crate] <=> f.signaled # 0)
    /\ ~f.cb => f.signaled = 0

\* Two calls in progress.
Shadowed ==
    \A j \in 1..Len(stack) : \A i \in 1..(j - 1) :
        stack[j].cb /\ stack[i].crate = stack[j].crate => stack[i].disturbed

StackInv == (\A i \in 1..Len(stack) : FrameInv(stack[i], tunnel)) /\ Shadowed

OutcomeInv == ResignalsItsOwn /\ ReportsItsOwn /\ UndisturbedClassification

IndInv == TypeOK /\ StackInv /\ OutcomeInv

-----------------------------------------------------------------------------
(***************************************************************************)
(* What the three kinds of step do to the stack.                           *)
(***************************************************************************)

\* The innermost call is an element of the stack.
LEMMA TopFrame ==
    ASSUME TypeOK, stack # <<>>
    PROVE  /\ Len(stack) \in Nat /\ Len(stack) >= 1
           /\ Top \in Frames /\ Top = stack[Len(stack)]
  BY DEF TypeOK, Top

\* Replacing the innermost call leaves the others.
LEMMA SetTopStack ==
    ASSUME TypeOK, stack # <<>>, NEW f \in Frames, SetTop(f)
    PROVE  /\ stack' \in Seq(Frames) /\ Len(stack') = Len(stack)
           /\ stack'[Len(stack)] = f
           /\ \A i \in 1..(Len(stack) - 1) : stack'[i] = stack[i]
  BY TopFrame DEF TypeOK, SetTop

\* The fields that only a call's own steps change.
Kept(g, f) ==
    /\ g.stash = f.stash /\ g.signaled = f.signaled
    /\ g.crate = f.crate /\ g.cb = f.cb /\ g.phase = f.phase

\* Disturbing a call changes nothing else of it.
LEMMA DisturbFrame ==
    ASSUME NEW f \in Frames, NEW b \in BOOLEAN, NEW g,
           g = [f EXCEPT !.disturbed = b]
    PROVE  g \in Frames /\ (g.disturbed <=> b) /\ Kept(g, f)
<1>1. g \in Frames
  BY DEF Frames
<1>2. g.disturbed = b
  BY DEF Frames
<1>3. Kept(g, f)
  BY DEF Frames, Kept
<1> QED
  BY <1>1, <1>2, <1>3

\* Handing it a condition changes nothing else either.
LEMMA HandFrame ==
    ASSUME NEW f \in Frames, NEW c \in Conditions, NEW g,
           g = [f EXCEPT !.hand = c]
    PROVE  g \in Frames /\ (g.disturbed <=> f.disturbed) /\ Kept(g, f)
<1>1. g \in Frames
  BY DEF Frames
<1>2. g.disturbed = f.disturbed
  BY DEF Frames
<1>3. Kept(g, f)
  BY DEF Frames, Kept
<1> QED
  BY <1>1, <1>2, <1>3

\* A new call disturbs some of the calls in progress and leaves the rest of
\* them as it was.
LEMMA CallStack ==
    ASSUME TypeOK, NEW k \in Crates, NEW cb \in BOOLEAN, NEW fallible \in BOOLEAN,
           Call(k, cb, fallible)
    PROVE  /\ stack' \in Seq(Frames) /\ Len(stack') = Len(stack) + 1
           /\ stack'[Len(stack) + 1] = NewFrame(k, cb, fallible)
           /\ \A i \in 1..Len(stack) :
                /\ Kept(stack'[i], stack[i])
                /\ stack'[i].disturbed <=>
                      stack[i].disturbed \/ (cb /\ stack[i].crate = k)
<1>1. NewFrame(k, cb, fallible) \in Frames
  BY BoundsAssumption DEF TypeOK, Call, NewFrame, Frames, Phases, Conditions, Calls
<1>2. stack \in Seq(Frames)
  BY DEF TypeOK
<1>3. Len(stack) \in Nat /\ \A i \in 1..Len(stack) : stack[i] \in Frames
  BY <1>2
<1>4. CASE ~cb
  <2>1. stack' = Append(stack, NewFrame(k, cb, fallible))
    BY <1>4 DEF Call
  <2>2. /\ stack' \in Seq(Frames) /\ Len(stack') = Len(stack) + 1
        /\ stack'[Len(stack) + 1] = NewFrame(k, cb, fallible)
        /\ \A i \in 1..Len(stack) : stack'[i] = stack[i]
    BY <1>1, <1>2, <2>1
  <2> QED
    BY <1>4, <2>2 DEF Kept
<1>5. CASE cb
  <2>1. \A i \in 1..Len(stack) :
           /\ Disturb(k)[i] \in Frames /\ Kept(Disturb(k)[i], stack[i])
           /\ Disturb(k)[i].disturbed <=> stack[i].disturbed \/ stack[i].crate = k
    <3> TAKE i \in 1..Len(stack)
    <3>1. Disturb(k)[i] =
            [stack[i] EXCEPT !.disturbed = stack[i].disturbed \/ stack[i].crate = k]
      BY DEF Disturb
    <3>2. (stack[i].disturbed \/ stack[i].crate = k) \in BOOLEAN
      OBVIOUS
    <3>3. stack[i] \in Frames
      BY <1>3
    <3> QED
      BY <3>1, <3>2, <3>3, DisturbFrame
  <2>2. Disturb(k) \in Seq(Frames) /\ Len(Disturb(k)) = Len(stack)
    BY <1>3, <2>1 DEF Disturb
  <2>3. stack' = Append(Disturb(k), NewFrame(k, cb, fallible))
    BY <1>5 DEF Call
  <2>4. /\ stack' \in Seq(Frames) /\ Len(stack') = Len(stack) + 1
        /\ stack'[Len(stack) + 1] = NewFrame(k, cb, fallible)
        /\ \A i \in 1..Len(stack) : stack'[i] = Disturb(k)[i]
    BY <1>1, <1>3, <2>2, <2>3
  <2> QED
    BY <1>5, <2>1, <2>4
<1> QED
  BY <1>4, <1>5

\* The condition a wrapper signals is a condition.
LEMMA SignalsType ==
    ASSUME TypeOK, stack # <<>>, NEW status \in 0..4
    PROVE  Signals(status) \in Conditions
<1>1. Top.stash \in Conditions /\ Top.id \in Calls
  BY TopFrame DEF Frames
<1> QED
  BY <1>1, BoundsAssumption DEF Signals, ErrorOf, Conditions, Calls

\* A call that ends hands its condition to the call beneath it, and changes
\* nothing else of it.
LEMMA LeaveStack ==
    ASSUME TypeOK, stack # <<>>, NEW status \in 0..4, NEW failed,
           Leave(status, failed)
    PROVE  /\ stack' \in Seq(Frames) /\ Len(stack') = Len(stack) - 1
           /\ \A i \in 1..(Len(stack) - 1) :
                /\ Kept(stack'[i], stack[i])
                /\ stack'[i].disturbed <=> stack[i].disturbed
<1>1. /\ Len(stack) \in Nat /\ Len(stack) >= 1
      /\ \A i \in 1..(Len(stack) - 1) : stack[i] \in Frames
  BY TopFrame DEF TypeOK
<1>2. stack' = [i \in 1..(Len(stack) - 1) |->
                   IF i = Len(stack) - 1
                   THEN [stack[i] EXCEPT !.hand = Signals(status)]
                   ELSE stack[i]]
  BY DEF Leave
<1>3. \A i \in 1..(Len(stack) - 1) :
        /\ stack'[i] \in Frames /\ Kept(stack'[i], stack[i])
        /\ stack'[i].disturbed <=> stack[i].disturbed
  <2> TAKE i \in 1..(Len(stack) - 1)
  <2>1. CASE i = Len(stack) - 1
    <3>1. stack'[i] = [stack[i] EXCEPT !.hand = Signals(status)]
      BY <1>2, <2>1
    <3> QED
      BY <1>1, <3>1, SignalsType, HandFrame
  <2>2. CASE i # Len(stack) - 1
    <3>1. stack'[i] = stack[i]
      BY <1>2, <2>2
    <3> QED
      BY <1>1, <3>1 DEF Kept
  <2> QED
    BY <2>1, <2>2
<1>4. stack' \in Seq(Frames) /\ Len(stack') = Len(stack) - 1
  BY <1>1, <1>2, <1>3
<1> QED
  BY <1>3, <1>4

-----------------------------------------------------------------------------
(***************************************************************************)
(* Every kind of step keeps the invariant of the stack.                    *)
(***************************************************************************)

\* A new call is undisturbed, its tunnel is clear, and it disturbs the others.
LEMMA CallInv ==
    ASSUME TypeOK, StackInv,
           NEW k \in Crates, NEW cb \in BOOLEAN, NEW fallible \in BOOLEAN,
           Call(k, cb, fallible)
    PROVE  StackInv' /\ TypeOK'
<1>1. tunnel \in [Crates -> BOOLEAN]
  BY DEF TypeOK
<1>2. tunnel' \in [Crates -> BOOLEAN]
  BY <1>1 DEF Call
<1>3. (cb => ~tunnel'[k]) /\ \A l \in Crates : ~(cb /\ l = k) => (tunnel'[l] <=> tunnel[l])
  BY <1>1 DEF Call
<1>4. Len(stack) \in Nat /\ \A i \in 1..Len(stack) : stack[i] \in Frames
  BY DEF TypeOK
<1>5. \A i \in 1..Len(stack) : FrameInv(stack'[i], tunnel')
  <2> TAKE i \in 1..Len(stack)
  <2>1. Kept(stack'[i], stack[i]) /\ stack[i].crate \in Crates /\ FrameInv(stack[i], tunnel)
    BY <1>4, CallStack DEF StackInv, Frames
  <2>2. stack'[i].disturbed <=> stack[i].disturbed \/ (cb /\ stack[i].crate = k)
    BY CallStack
  <2> QED
    BY <1>3, <2>1, <2>2 DEF FrameInv, Kept
<1>6. FrameInv(stack'[Len(stack) + 1], tunnel')
  <2>1. stack'[Len(stack) + 1] = NewFrame(k, cb, fallible)
    BY CallStack
  <2> QED
    BY <1>3, <2>1 DEF FrameInv, NewFrame
<1>7. Shadowed'
  <2> SUFFICES ASSUME NEW j \in 1..Len(stack'), NEW i \in 1..(j - 1),
                      stack'[j].cb, stack'[i].crate = stack'[j].crate
               PROVE  stack'[i].disturbed
    BY DEF Shadowed
  <2>1. Len(stack') = Len(stack) + 1
    BY CallStack
  <2>2. i \in 1..Len(stack) /\ Kept(stack'[i], stack[i])
    BY <1>4, <2>1, CallStack
  <2>3. stack'[i].disturbed <=> stack[i].disturbed \/ (cb /\ stack[i].crate = k)
    BY <2>2, CallStack
  <2>4. CASE j = Len(stack) + 1
    <3>1. stack'[j] = NewFrame(k, cb, fallible)
      BY <2>4, CallStack
    <3>2. stack'[j].cb = cb /\ stack'[j].crate = k
      BY <3>1 DEF NewFrame
    <3>3. cb /\ stack[i].crate = k
      BY <2>2, <3>2 DEF Kept
    <3> QED
      BY <2>3, <3>3
  <2>5. CASE j \in 1..Len(stack)
    <3>1. Kept(stack'[j], stack[j])
      BY <2>5, CallStack
    <3> QED
      BY <2>2, <2>3, <2>5, <3>1 DEF StackInv, Shadowed, Kept
  <2> QED
    BY <1>4, <2>1, <2>4, <2>5
<1>8. stack' \in Seq(Frames) /\ Len(stack') = Len(stack) + 1
  BY CallStack
<1>9. StackInv'
  BY <1>4, <1>5, <1>6, <1>7, <1>8 DEF StackInv
<1>10. calls' \in Calls /\ UNCHANGED <<lastError, conds, outcome>>
  BY BoundsAssumption DEF Call, Calls, TypeOK
<1> QED
  BY <1>2, <1>8, <1>9, <1>10 DEF TypeOK

\* A step of the innermost call that leaves the tunnel alone.
LEMMA QuietInv ==
    ASSUME TypeOK, StackInv, stack # <<>>, NEW f \in Frames, SetTop(f),
           UNCHANGED tunnel,
           f.stash = Top.stash, f.signaled = Top.signaled,
           f.crate = Top.crate, f.cb = Top.cb, f.disturbed <=> Top.disturbed,
           f.phase = "callback" => f.cb
    PROVE  StackInv'
<1> DEFINE n == Len(stack)
<1>1. n \in Nat /\ n >= 1 /\ Top = stack[n] /\ n \in 1..Len(stack)
  BY TopFrame
<1>2. /\ Len(stack') = n /\ stack'[n] = f
      /\ \A i \in 1..(n - 1) : stack'[i] = stack[i]
  BY SetTopStack
<1>3. FrameInv(stack'[n], tunnel')
  <2>1. FrameInv(Top, tunnel)
    BY <1>1 DEF StackInv
  <2> QED
    BY <1>2, <2>1 DEF FrameInv
<1>4. \A i \in 1..(n - 1) : FrameInv(stack'[i], tunnel')
  BY <1>1, <1>2 DEF StackInv, FrameInv
<1>5. \A i \in 1..n : /\ stack'[i].cb = stack[i].cb
                      /\ stack'[i].crate = stack[i].crate
                      /\ stack'[i].disturbed <=> stack[i].disturbed
  BY <1>1, <1>2
<1> HIDE DEF n
<1>6. Shadowed
  BY DEF StackInv
<1>7. Shadowed'
  BY <1>1, <1>2, <1>5, <1>6 DEF Shadowed, n
<1> QED
  BY <1>1, <1>2, <1>3, <1>4, <1>7 DEF StackInv

\* A callback that signals sets the stash and the tunnel for its own call; the
\* other callback-taking calls into that crate are disturbed already.
LEMMA SignalInv ==
    ASSUME TypeOK, StackInv, stack # <<>>, Top.cb,
           NEW f \in Frames, SetTop(f), NEW c \in Conditions, c # 0,
           f.stash = c, f.signaled = c, f.crate = Top.crate, f.cb = Top.cb,
           tunnel' = [tunnel EXCEPT ![Top.crate] = TRUE]
    PROVE  StackInv'
<1> DEFINE n == Len(stack)
<1>1. /\ n \in Nat /\ n >= 1 /\ Top = stack[n] /\ n \in 1..Len(stack)
      /\ Top.crate \in Crates
  BY TopFrame DEF Frames
<1>2. /\ Len(stack') = n /\ stack'[n] = f
      /\ \A i \in 1..(n - 1) : stack'[i] = stack[i] /\ stack[i] \in Frames
  BY <1>1, SetTopStack DEF TypeOK
<1>3. tunnel'[Top.crate] /\ \A l \in Crates : l # Top.crate => tunnel'[l] = tunnel[l]
  BY <1>1 DEF TypeOK
<1>4. FrameInv(stack'[n], tunnel')
  BY <1>2, <1>3 DEF FrameInv
<1>5. Shadowed
  BY DEF StackInv
<1>6. \A i \in 1..(n - 1) : FrameInv(stack'[i], tunnel')
  <2> TAKE i \in 1..(n - 1)
  <2>1. FrameInv(stack[i], tunnel) /\ stack[i].crate \in Crates /\ stack'[i] = stack[i]
    BY <1>1, <1>2 DEF StackInv, Frames
  <2>2. stack[i].crate = Top.crate => stack[i].disturbed
    BY <1>1, <1>5 DEF Shadowed
  <2> QED
    BY <1>3, <2>1, <2>2 DEF FrameInv
<1>7. \A i \in 1..n : stack'[i].cb = stack[i].cb /\ stack'[i].crate = stack[i].crate
  <2> TAKE i \in 1..n
  <2>1. CASE i = n
    BY <1>1, <1>2, <2>1
  <2>2. CASE i \in 1..(n - 1)
    BY <1>2, <2>2
  <2> QED
    BY <1>1, <2>1, <2>2
<1> HIDE DEF n
<1>8. Shadowed'
  BY <1>1, <1>2, <1>5, <1>7 DEF Shadowed, n
<1>9. \A i \in 1..n : FrameInv(stack'[i], tunnel')
  <2> TAKE i \in 1..n
  <2>1. i = n \/ i \in 1..(n - 1)
    BY <1>1
  <2> QED
    BY <1>4, <1>6, <2>1
<1>10. Len(stack') = n
  BY <1>2
<1> QED
  BY <1>8, <1>9, <1>10 DEF StackInv

\* A call that ends leaves the calls beneath it as they were.
LEMMA LeaveInv ==
    ASSUME TypeOK, StackInv, stack # <<>>, NEW status \in 0..4, NEW failed,
           Leave(status, failed)
    PROVE  StackInv'
<1> DEFINE m == Len(stack) - 1
<1>1. m \in Nat /\ Len(stack) = m + 1
  BY TopFrame
<1>2. /\ Len(stack') = m
      /\ \A i \in 1..m : Kept(stack'[i], stack[i])
                         /\ (stack'[i].disturbed <=> stack[i].disturbed)
  BY LeaveStack
<1>3. tunnel' = tunnel
  BY DEF Leave
<1> HIDE DEF m
<1>4. \A i \in 1..m : FrameInv(stack'[i], tunnel')
  <2> TAKE i \in 1..m
  <2>1. FrameInv(stack[i], tunnel)
    BY <1>1 DEF StackInv
  <2> QED
    BY <1>2, <1>3, <2>1 DEF FrameInv, Kept
<1>5. Shadowed'
  BY <1>1, <1>2 DEF StackInv, Shadowed, Kept
<1> QED
  BY <1>2, <1>4, <1>5 DEF StackInv

-----------------------------------------------------------------------------
(***************************************************************************)
(* Types, and what the wrapper reports.                                    *)
(***************************************************************************)

\* A call that ends keeps the types.
LEMMA LeaveType ==
    ASSUME TypeOK, stack # <<>>, NEW status \in 0..4, NEW failed \in BOOLEAN,
           Leave(status, failed), lastError' \in [Crates -> Calls]
    PROVE  TypeOK'
<1>1. /\ Top.id \in Calls /\ Top.crate \in Crates /\ Top.stash \in Conditions
      /\ Top.signaled \in Conditions /\ Top.disturbed \in BOOLEAN
  BY TopFrame DEF Frames
<1>2. 0 \in Conditions /\ 0 \in Calls
  BY BoundsAssumption DEF Conditions, Calls
<1> DEFINE r == IF status = 4 THEN Top.stash ELSE 0
           e == IF status \in 1..3 THEN lastError'[Top.crate] ELSE 0
<1>3. r \in Conditions /\ e \in Calls
  BY <1>1, <1>2
<1>4. outcome' = [call |-> Top.id, status |-> status, failed |-> failed,
                  signaled |-> Top.signaled, disturbed |-> Top.disturbed,
                  resignaled |-> r, reads |-> e]
  BY DEF Leave
<1> HIDE DEF r, e
<1>5. outcome' \in Outcomes
  BY <1>1, <1>3, <1>4 DEF Outcomes
<1>6. stack' \in Seq(Frames)
  BY LeaveStack
<1>7. UNCHANGED <<tunnel, calls, conds>>
  BY DEF Leave
<1> QED
  BY <1>5, <1>6, <1>7 DEF TypeOK

\* The body of the innermost call panics, is refused its arguments or returns
\* a value: nothing is re-signalled, and an error reported is its own.
LEMMA PlainExit ==
    ASSUME TypeOK, StackInv, stack # <<>>, NEW status \in {0, 2, 3},
           Leave(status, FALSE), status # 0 => SetLastError
    PROVE  OutcomeInv'
<1>1. Top.id \in Calls /\ Top.crate \in Crates /\ lastError \in [Crates -> Calls]
  BY TopFrame DEF TypeOK, Frames
<1>2. outcome'.failed = FALSE /\ outcome'.status = status /\ outcome'.resignaled = 0
  BY DEF Leave
<1>3. status # 0 => outcome'.reads = Top.id /\ outcome'.call = Top.id
  BY <1>1 DEF Leave, SetLastError
<1>4. ResignalsItsOwn'
  BY <1>2 DEF ResignalsItsOwn
<1>5. ReportsItsOwn'
  BY <1>2, <1>3 DEF ReportsItsOwn
<1>6. UndisturbedClassification'
  BY <1>2 DEF UndisturbedClassification
<1> QED
  BY <1>4, <1>5, <1>6 DEF OutcomeInv

\* The body returns Err.
LEMMA ErrExit ==
    ASSUME TypeOK, StackInv, ReturnErr
    PROVE  OutcomeInv' /\ StackInv' /\ TypeOK'
<1>a. 1 \in 0..4 /\ 4 \in 0..4 /\ TRUE \in BOOLEAN
  OBVIOUS
<1>1. /\ stack # <<>> /\ Top.id \in Calls /\ Top.crate \in Crates
      /\ lastError \in [Crates -> Calls]
  BY TopFrame DEF ReturnErr, In, TypeOK, Frames
<1>2. FrameInv(Top, tunnel)
  BY <1>1, TopFrame DEF StackInv
<1>3. CASE Top.cb /\ tunnel[Top.crate]
  <2>1. Leave(4, TRUE) /\ UNCHANGED lastError
    BY <1>3 DEF ReturnErr
  <2>2. /\ outcome'.status = 4 /\ outcome'.resignaled = Top.stash
        /\ outcome'.signaled = Top.signaled
        /\ (outcome'.disturbed <=> Top.disturbed)
    BY <2>1 DEF Leave
  <2>3. Top.stash = Top.signaled /\ (~Top.disturbed => Top.signaled # 0)
    BY <1>2, <1>3 DEF FrameInv
  <2>4. ResignalsItsOwn' /\ ReportsItsOwn'
    BY <2>2, <2>3 DEF ResignalsItsOwn, ReportsItsOwn
  <2>5. UndisturbedClassification'
    BY <2>2, <2>3 DEF UndisturbedClassification, Classified
  <2>6. StackInv'
    BY <1>1, <2>1, <1>a, LeaveInv
  <2>7. TypeOK'
    BY <1>1, <2>1, <1>a, LeaveType
  <2> QED
    BY <2>4, <2>5, <2>6, <2>7 DEF OutcomeInv
<1>4. CASE ~(Top.cb /\ tunnel[Top.crate])
  <2>1. Leave(1, TRUE) /\ SetLastError
    BY <1>4 DEF ReturnErr
  <2>2. lastError' \in [Crates -> Calls] /\ lastError'[Top.crate] = Top.id
    BY <1>1, <2>1 DEF SetLastError
  <2>3. /\ outcome'.status = 1 /\ outcome'.resignaled = 0
        /\ outcome'.signaled = Top.signaled
        /\ outcome'.reads = Top.id /\ outcome'.call = Top.id
        /\ (outcome'.disturbed <=> Top.disturbed)
    BY <2>1, <2>2 DEF Leave
  <2>4. ~Top.disturbed => Top.signaled = 0
    BY <1>2, <1>4 DEF FrameInv
  <2>5. ResignalsItsOwn' /\ ReportsItsOwn'
    BY <2>3 DEF ResignalsItsOwn, ReportsItsOwn
  <2>6. UndisturbedClassification'
    BY <2>3, <2>4 DEF UndisturbedClassification, Classified
  <2>7. StackInv'
    BY <1>1, <2>1, <1>a, LeaveInv
  <2>8. TypeOK'
    BY <1>1, <2>1, <2>2, <1>a, LeaveType
  <2> QED
    BY <2>5, <2>6, <2>7, <2>8 DEF OutcomeInv
<1> QED
  BY <1>3, <1>4

\* A step that reports nothing keeps what was reported.
LEMMA SameOutcome == OutcomeInv /\ UNCHANGED outcome => OutcomeInv'
  BY DEF OutcomeInv, ResignalsItsOwn, ReportsItsOwn, UndisturbedClassification,
     Classified

\* Moving to another phase changes nothing else of a call.
LEMMA PhaseFrame ==
    ASSUME NEW f \in Frames, NEW p \in Phases, NEW g, 0 \in Conditions,
           g = [f EXCEPT !.phase = p] \/ g = [f EXCEPT !.phase = p, !.hand = 0]
    PROVE  /\ g \in Frames /\ g.phase = p
           /\ g.stash = f.stash /\ g.signaled = f.signaled
           /\ g.crate = f.crate /\ g.cb = f.cb /\ (g.disturbed <=> f.disturbed)
<1>1. g \in Frames
  BY DEF Frames
<1>2. g.phase = p /\ g.stash = f.stash /\ g.signaled = f.signaled /\ g.crate = f.crate
  BY DEF Frames
<1>3. g.cb = f.cb
  BY DEF Frames
<1>4. g.disturbed = f.disturbed
  BY DEF Frames
<1> QED
  BY <1>1, <1>2, <1>3, <1>4

\* The innermost call moves to another phase.
LEMMA PhaseStep ==
    ASSUME IndInv, stack # <<>>, NEW p \in Phases, p = "callback" => Top.cb,
           SetTop([Top EXCEPT !.phase = p])
             \/ SetTop([Top EXCEPT !.phase = p, !.hand = 0]),
           UNCHANGED <<tunnel, lastError, calls, conds, outcome>>
    PROVE  IndInv'
<1>1. TypeOK /\ StackInv /\ OutcomeInv
  BY DEF IndInv
<1>2. 0 \in Conditions
  BY BoundsAssumption DEF Conditions
<1>3. PICK g : /\ SetTop(g)
               /\ g = [Top EXCEPT !.phase = p]
                  \/ g = [Top EXCEPT !.phase = p, !.hand = 0]
  OBVIOUS
<1>4. Top \in Frames
  BY <1>1, TopFrame
<1>5. /\ g \in Frames /\ g.phase = p
      /\ g.stash = Top.stash /\ g.signaled = Top.signaled
      /\ g.crate = Top.crate /\ g.cb = Top.cb /\ (g.disturbed <=> Top.disturbed)
  <2> DEFINE f == Top
  <2>1. f \in Frames
    BY <1>4
  <2>2. g = [f EXCEPT !.phase = p] \/ g = [f EXCEPT !.phase = p, !.hand = 0]
    BY <1>3
  <2> HIDE DEF f
  <2>3. /\ g \in Frames /\ g.phase = p
        /\ g.stash = f.stash /\ g.signaled = f.signaled
        /\ g.crate = f.crate /\ g.cb = f.cb /\ (g.disturbed <=> f.disturbed)
    BY <1>2, <2>1, <2>2, PhaseFrame
  <2> QED
    BY <2>3 DEF f
<1>6. g.phase = "callback" => g.cb
  BY <1>5
<1>7. StackInv'
  BY <1>1, <1>3, <1>5, <1>6, QuietInv
<1>8. stack' \in Seq(Frames)
  BY <1>1, <1>3, <1>5, SetTopStack
<1>9. TypeOK'
  BY <1>1, <1>8 DEF TypeOK
<1> QED
  BY <1>1, <1>7, <1>9, SameOutcome DEF IndInv

\* The callback of the innermost call signals.
LEMMA SignalStep ==
    ASSUME IndInv, NEW c \in Conditions, CallbackSignals(c)
    PROVE  IndInv'
<1>1. TypeOK /\ StackInv /\ OutcomeInv /\ stack # <<>> /\ Top.phase = "callback"
  BY DEF IndInv, CallbackSignals, In
<1>2. Top \in Frames /\ Top.cb /\ Top.crate \in Crates
  <2>1. FrameInv(Top, tunnel)
    BY <1>1, TopFrame DEF StackInv
  <2> QED
    BY <1>1, <2>1, TopFrame DEF FrameInv, Frames
<1>3. c # 0 /\ conds' \in 0..MaxConds
  BY <1>1, BoundsAssumption DEF CallbackSignals, MaySignal, TypeOK
<1> DEFINE f == [Top EXCEPT !.phase = "rust", !.hand = 0, !.stash = c,
                            !.signaled = c, !.disturbed = FALSE]
<1>4. f \in Frames
  <2>1. 0 \in Conditions /\ "rust" \in Phases
    BY BoundsAssumption DEF Conditions, Phases
  <2> QED
    BY <1>2, <2>1 DEF Frames
<1>5. f.stash = c /\ f.signaled = c /\ f.crate = Top.crate
  BY <1>2 DEF Frames
<1>6. f.cb = Top.cb
  BY <1>2 DEF Frames
<1>7. /\ SetTop(f) /\ tunnel' = [tunnel EXCEPT ![Top.crate] = TRUE]
      /\ UNCHANGED <<lastError, calls, outcome>>
  BY DEF CallbackSignals
<1> HIDE DEF f
<1>8. StackInv'
  BY <1>1, <1>2, <1>3, <1>4, <1>5, <1>6, <1>7, SignalInv
<1>9. stack' \in Seq(Frames)
  BY <1>1, <1>4, <1>7, SetTopStack
<1>10. tunnel' \in [Crates -> BOOLEAN]
  BY <1>1, <1>7 DEF TypeOK
<1>11. TypeOK'
  BY <1>1, <1>3, <1>7, <1>9, <1>10 DEF TypeOK
<1> QED
  BY <1>1, <1>7, <1>8, <1>11, SameOutcome DEF IndInv

-----------------------------------------------------------------------------
(***************************************************************************)
(* The theorems.                                                           *)
(***************************************************************************)

\* With no call in progress the invariant holds.
LEMMA InitInv == Init => IndInv
<1> SUFFICES ASSUME Init PROVE IndInv
  OBVIOUS
<1>1. 0 \in Conditions /\ 0 \in Calls
  BY BoundsAssumption DEF Conditions, Calls
<1>2. NoOutcome \in Outcomes
  BY <1>1 DEF NoOutcome, Outcomes
<1>3. TypeOK
  BY <1>1, <1>2, BoundsAssumption DEF Init, TypeOK
<1>4. StackInv
  BY DEF Init, StackInv, Shadowed
<1>5. OutcomeInv
  BY DEF Init, NoOutcome, OutcomeInv, ResignalsItsOwn, ReportsItsOwn,
     UndisturbedClassification
<1> QED
  BY <1>3, <1>4, <1>5 DEF IndInv

\* Every step keeps it.
LEMMA NextInv == IndInv /\ [Next]_vars => IndInv'
<1> SUFFICES ASSUME IndInv, [Next]_vars PROVE IndInv'
  OBVIOUS
<1>a. TypeOK /\ StackInv /\ OutcomeInv
  BY DEF IndInv
<1>c. /\ 0 \in 0..4 /\ 2 \in 0..4 /\ 3 \in 0..4 /\ FALSE \in BOOLEAN
      /\ 0 \in {0, 2, 3} /\ 2 \in {0, 2, 3} /\ 3 \in {0, 2, 3}
  OBVIOUS
<1>b. "rust" \in Phases /\ "callback" \in Phases /\ "stored" \in Phases
  BY DEF Phases
<1>1. CASE \E k \in Crates, cb \in BOOLEAN, fallible \in BOOLEAN : Call(k, cb, fallible)
  <2> PICK k \in Crates, cb \in BOOLEAN, fallible \in BOOLEAN : Call(k, cb, fallible)
    BY <1>1
  <2>1. UNCHANGED outcome
    BY DEF Call
  <2> QED
    BY <1>a, <2>1, CallInv, SameOutcome DEF IndInv
<1>2. CASE PreludeDone
  BY <1>2, <1>b, PhaseStep DEF PreludeDone, In
<1>3. CASE Invalid
  <2>1. stack # <<>> /\ Leave(3, FALSE) /\ SetLastError
    BY <1>3 DEF Invalid, In
  <2>2. lastError' \in [Crates -> Calls]
    BY <1>a, <2>1, TopFrame DEF SetLastError, TypeOK, Frames
  <2>3. StackInv'
    BY <1>a, <1>c, <2>1, LeaveInv
  <2>4. TypeOK'
    BY <1>a, <1>c, <2>1, <2>2, LeaveType
  <2>5. OutcomeInv'
    BY <1>a, <1>c, <2>1, PlainExit
  <2> QED
    BY <2>3, <2>4, <2>5 DEF IndInv
<1>4. CASE Invoke
  BY <1>4, <1>b, PhaseStep DEF Invoke, In
<1>5. CASE InvokeStored
  BY <1>5, <1>b, PhaseStep DEF InvokeStored, In
<1>6. CASE CallbackReturns
  BY <1>6, <1>b, PhaseStep DEF CallbackReturns, In
<1>6a. CASE StoredReturns
  BY <1>6a, <1>b, PhaseStep DEF StoredReturns, In
<1>7. CASE \E c \in Conditions : CallbackSignals(c)
  BY <1>7, SignalStep
<1>8. CASE ReturnOk
  <2>1. stack # <<>> /\ Leave(0, FALSE) /\ UNCHANGED lastError
    BY <1>8 DEF ReturnOk, In
  <2>2. lastError' \in [Crates -> Calls]
    BY <1>a, <2>1 DEF TypeOK
  <2>3. StackInv'
    BY <1>a, <1>c, <2>1, LeaveInv
  <2>4. TypeOK'
    BY <1>a, <1>c, <2>1, <2>2, LeaveType
  <2>5. OutcomeInv'
    BY <1>a, <1>c, <2>1, PlainExit
  <2> QED
    BY <2>3, <2>4, <2>5 DEF IndInv
<1>9. CASE Panic
  <2>1. stack # <<>> /\ Leave(2, FALSE) /\ SetLastError
    BY <1>9 DEF Panic, In
  <2>2. lastError' \in [Crates -> Calls]
    BY <1>a, <2>1, TopFrame DEF SetLastError, TypeOK, Frames
  <2>3. StackInv'
    BY <1>a, <1>c, <2>1, LeaveInv
  <2>4. TypeOK'
    BY <1>a, <1>c, <2>1, <2>2, LeaveType
  <2>5. OutcomeInv'
    BY <1>a, <1>c, <2>1, PlainExit
  <2> QED
    BY <2>3, <2>4, <2>5 DEF IndInv
<1>10. CASE ReturnErr
  BY <1>10, <1>a, ErrExit DEF IndInv
<1>11. CASE UNCHANGED vars
  BY <1>11, <1>a, SameOutcome DEF vars, IndInv, TypeOK, StackInv, Shadowed
<1> QED
  BY <1>1, <1>2, <1>3, <1>4, <1>5, <1>6, <1>6a, <1>7, <1>8, <1>9, <1>10,
     <1>11 DEF Next

\* The inductive invariant of calls and callbacks, at any depth of nesting.
THEOREM Inductive == Spec => []IndInv
  BY InitInv, NextInv, PTL DEF Spec

\* Every variable keeps its type; in particular the wrapper only ever sees the
\* five status codes it knows.
THEOREM TypeCorrect == Spec => []TypeOK
<1>1. IndInv => TypeOK
  BY DEF IndInv
<1> QED
  BY <1>1, Inductive, PTL

\* A wrapper re-signals only what a callback of its own call signalled.
THEOREM ResignalsOwn == Spec => []ResignalsItsOwn
<1>1. IndInv => ResignalsItsOwn
  BY DEF IndInv, OutcomeInv
<1> QED
  BY <1>1, Inductive, PTL

\* The error a wrapper reports is the one its own call recorded.
THEOREM ReportsOwn == Spec => []ReportsItsOwn
<1>1. IndInv => ReportsItsOwn
  BY DEF IndInv, OutcomeInv
<1> QED
  BY <1>1, Inductive, PTL

\* A failing call that no nested callback-taking call into its crate disturbed
\* is classified as BOUNDARY.md promises.
THEOREM Classification == Spec => []UndisturbedClassification
<1>1. IndInv => UndisturbedClassification
  BY DEF IndInv, OutcomeInv
<1> QED
  BY <1>1, Inductive, PTL

=============================================================================
