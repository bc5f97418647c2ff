-------------------------- MODULE HandleCellProofs --------------------------
(***************************************************************************)
(* Proofs about HandleCell, for every number of crates, cells, activations *)
(* and handle arguments, every generation and session bound and every      *)
(* number of interrupts.                                                   *)
(*                                                                         *)
(* The argument.  A call that was admitted to a cell is a holder of the    *)
(* cell, and the in-flight counter is never below the number of holders    *)
(* (an interrupt can only leave it above).  So a cell that becomes freed,  *)
(* which needs a counter of zero, has no holder, and it gets none later.   *)
(* Whoever made it freed is the only activation that is about to drop the  *)
(* Box.  Sessions and processes move together, and a library's session    *)
(* never changes, so the session and generation gates identify the library *)
(* and the process a pointer belongs to.                                   *)
(***************************************************************************)
EXTENDS HandleCell, FiniteSetTheorems, TLAPS

\* The image and the process it runs in.
SessionInv ==
    /\ process = IF starting THEN session + 1 ELSE session
    /\ starting => \A a \in Acts : pc[a] = "idle"
    /\ starting => toReload = {}

\* Where a cell's pointer came from.
CellInv ==
    \A c \in Cells :
        /\ state[c] # "none" =>
            /\ home[c] \in Libs /\ Loaded(home[c])
            /\ birth[c] = home[c] /\ freeFn[c] = home[c]
            /\ cellSession[c] = homeProcess[c]
        /\ homeProcess[c] <= session
        /\ state[c] = "none" => freeCount[c] = 0

\* What an activation may be doing at each point.
ActOK(a) ==
    /\ pc[a] = "idle" => held[a] = 0
    /\ pc[a] \in {"begin", "foreign", "wrap"} =>
        /\ wrapper[a] \in Libs /\ Loaded(wrapper[a])
        /\ ctxSession[wrapper[a]] = session
    /\ \A i \in 1..Len(args[a]) : state[args[a][i]] # "none"
    /\ \A i \in 1..held[a] : /\ home[args[a][i]] = wrapper[a]
                             /\ homeProcess[args[a][i]] = session
    /\ pc[a] = "foreign" => held[a] = Len(args[a])
    /\ pc[a] = "wrap" =>
        /\ target[a] \in Cells
        /\ state[target[a]] = "none"
        /\ home[target[a]] = wrapper[a]
        /\ homeProcess[target[a]] = session

ActInv == \A a \in Acts : ActOK(a)

\* Whoever holds a Box that no cell owns yet holds it alone.
WrapInv ==
    \A a, b \in Acts :
        pc[a] = "wrap" /\ pc[b] = "wrap" /\ target[a] = target[b] => a = b

\* Who is counted, and what a zero counter means.
CountOK(c) ==
    /\ Cardinality(Holders(c)) <= inFlight[c]
    /\ state[c] = "free-pending" => inFlight[c] > 0
    /\ state[c] = "freed" => Holders(c) = {}

CountInv == \A c \in Cells : CountOK(c)

\* Who drops a Box, and that nobody has dropped it before.
DropInv ==
    /\ \A c \in Cells : /\ freeCount[c] <= 1
                        /\ freeCount[c] > 0 => state[c] = "freed"
    /\ \A a \in Acts : pc[a] = "drop" =>
            /\ target[a] \in Cells
            /\ state[target[a]] = "freed"
            /\ freeCount[target[a]] = 0
    /\ \A a, b \in Acts :
            pc[a] = "drop" /\ pc[b] = "drop" /\ target[a] = target[b] => a = b

IndInv ==
    /\ TypeOK
    /\ SessionInv
    /\ CellInv
    /\ ActInv
    /\ WrapInv
    /\ CountInv
    /\ DropInv

-----------------------------------------------------------------------------
(***************************************************************************)
(* Facts about libraries, counters and holders.                            *)
(***************************************************************************)

\* The marker for "allocated by no library" is not a library.
LEMMA NoLibNotLib == NoLib \notin Libs
  BY DEF NoLib, Libs

\* Crate and generation identify a library.
LEMMA LibEquality ==
    ASSUME NEW l \in Libs, NEW m \in Libs, l[1] = m[1], l[2] = m[2]
    PROVE  l = m
  BY DEF Libs

\* Counting up keeps a family of counters natural.
LEMMA Increment ==
    ASSUME NEW S, NEW f \in [S -> Nat], NEW x
    PROVE  [f EXCEPT ![x] = @ + 1] \in [S -> Nat]
<1>1. CASE x \in S
  BY <1>1
<1>2. CASE x \notin S
  <2>1. [f EXCEPT ![x] = @ + 1] = f
    BY <1>2
  <2> QED
    BY <2>1
<1> QED
  BY <1>1, <1>2

\* Counting down a positive counter keeps it natural.
LEMMA Decrement ==
    ASSUME NEW S, NEW f \in [S -> Nat], NEW x \in S, f[x] > 0
    PROVE  [f EXCEPT ![x] = @ - 1] \in [S -> Nat]
  OBVIOUS

\* Only finitely many argument positions can hold a cell.
LEMMA HoldersFinite ==
    ASSUME NEW c \in Cells
    PROVE  IsFiniteSet(Holders(c)) /\ Cardinality(Holders(c)) \in Nat
<1>1. IsFiniteSet(Slots)
  BY FS_Interval, BoundsAssumption DEF Slots
<1>2. IsFiniteSet(Users)
  BY <1>1, FS_Product, ActsAssumption DEF Users
<1>3. Holders(c) \subseteq Users
  BY DEF Holders
<1> QED
  BY <1>2, <1>3, FS_Subset, FS_CardinalityType

\* cell-begin-call adds one holder, which was none before.
LEMMA BeginHolders ==
    ASSUME TypeOK, NEW a \in Acts, BeginCall(a), NEW c \in Cells
    PROVE  /\ NextArg(a) \in Cells
           /\ c # NextArg(a) => Holders(c)' = Holders(c)
           /\ c = NextArg(a) =>
                /\ Holders(c)' = Holders(c) \cup {<<a, held[a] + 1>>}
                /\ <<a, held[a] + 1>> \notin Holders(c)
<1>t. /\ held \in [Acts -> Nat] /\ args \in [Acts -> Seq(Cells)]
      /\ held[a] <= Len(args[a]) /\ Len(args[a]) <= MaxArgs
  BY DEF TypeOK
<1>1. /\ held[a] \in Nat /\ Len(args[a]) \in Nat
      /\ held[a] + 1 <= Len(args[a]) /\ Len(args[a]) <= MaxArgs
      /\ held[a] + 1 \in Slots
  BY <1>t, BoundsAssumption DEF BeginCall, Slots
<1>2. NextArg(a) \in Cells
  BY <1>t, <1>1 DEF NextArg
<1>3. <<a, held[a] + 1>> \in Users
  BY <1>1 DEF Users
<1>4. \A u \in Users : u[2] <= held'[u[1]] <=> u[2] <= held[u[1]] \/ u = <<a, held[a] + 1>>
  <2> TAKE u \in Users
  <2>1. u = <<u[1], u[2]>> /\ u[1] \in Acts /\ u[2] \in Nat
    BY BoundsAssumption DEF Users, Slots
  <2>2. CASE u[1] = a
    <3>1. held'[u[1]] = held[a] + 1
      BY <1>t, <2>2 DEF BeginCall
    <3>2. u = <<a, held[a] + 1>> <=> u[2] = held[a] + 1
      BY <2>1, <2>2
    <3> QED
      BY <1>1, <2>1, <2>2, <3>1, <3>2
  <2>3. CASE u[1] # a
    BY <1>t, <2>1, <2>3 DEF BeginCall
  <2> QED
    BY <2>2, <2>3
<1>5. args' = args
  BY DEF BeginCall
<1>6. <<a, held[a] + 1>> \notin Holders(c)
  BY <1>1 DEF Holders
<1> QED
  BY <1>2, <1>3, <1>4, <1>5, <1>6 DEF Holders, NextArg

\* cell-end-call, or an unwind that skips it, removes one holder.
LEMMA EndHolders ==
    ASSUME TypeOK, NEW a \in Acts, held[a] > 0,
           held' = [held EXCEPT ![a] = @ - 1], args' = args,
           NEW c \in Cells
    PROVE  /\ LastArg(a) \in Cells
           /\ c # LastArg(a) => Holders(c)' = Holders(c)
           /\ c = LastArg(a) =>
                /\ Holders(c)' = Holders(c) \ {<<a, held[a]>>}
                /\ <<a, held[a]>> \in Holders(c)
<1>t. /\ held \in [Acts -> Nat] /\ args \in [Acts -> Seq(Cells)]
      /\ held[a] <= Len(args[a]) /\ Len(args[a]) <= MaxArgs
  BY DEF TypeOK
<1>1. /\ held[a] \in Nat /\ Len(args[a]) \in Nat
      /\ held[a] <= Len(args[a]) /\ Len(args[a]) <= MaxArgs
      /\ held[a] \in Slots
  BY <1>t, BoundsAssumption DEF Slots
<1>2. LastArg(a) \in Cells
  BY <1>t, <1>1 DEF LastArg
<1>3. <<a, held[a]>> \in Users
  BY <1>1 DEF Users
<1>4. \A u \in Users : u[2] <= held'[u[1]] <=> u[2] <= held[u[1]] /\ u # <<a, held[a]>>
  <2> TAKE u \in Users
  <2>1. u = <<u[1], u[2]>> /\ u[1] \in Acts /\ u[2] \in Nat
    BY BoundsAssumption DEF Users, Slots
  <2>2. CASE u[1] = a
    <3>1. held'[u[1]] = held[a] - 1
      BY <1>t, <2>2
    <3>2. u = <<a, held[a]>> <=> u[2] = held[a]
      BY <2>1, <2>2
    <3> QED
      BY <1>1, <2>1, <2>2, <3>1, <3>2
  <2>3. CASE u[1] # a
    BY <1>t, <2>1, <2>3
  <2> QED
    BY <2>2, <2>3
<1> QED
  BY <1>1, <1>2, <1>3, <1>4 DEF Holders, LastArg

\* Entering and leaving a wrapper changes no holder.
LEMMA IdleHolders ==
    ASSUME TypeOK, NEW a \in Acts, held[a] = 0, held' = held,
           NEW s, args' = [args EXCEPT ![a] = s], NEW c \in Cells
    PROVE  Holders(c)' = Holders(c)
<1>1. \A u \in Users : u[2] <= held[u[1]] => u[1] # a
  BY BoundsAssumption DEF Users, Slots
<1>2. \A u \in Users : u[1] \in Acts
  BY DEF Users
<1> QED
  BY <1>1, <1>2 DEF Holders, TypeOK

\* A cell that cell-end-call is run on has a positive in-flight counter.
LEMMA EndCallCounted ==
    ASSUME TypeOK, CountInv, NEW a \in Acts, EndCall(a)
    PROVE  LastArg(a) \in Cells /\ inFlight[LastArg(a)] > 0
<1>1. held[a] > 0 /\ held' = [held EXCEPT ![a] = @ - 1] /\ args' = args
  BY DEF EndCall
<1>2. LastArg(a) \in Cells
  <2>1. args[a] \in Seq(Cells) /\ held[a] \in Nat /\ held[a] <= Len(args[a])
    BY DEF TypeOK
  <2> QED
    BY <1>1, <2>1 DEF LastArg
<1>3. <<a, held[a]>> \in Holders(LastArg(a))
  BY <1>1, <1>2, EndHolders
<1>4. Cardinality(Holders(LastArg(a))) # 0
  BY <1>2, <1>3, HoldersFinite, FS_EmptySet
<1>5. inFlight[LastArg(a)] \in Nat
  BY <1>2 DEF TypeOK
<1> QED
  BY <1>2, <1>4, <1>5, HoldersFinite DEF CountInv, CountOK

-----------------------------------------------------------------------------
(***************************************************************************)
(* Every action keeps the types.                                           *)
(***************************************************************************)

\* Every step of every operation keeps each variable in its type.
LEMMA TypeStep == TypeOK /\ ActInv /\ CountInv /\ Next => TypeOK'
<1> SUFFICES ASSUME TypeOK, ActInv, CountInv, Next PROVE TypeOK'
  OBVIOUS
<1> USE BoundsAssumption DEF TypeOK, imageVars, cellVars, actVars, worldVars
<1>1. CASE \E k \in Crates : Reload(k)
  BY <1>1 DEF Reload, CommitGeneration, Libs
<1>2. CASE \E k \in Crates : RestoreCrate(k)
  <2> PICK k \in Crates : RestoreCrate(k)
    BY <1>2
  <2>1. CASE CommitGeneration(k)
    BY <2>1 DEF RestoreCrate, CommitGeneration, Libs
  <2>2. CASE UNCHANGED <<generation, ctxSession>>
    BY <2>2 DEF RestoreCrate
  <2> QED
    BY <2>1, <2>2 DEF RestoreCrate
<1>3. CASE DumpAndStart
  BY <1>3 DEF DumpAndStart
<1>4. CASE RestoreHook
  <2>1. toReload' \in SUBSET Crates
    BY <1>4 DEF RestoreHook
  <2>2. starting' \in BOOLEAN
    BY <1>4 DEF RestoreHook
  <2> QED
    BY <1>4, <2>1, <2>2 DEF RestoreHook
<1>5. CASE \E a \in Acts, p \in Acts \cup {NoAct}, l \in Libs, cs \in ArgSeqs :
              Enter(a, p, l, cs)
  <2> PICK a \in Acts, p \in Acts \cup {NoAct}, l \in Libs, cs \in ArgSeqs :
              Enter(a, p, l, cs)
    BY <1>5
  <2>1. cs \in Seq(Cells) /\ Len(cs) \in Nat /\ Len(cs) <= MaxArgs
    BY DEF ArgSeqs
  <2>2. held[a] = 0
    BY DEF Enter, ActInv, ActOK
  <2>3. /\ pc' \in [Acts -> Points]
        /\ wrapper' \in [Acts -> Libs \cup {NoLib}]
        /\ args' \in [Acts -> Seq(Cells)]
        /\ caller' \in [Acts -> Acts \cup {NoAct}]
    BY <2>1 DEF Enter, Points
  <2>4. \A b \in Acts : held'[b] <= Len(args'[b]) /\ Len(args'[b]) <= MaxArgs
    BY <2>1, <2>2 DEF Enter
  <2> QED
    BY <2>3, <2>4 DEF Enter
<1>6. CASE \E a \in Acts, p \in Acts \cup {NoAct}, c \in Cells : CellFree(a, p, c)
  <2> PICK a \in Acts, p \in Acts \cup {NoAct}, c \in Cells : CellFree(a, p, c)
    BY <1>6
  <2>1. CASE inFlight[c] = 0
    <3>1. state' \in [Cells -> States] /\ pc' \in [Acts -> Points]
      BY <2>1 DEF CellFree, States, Points
    <3>2. /\ target' \in [Acts -> Cells \cup {NoCell}]
          /\ caller' \in [Acts -> Acts \cup {NoAct}]
      BY <2>1 DEF CellFree
    <3> QED
      BY <2>1, <3>1, <3>2 DEF CellFree
  <2>2. CASE inFlight[c] # 0
    BY <2>2 DEF CellFree, States
  <2> QED
    BY <2>1, <2>2
<1>7. CASE \E a \in Acts : BeginCall(a)
  <2> PICK a \in Acts : BeginCall(a)
    BY <1>7
  <2>1. inFlight' \in [Cells -> Nat] /\ held' \in [Acts -> Nat]
    BY Increment DEF BeginCall
  <2>2. \A b \in Acts : held'[b] <= Len(args'[b]) /\ Len(args'[b]) <= MaxArgs
    BY DEF BeginCall
  <2> QED
    BY <2>1, <2>2 DEF BeginCall
<1>8. CASE \E a \in Acts : RefuseCall(a)
  BY <1>8 DEF RefuseCall, Points
<1>9. CASE \E a \in Acts : CallForeign(a)
  BY <1>9 DEF CallForeign, Points
<1>10. CASE \E a \in Acts : MakeHandle(a)
  <2> PICK a \in Acts : MakeHandle(a)
    BY <1>10
  <2>1. target[a] \in Cells /\ wrapper[a] \in Libs
    BY DEF MakeHandle, ActInv, ActOK
  <2>2. state' \in [Cells -> States] /\ pc' \in [Acts -> Points]
    BY <2>1 DEF MakeHandle, States, Points
  <2>3. /\ birth' \in [Cells -> Libs \cup {NoLib}]
        /\ freeFn' \in [Cells -> Libs \cup {NoLib}]
    BY <2>1 DEF MakeHandle
  <2>4. cellSession' \in [Cells -> Nat]
    BY <2>1 DEF MakeHandle
  <2>5. target' \in [Acts -> Cells \cup {NoCell}]
    BY <2>1 DEF MakeHandle
  <2> QED
    BY <2>2, <2>3, <2>4, <2>5 DEF MakeHandle
<1>11. CASE \E a \in Acts : EndCall(a)
  <2> PICK a \in Acts : EndCall(a)
    BY <1>11
  <2>1. LastArg(a) \in Cells /\ inFlight[LastArg(a)] > 0
    BY EndCallCounted
  <2>2. inFlight' \in [Cells -> Nat] /\ held' \in [Acts -> Nat]
    BY <2>1, Decrement DEF EndCall
  <2>3. \A b \in Acts : held'[b] <= Len(args'[b]) /\ Len(args'[b]) <= MaxArgs
    BY DEF EndCall
  <2>4. /\ state' \in [Cells -> States]
        /\ target' \in [Acts -> Cells \cup {NoCell}]
        /\ pc' \in [Acts -> Points]
    BY <2>1 DEF EndCall, States, Points
  <2> QED
    BY <2>2, <2>3, <2>4 DEF EndCall
<1>12. CASE \E a \in Acts : Leave(a)
  BY <1>12 DEF Leave, Points
<1>13. CASE \E a \in Acts : MaybeForeignFree(a)
  <2> PICK a \in Acts : MaybeForeignFree(a)
    BY <1>13
  <2>1. freeCount' \in [Cells -> Nat]
    BY Increment DEF MaybeForeignFree
  <2>2. pc' \in [Acts -> Points] /\ target' \in [Acts -> Cells \cup {NoCell}]
    BY DEF MaybeForeignFree, Points
  <2> QED
    BY <2>1, <2>2 DEF MaybeForeignFree
<1>14. CASE \E a \in Acts : ForeignReturn(a)
  BY <1>14 DEF ForeignReturn, Points
<1>15. CASE \E a \in Acts, c \in Cells : ForeignReturnHandle(a, c)
  BY <1>15 DEF ForeignReturnHandle, Points, ActInv, ActOK
<1>16. CASE \E a \in Acts : Interrupt(a)
  <2> PICK a \in Acts : Interrupt(a)
    BY <1>16
  <2>1. held' \in [Acts -> Nat]
    BY DEF Interrupt
  <2>2. \A b \in Acts : held'[b] <= Len(args'[b]) /\ Len(args'[b]) <= MaxArgs
    BY DEF Interrupt
  <2>3. pc' \in [Acts -> Points] /\ target' \in [Acts -> Cells \cup {NoCell}]
    BY DEF Interrupt, Points
  <2> QED
    BY <2>1, <2>2, <2>3 DEF Interrupt
<1> QED
  BY <1>1, <1>2, <1>3, <1>4, <1>5, <1>6, <1>7, <1>8, <1>9, <1>10, <1>11,
     <1>12, <1>13, <1>14, <1>15, <1>16 DEF Next, Step, Return

-----------------------------------------------------------------------------
(***************************************************************************)
(* Every action keeps each part of the inductive invariant.                *)
(***************************************************************************)

\* Process and session stay in step, and nothing runs while the image starts.
LEMMA SessionStep == TypeOK /\ SessionInv /\ Next => SessionInv'
<1> SUFFICES ASSUME TypeOK, SessionInv, Next PROVE SessionInv'
  OBVIOUS
<1> USE DEF TypeOK, SessionInv, imageVars, cellVars, actVars, worldVars
<1>1. CASE \E k \in Crates : Reload(k)
  BY <1>1 DEF Reload
<1>2. CASE \E k \in Crates : RestoreCrate(k)
  BY <1>2 DEF RestoreCrate
<1>3. CASE DumpAndStart
  BY <1>3 DEF DumpAndStart
<1>4. CASE RestoreHook
  BY <1>4 DEF RestoreHook
<1>5. CASE \E a \in Acts, p \in Acts \cup {NoAct}, l \in Libs, cs \in ArgSeqs :
              Enter(a, p, l, cs)
  BY <1>5 DEF Enter, Running, CanStart
<1>6. CASE \E a \in Acts, p \in Acts \cup {NoAct}, c \in Cells : CellFree(a, p, c)
  BY <1>6 DEF CellFree, Running, CanStart
<1>7. CASE \E a \in Acts : BeginCall(a)
  BY <1>7 DEF BeginCall, Running, CanStart
<1>8. CASE \E a \in Acts : RefuseCall(a)
  BY <1>8 DEF RefuseCall, Running, CanStart
<1>9. CASE \E a \in Acts : CallForeign(a)
  BY <1>9 DEF CallForeign, Running, CanStart
<1>10. CASE \E a \in Acts : MakeHandle(a)
  BY <1>10 DEF MakeHandle, Running, CanStart
<1>11. CASE \E a \in Acts : EndCall(a)
  BY <1>11 DEF EndCall, Running, CanStart
<1>12. CASE \E a \in Acts : Leave(a)
  BY <1>12 DEF Leave, Running, CanStart
<1>13. CASE \E a \in Acts : MaybeForeignFree(a)
  BY <1>13 DEF MaybeForeignFree, Running, CanStart
<1>14. CASE \E a \in Acts : ForeignReturn(a)
  BY <1>14 DEF ForeignReturn, Running, CanStart
<1>15. CASE \E a \in Acts, c \in Cells : ForeignReturnHandle(a, c)
  BY <1>15 DEF ForeignReturnHandle, Running, CanStart
<1>16. CASE \E a \in Acts : Interrupt(a)
  BY <1>16 DEF Interrupt, Running, CanStart
<1> QED
  BY <1>1, <1>2, <1>3, <1>4, <1>5, <1>6, <1>7, <1>8, <1>9, <1>10, <1>11,
     <1>12, <1>13, <1>14, <1>15, <1>16 DEF Next, Step, Return

\* A cell's stamps keep naming the library and process of its Box.
LEMMA CellStep == TypeOK /\ SessionInv /\ CellInv /\ ActInv /\ DropInv /\ Next => CellInv'
<1> SUFFICES ASSUME TypeOK, SessionInv, CellInv, ActInv, DropInv, Next PROVE CellInv'
  OBVIOUS
<1> USE NoLibNotLib DEF TypeOK, SessionInv, CellInv, imageVars, cellVars, actVars, worldVars
<1>1. CASE \E k \in Crates : Reload(k)
  BY <1>1 DEF Reload, CommitGeneration, Libs, Loaded
<1>2. CASE \E k \in Crates : RestoreCrate(k)
  BY <1>2 DEF RestoreCrate, CommitGeneration, Libs, Loaded
<1>3. CASE DumpAndStart
  BY <1>3 DEF DumpAndStart, Loaded
<1>4. CASE RestoreHook
  BY <1>4 DEF RestoreHook, Loaded
<1>5. CASE \E a \in Acts, p \in Acts \cup {NoAct}, l \in Libs, cs \in ArgSeqs :
              Enter(a, p, l, cs)
  BY <1>5 DEF Enter, Loaded
<1>6. CASE \E a \in Acts, p \in Acts \cup {NoAct}, c \in Cells : CellFree(a, p, c)
  BY <1>6 DEF CellFree, States, Loaded
<1>7. CASE \E a \in Acts : BeginCall(a)
  BY <1>7 DEF BeginCall, Loaded
<1>8. CASE \E a \in Acts : RefuseCall(a)
  BY <1>8 DEF RefuseCall, Loaded
<1>9. CASE \E a \in Acts : CallForeign(a)
  BY <1>9 DEF CallForeign, Loaded
<1>10. CASE \E a \in Acts : MakeHandle(a)
  BY <1>10 DEF MakeHandle, ActInv, ActOK, Loaded
<1>11. CASE \E a \in Acts : EndCall(a)
  <2> PICK a \in Acts : EndCall(a)
    BY <1>11
  <2>1. \A x \in Cells : state'[x] # "none" <=> state[x] # "none"
    BY DEF EndCall
  <2> QED
    BY <2>1 DEF EndCall, Loaded
<1>12. CASE \E a \in Acts : Leave(a)
  BY <1>12 DEF Leave, Loaded
<1>13. CASE \E a \in Acts : MaybeForeignFree(a)
  <2> PICK a \in Acts : MaybeForeignFree(a)
    BY <1>13
  <2>1. target[a] \in Cells /\ state[target[a]] = "freed"
    BY DEF MaybeForeignFree, DropInv
  <2>2. \A x \in Cells : x # target[a] => freeCount'[x] = freeCount[x]
    BY <2>1 DEF MaybeForeignFree
  <2> QED
    BY <2>1, <2>2 DEF MaybeForeignFree, Loaded
<1>14. CASE \E a \in Acts : ForeignReturn(a)
  BY <1>14 DEF ForeignReturn, Loaded
<1>15. CASE \E a \in Acts, c \in Cells : ForeignReturnHandle(a, c)
  BY <1>15 DEF ForeignReturnHandle, Running, Loaded
<1>16. CASE \E a \in Acts : Interrupt(a)
  BY <1>16 DEF Interrupt, Loaded
<1> QED
  BY <1>1, <1>2, <1>3, <1>4, <1>5, <1>6, <1>7, <1>8, <1>9, <1>10, <1>11,
     <1>12, <1>13, <1>14, <1>15, <1>16 DEF Next, Step, Return

\* Two activations never hold the same unwrapped Box.
LEMMA WrapStep == TypeOK /\ ActInv /\ WrapInv /\ Next => WrapInv'
<1> SUFFICES ASSUME TypeOK, ActInv, WrapInv, Next PROVE WrapInv'
  OBVIOUS
<1> USE NoLibNotLib DEF TypeOK, WrapInv, imageVars, cellVars, actVars, worldVars
<1>1. CASE \E k \in Crates : Reload(k)
  BY <1>1 DEF Reload
<1>2. CASE \E k \in Crates : RestoreCrate(k)
  BY <1>2 DEF RestoreCrate
<1>3. CASE DumpAndStart
  BY <1>3 DEF DumpAndStart
<1>4. CASE RestoreHook
  BY <1>4 DEF RestoreHook
<1>5. CASE \E a \in Acts, p \in Acts \cup {NoAct}, l \in Libs, cs \in ArgSeqs :
              Enter(a, p, l, cs)
  BY <1>5 DEF Enter
<1>6. CASE \E a \in Acts, p \in Acts \cup {NoAct}, c \in Cells : CellFree(a, p, c)
  <2> PICK a \in Acts, p \in Acts \cup {NoAct}, c \in Cells : CellFree(a, p, c)
    BY <1>6
  <2>1. CASE inFlight[c] = 0
    <3>1. \A b \in Acts : pc'[b] = "wrap" => pc[b] = "wrap" /\ target'[b] = target[b]
      BY <2>1 DEF CellFree
    <3> QED
      BY <3>1
  <2>2. CASE inFlight[c] # 0
    BY <2>2 DEF CellFree
  <2> QED
    BY <2>1, <2>2
<1>7. CASE \E a \in Acts : BeginCall(a)
  BY <1>7 DEF BeginCall
<1>8. CASE \E a \in Acts : RefuseCall(a)
  BY <1>8 DEF RefuseCall
<1>9. CASE \E a \in Acts : CallForeign(a)
  BY <1>9 DEF CallForeign
<1>10. CASE \E a \in Acts : MakeHandle(a)
  BY <1>10 DEF MakeHandle
<1>11. CASE \E a \in Acts : EndCall(a)
  <2> PICK a \in Acts : EndCall(a)
    BY <1>11
  <2>1. \A b \in Acts : pc'[b] = "wrap" => pc[b] = "wrap" /\ target'[b] = target[b]
    BY DEF EndCall
  <2> QED
    BY <2>1
<1>12. CASE \E a \in Acts : Leave(a)
  BY <1>12 DEF Leave
<1>13. CASE \E a \in Acts : MaybeForeignFree(a)
  BY <1>13 DEF MaybeForeignFree
<1>14. CASE \E a \in Acts : ForeignReturn(a)
  BY <1>14 DEF ForeignReturn
<1>15. CASE \E a \in Acts, c \in Cells : ForeignReturnHandle(a, c)
  BY <1>15 DEF ForeignReturnHandle, ActInv, ActOK
<1>16. CASE \E a \in Acts : Interrupt(a)
  BY <1>16 DEF Interrupt
<1> QED
  BY <1>1, <1>2, <1>3, <1>4, <1>5, <1>6, <1>7, <1>8, <1>9, <1>10, <1>11,
     <1>12, <1>13, <1>14, <1>15, <1>16 DEF Next, Step, Return

\* A cell that is not freed has an undropped Box.
LEMMA Undropped ==
    ASSUME TypeOK, DropInv, NEW c \in Cells, state[c] # "freed"
    PROVE  freeCount[c] = 0
<1>1. freeCount[c] \in Nat
  BY DEF TypeOK
<1>2. ~(freeCount[c] > 0)
  BY DEF DropInv
<1> QED
  BY <1>1, <1>2

\* Each Box has at most one dropper, and a dropped Box stays dropped.
LEMMA DropStep == TypeOK /\ CellInv /\ ActInv /\ CountInv /\ DropInv /\ Next => DropInv'
<1> SUFFICES ASSUME TypeOK, CellInv, ActInv, CountInv, DropInv, Next PROVE DropInv'
  OBVIOUS
<1> USE DEF TypeOK, DropInv, imageVars, cellVars, actVars, worldVars
<1>1. CASE \E k \in Crates : Reload(k)
  BY <1>1 DEF Reload
<1>2. CASE \E k \in Crates : RestoreCrate(k)
  BY <1>2 DEF RestoreCrate
<1>3. CASE DumpAndStart
  BY <1>3 DEF DumpAndStart
<1>4. CASE RestoreHook
  BY <1>4 DEF RestoreHook
<1>5. CASE \E a \in Acts, p \in Acts \cup {NoAct}, l \in Libs, cs \in ArgSeqs :
              Enter(a, p, l, cs)
  BY <1>5 DEF Enter
<1>6. CASE \E a \in Acts, p \in Acts \cup {NoAct}, c \in Cells : CellFree(a, p, c)
  <2> PICK a \in Acts, p \in Acts \cup {NoAct}, c \in Cells : CellFree(a, p, c)
    BY <1>6
  <2>1. CASE inFlight[c] = 0
    <3>1. /\ state' = [state EXCEPT ![c] = "freed"]
          /\ target' = [target EXCEPT ![a] = c]
          /\ pc' = [pc EXCEPT ![a] = "drop"]
          /\ state[c] = "live" /\ freeCount' = freeCount
      BY <2>1 DEF CellFree
    <3>2. freeCount[c] = 0
      BY <3>1, Undropped
    <3> QED
      BY <3>1, <3>2
  <2>2. CASE inFlight[c] # 0
    BY <2>2 DEF CellFree
  <2> QED
    BY <2>1, <2>2
<1>7. CASE \E a \in Acts : BeginCall(a)
  BY <1>7 DEF BeginCall
<1>8. CASE \E a \in Acts : RefuseCall(a)
  BY <1>8 DEF RefuseCall
<1>9. CASE \E a \in Acts : CallForeign(a)
  BY <1>9 DEF CallForeign
<1>10. CASE \E a \in Acts : MakeHandle(a)
  BY <1>10 DEF MakeHandle, ActInv, ActOK, CellInv
<1>11. CASE \E a \in Acts : EndCall(a)
  <2> PICK a \in Acts : EndCall(a)
    BY <1>11
  <2>1. LastArg(a) \in Cells
    BY EndCallCounted
  <2>2. CASE state[LastArg(a)] = "free-pending" /\ inFlight[LastArg(a)] - 1 = 0
    <3>1. /\ state' = [state EXCEPT ![LastArg(a)] = "freed"]
          /\ target' = [target EXCEPT ![a] = LastArg(a)]
          /\ pc' = [pc EXCEPT ![a] = "drop"]
          /\ freeCount' = freeCount
      BY <2>2 DEF EndCall
    <3>2. freeCount[LastArg(a)] = 0
      BY <2>1, <2>2, Undropped
    <3> QED
      BY <2>1, <2>2, <3>1, <3>2
  <2>3. CASE ~(state[LastArg(a)] = "free-pending" /\ inFlight[LastArg(a)] - 1 = 0)
    <3>1. UNCHANGED <<state, target, pc, freeCount>>
      BY <2>3 DEF EndCall
    <3> QED
      BY <3>1
  <2> QED
    BY <2>2, <2>3
<1>12. CASE \E a \in Acts : Leave(a)
  BY <1>12 DEF Leave
<1>13. CASE \E a \in Acts : MaybeForeignFree(a)
  BY <1>13 DEF MaybeForeignFree
<1>14. CASE \E a \in Acts : ForeignReturn(a)
  BY <1>14 DEF ForeignReturn
<1>15. CASE \E a \in Acts, c \in Cells : ForeignReturnHandle(a, c)
  BY <1>15 DEF ForeignReturnHandle
<1>16. CASE \E a \in Acts : Interrupt(a)
  BY <1>16 DEF Interrupt
<1> QED
  BY <1>1, <1>2, <1>3, <1>4, <1>5, <1>6, <1>7, <1>8, <1>9, <1>10, <1>11,
     <1>12, <1>13, <1>14, <1>15, <1>16 DEF Next, Step, Return


\* What each activation was checked against stays true while it runs.
LEMMA ActStep ==
    TypeOK /\ SessionInv /\ CellInv /\ ActInv /\ WrapInv /\ Next => ActInv'
<1> SUFFICES ASSUME TypeOK, SessionInv, CellInv, ActInv, WrapInv, Next,
                    NEW b \in Acts
             PROVE  ActOK(b)'
  BY DEF ActInv
<1>a. ActOK(b)
  BY DEF ActInv
<1> USE DEF TypeOK, imageVars, cellVars, actVars, worldVars
<1>b. /\ \A i \in 1..Len(args[b]) : args[b][i] \in Cells
      /\ held[b] \in Nat /\ Len(args[b]) \in Nat /\ held[b] <= Len(args[b])
      /\ \A i \in 1..held[b] : i \in 1..Len(args[b])
  OBVIOUS
<1>1. CASE \E k \in Crates : Reload(k)
  BY <1>1, <1>a DEF Reload, CommitGeneration, Libs, Loaded, ActOK
<1>2. CASE \E k \in Crates : RestoreCrate(k)
  <2> PICK k \in Crates : RestoreCrate(k)
    BY <1>2
  <2>1. CASE CommitGeneration(k)
    BY <1>a, <2>1 DEF RestoreCrate, CommitGeneration, Libs, Loaded, ActOK
  <2>2. CASE UNCHANGED <<generation, ctxSession>>
    BY <1>a, <2>2 DEF RestoreCrate, Loaded, ActOK
  <2> QED
    BY <2>1, <2>2 DEF RestoreCrate
<1>3. CASE DumpAndStart
  BY <1>3, <1>a DEF DumpAndStart, Loaded, ActOK
<1>4. CASE RestoreHook
  BY <1>4, <1>a, <1>b DEF RestoreHook, SessionInv, Loaded, ActOK
<1>5. CASE \E a \in Acts, p \in Acts \cup {NoAct}, l \in Libs, cs \in ArgSeqs :
              Enter(a, p, l, cs)
  <2> PICK a \in Acts, p \in Acts \cup {NoAct}, l \in Libs, cs \in ArgSeqs :
              Enter(a, p, l, cs)
    BY <1>5
  <2>1. CASE b = a
    BY <1>a, <2>1 DEF Enter, ActOK, Loaded
  <2>2. CASE b # a
    BY <1>a, <2>2 DEF Enter, ActOK, Loaded
  <2> QED
    BY <2>1, <2>2
<1>6. CASE \E a \in Acts, p \in Acts \cup {NoAct}, c \in Cells : CellFree(a, p, c)
  <2> PICK a \in Acts, p \in Acts \cup {NoAct}, c \in Cells : CellFree(a, p, c)
    BY <1>6
  <2>1. \A x \in Cells : state'[x] # "none" <=> state[x] # "none"
    BY DEF CellFree
  <2>2. CASE b = a /\ inFlight[c] = 0
    BY <1>a, <1>b, <2>1, <2>2 DEF CellFree, ActOK, Loaded
  <2>3. CASE b # a \/ inFlight[c] # 0
    <3>1. pc'[b] = pc[b] /\ target'[b] = target[b]
      BY <2>3 DEF CellFree
    <3> QED
      BY <1>a, <1>b, <2>1, <3>1 DEF CellFree, ActOK, Loaded
  <2> QED
    BY <2>2, <2>3
<1>7. CASE \E a \in Acts : BeginCall(a)
  <2> PICK a \in Acts : BeginCall(a)
    BY <1>7
  <2>1. CASE b = a
    <3>1. NextArg(a) \in Cells /\ state[NextArg(a)] # "none"
      <4>1. held[a] + 1 \in 1..Len(args[a])
        BY <1>b, <2>1 DEF BeginCall
      <4> QED
        BY <1>a, <1>b, <2>1, <4>1 DEF NextArg, ActOK
    <3>2. home[NextArg(a)] = wrapper[a] /\ homeProcess[NextArg(a)] = session
      <4>1. birth[NextArg(a)] = home[NextArg(a)] /\ home[NextArg(a)] \in Libs
        BY <3>1 DEF CellInv
      <4>2. /\ home[NextArg(a)][1] = wrapper[a][1]
            /\ home[NextArg(a)][2] = wrapper[a][2]
        BY <4>1 DEF BeginCall, Admits
      <4>3. wrapper[a] \in Libs
        BY <1>a, <2>1 DEF BeginCall, ActOK
      <4>4. homeProcess[NextArg(a)] = session
        BY <3>1 DEF BeginCall, Admits, CellInv
      <4> QED
        BY <4>1, <4>2, <4>3, <4>4, LibEquality
    <3>3. held'[b] = held[b] + 1
      BY <2>1 DEF BeginCall
    <3>4. \A i \in 1..held'[b] : i \in 1..held[b] \/ i = held[a] + 1
      BY <1>b, <2>1, <3>3
    <3>5. \A i \in 1..held'[b] : /\ home[args[b][i]] = wrapper[b]
                                 /\ homeProcess[args[b][i]] = session
      BY <1>a, <2>1, <3>2, <3>4 DEF ActOK, NextArg
    <3> QED
      BY <1>a, <2>1, <3>3, <3>5 DEF BeginCall, ActOK, Loaded
  <2>2. CASE b # a
    BY <1>a, <2>2 DEF BeginCall, ActOK, Loaded
  <2> QED
    BY <2>1, <2>2
<1>8. CASE \E a \in Acts : RefuseCall(a)
  BY <1>8, <1>a DEF RefuseCall, ActOK, Loaded
<1>9. CASE \E a \in Acts : CallForeign(a)
  BY <1>9, <1>a DEF CallForeign, ActOK, Loaded
<1>10. CASE \E a \in Acts : MakeHandle(a)
  <2> PICK a \in Acts : MakeHandle(a)
    BY <1>10
  <2>1. \A x \in Cells : state[x] # "none" => state'[x] # "none"
    BY DEF MakeHandle
  <2>2. CASE b = a
    BY <1>a, <1>b, <2>1, <2>2 DEF MakeHandle, ActOK, Loaded
  <2>3. CASE b # a
    <3>1. pc[b] = "wrap" => target[b] # target[a]
      BY <2>3 DEF MakeHandle, WrapInv
    <3> QED
      BY <1>a, <1>b, <2>1, <2>3, <3>1 DEF MakeHandle, ActOK, Loaded
  <2> QED
    BY <2>2, <2>3
<1>11. CASE \E a \in Acts : EndCall(a)
  <2> PICK a \in Acts : EndCall(a)
    BY <1>11
  <2>1. \A x \in Cells : state'[x] # "none" <=> state[x] # "none"
    BY DEF EndCall
  <2>2. CASE b = a
    <3>1. pc'[b] \in {"ending", "drop"} /\ held'[b] = held[b] - 1
      BY <2>2 DEF EndCall
    <3>2. \A i \in 1..held'[b] : i \in 1..held[b]
      BY <1>b, <3>1
    <3> QED
      BY <1>a, <1>b, <2>1, <2>2, <3>1, <3>2 DEF EndCall, ActOK, Loaded
  <2>3. CASE b # a
    <3>1. pc'[b] = pc[b] /\ target'[b] = target[b] /\ held'[b] = held[b]
      BY <2>3 DEF EndCall
    <3> QED
      BY <1>a, <1>b, <2>1, <2>3, <3>1 DEF EndCall, ActOK, Loaded
  <2> QED
    BY <2>2, <2>3
<1>12. CASE \E a \in Acts : Leave(a)
  <2> PICK a \in Acts : Leave(a)
    BY <1>12
  <2>1. CASE b = a
    BY <1>a, <2>1 DEF Leave, ActOK, Loaded
  <2>2. CASE b # a
    BY <1>a, <2>2 DEF Leave, ActOK, Loaded
  <2> QED
    BY <2>1, <2>2
<1>13. CASE \E a \in Acts : MaybeForeignFree(a)
  BY <1>13, <1>a DEF MaybeForeignFree, ActOK, Loaded
<1>14. CASE \E a \in Acts : ForeignReturn(a)
  BY <1>14, <1>a DEF ForeignReturn, ActOK, Loaded
<1>15. CASE \E a \in Acts, c \in Cells : ForeignReturnHandle(a, c)
  <2> PICK a \in Acts, c \in Cells : ForeignReturnHandle(a, c)
    BY <1>15
  <2>1. state[c] = "none"
    BY NoLibNotLib DEF ForeignReturnHandle, CellInv
  <2>2. process = session
    BY DEF ForeignReturnHandle, Running, SessionInv
  <2>3. \A i \in 1..Len(args[b]) : args[b][i] # c
    BY <1>a, <1>b, <2>1 DEF ActOK
  <2>4. CASE b = a
    BY <1>a, <1>b, <2>1, <2>2, <2>3, <2>4 DEF ForeignReturnHandle, ActOK, Loaded
  <2>5. CASE b # a
    <3>1. pc[b] = "wrap" => target[b] # c
      BY <1>a, NoLibNotLib DEF ForeignReturnHandle, ActOK
    <3> QED
      BY <1>a, <1>b, <2>1, <2>3, <2>5, <3>1 DEF ForeignReturnHandle, ActOK, Loaded
  <2> QED
    BY <2>4, <2>5
<1>16. CASE \E a \in Acts : Interrupt(a)
  <2> PICK a \in Acts : Interrupt(a)
    BY <1>16
  <2>1. held'[b] <= held[b] /\ held'[b] \in Nat
    BY DEF Interrupt
  <2>2. \A i \in 1..held'[b] : i \in 1..held[b]
    BY <1>b, <2>1
  <2>3. CASE b = a
    BY <1>a, <1>b, <2>2, <2>3 DEF Interrupt, ActOK, Loaded
  <2>4. CASE b # a
    BY <1>a, <1>b, <2>4 DEF Interrupt, ActOK, Loaded
  <2> QED
    BY <2>3, <2>4
<1> QED
  BY <1>1, <1>2, <1>3, <1>4, <1>5, <1>6, <1>7, <1>8, <1>9, <1>10, <1>11,
     <1>12, <1>13, <1>14, <1>15, <1>16 DEF Next, Step, Return

\* The counter keeps covering the holders, and only a cell without holders
\* becomes freed.
LEMMA CountStep == TypeOK /\ ActInv /\ CountInv /\ Next => CountInv'
<1> SUFFICES ASSUME TypeOK, ActInv, CountInv, Next, NEW c \in Cells
             PROVE  CountOK(c)'
  BY DEF CountInv
<1>a. CountOK(c) /\ inFlight[c] \in Nat
  BY DEF CountInv, TypeOK
<1>b. IsFiniteSet(Holders(c)) /\ Cardinality(Holders(c)) \in Nat
  BY HoldersFinite
<1>c. ASSUME UNCHANGED <<state, inFlight, held, args>>
      PROVE  CountOK(c)'
  BY <1>a, <1>c DEF CountOK, Holders
<1>d. ASSUME Holders(c)' = Holders(c), UNCHANGED <<state, inFlight>>
      PROVE  CountOK(c)'
  BY <1>a, <1>d DEF CountOK
<1> USE DEF imageVars, cellVars, actVars, worldVars
<1>1. CASE \E k \in Crates : Reload(k)
  BY <1>1, <1>c DEF Reload
<1>2. CASE \E k \in Crates : RestoreCrate(k)
  BY <1>2, <1>c DEF RestoreCrate
<1>3. CASE DumpAndStart
  BY <1>3, <1>c DEF DumpAndStart
<1>4. CASE RestoreHook
  BY <1>4, <1>c DEF RestoreHook
<1>5. CASE \E a \in Acts, p \in Acts \cup {NoAct}, l \in Libs, cs \in ArgSeqs :
              Enter(a, p, l, cs)
  <2> PICK a \in Acts, p \in Acts \cup {NoAct}, l \in Libs, cs \in ArgSeqs :
              Enter(a, p, l, cs)
    BY <1>5
  <2>1. held[a] = 0 /\ held' = held /\ args' = [args EXCEPT ![a] = cs]
    BY DEF Enter, ActInv, ActOK
  <2> QED
    BY <2>1, <1>d, IdleHolders DEF Enter
<1>6. CASE \E a \in Acts, p \in Acts \cup {NoAct}, x \in Cells : CellFree(a, p, x)
  <2> PICK a \in Acts, p \in Acts \cup {NoAct}, x \in Cells : CellFree(a, p, x)
    BY <1>6
  <2>1. Holders(c)' = Holders(c) /\ inFlight' = inFlight
    BY DEF CellFree, Holders
  <2>2. CASE c # x
    <3>1. state'[c] = state[c]
      BY <2>2 DEF CellFree, TypeOK
    <3> QED
      BY <1>a, <2>1, <3>1 DEF CountOK
  <2>3. CASE c = x /\ inFlight[c] = 0
    <3>1. Holders(c) = {}
      BY <1>a, <1>b, <2>3, FS_EmptySet DEF CountOK
    <3>2. state'[c] = "freed"
      BY <2>3 DEF CellFree, TypeOK
    <3> QED
      BY <1>a, <2>1, <3>1, <3>2 DEF CountOK
  <2>4. CASE c = x /\ inFlight[c] # 0
    <3>1. state'[c] = "free-pending"
      BY <2>4 DEF CellFree, TypeOK
    <3> QED
      BY <1>a, <2>1, <2>4, <3>1 DEF CountOK
  <2> QED
    BY <2>2, <2>3, <2>4
<1>7. CASE \E a \in Acts : BeginCall(a)
  <2> PICK a \in Acts : BeginCall(a)
    BY <1>7
  <2>1. state' = state /\ inFlight' = [inFlight EXCEPT ![NextArg(a)] = @ + 1]
    BY DEF BeginCall
  <2>2. CASE c # NextArg(a)
    <3>1. inFlight'[c] = inFlight[c] /\ Holders(c)' = Holders(c)
      BY <2>1, <2>2, BeginHolders DEF TypeOK
    <3> QED
      BY <1>a, <2>1, <3>1 DEF CountOK
  <2>3. CASE c = NextArg(a)
    <3>1. inFlight'[c] = inFlight[c] + 1
      BY <2>1, <2>3 DEF TypeOK
    <3>2. Cardinality(Holders(c)') = Cardinality(Holders(c)) + 1
      <4>1. /\ Holders(c)' = Holders(c) \cup {<<a, held[a] + 1>>}
            /\ <<a, held[a] + 1>> \notin Holders(c)
        BY <2>3, BeginHolders
      <4> QED
        BY <1>b, <4>1, FS_AddElement
    <3>3. state'[c] # "freed"
      BY <2>1, <2>3 DEF BeginCall, Admits
    <3> QED
      BY <1>a, <1>b, <3>1, <3>2, <3>3 DEF CountOK
  <2> QED
    BY <2>2, <2>3
<1>8. CASE \E a \in Acts : RefuseCall(a)
  BY <1>8, <1>c DEF RefuseCall
<1>9. CASE \E a \in Acts : CallForeign(a)
  BY <1>9, <1>c DEF CallForeign
<1>10. CASE \E a \in Acts : MakeHandle(a)
  <2> PICK a \in Acts : MakeHandle(a)
    BY <1>10
  <2>1. Holders(c)' = Holders(c) /\ inFlight' = inFlight
    BY DEF MakeHandle, Holders
  <2>2. state'[c] \in {state[c], "live"}
    BY DEF MakeHandle, TypeOK
  <2> QED
    BY <1>a, <2>1, <2>2 DEF CountOK
<1>11. CASE \E a \in Acts : EndCall(a)
  <2> PICK a \in Acts : EndCall(a)
    BY <1>11
  <2>1. /\ held[a] > 0 /\ held' = [held EXCEPT ![a] = @ - 1] /\ args' = args
        /\ inFlight' = [inFlight EXCEPT ![LastArg(a)] = @ - 1]
    BY DEF EndCall
  <2>2. CASE c # LastArg(a)
    <3>1. inFlight'[c] = inFlight[c] /\ Holders(c)' = Holders(c)
      BY <2>1, <2>2, EndHolders DEF TypeOK
    <3>2. state'[c] = state[c]
      BY <2>2 DEF EndCall, TypeOK
    <3> QED
      BY <1>a, <3>1, <3>2 DEF CountOK
  <2>3. CASE c = LastArg(a)
    <3>1. inFlight'[c] = inFlight[c] - 1 /\ inFlight[c] > 0
      BY <2>1, <2>3, EndCallCounted DEF TypeOK
    <3>2. /\ Holders(c)' = Holders(c) \ {<<a, held[a]>>}
          /\ <<a, held[a]>> \in Holders(c)
      BY <2>1, <2>3, EndHolders
    <3>3. /\ Cardinality(Holders(c)') = Cardinality(Holders(c)) - 1
          /\ IsFiniteSet(Holders(c)')
      BY <1>b, <3>2, FS_RemoveElement
    <3>4. Cardinality(Holders(c)') <= inFlight'[c]
      BY <1>a, <1>b, <3>1, <3>3 DEF CountOK
    <3>5. state[c] # "freed"
      BY <1>a, <3>2 DEF CountOK
    <3>6. CASE state[c] = "free-pending" /\ inFlight[c] - 1 = 0
      <4>1. state'[c] = "freed"
        BY <2>3, <3>6 DEF EndCall, TypeOK
      <4>2. Cardinality(Holders(c)') = 0
        BY <1>a, <1>b, <3>1, <3>2, <3>3, <3>6, FS_EmptySet DEF CountOK
      <4>3. Holders(c)' = {}
        BY <3>3, <4>2, FS_EmptySet
      <4> QED
        BY <3>4, <4>1, <4>3 DEF CountOK
    <3>7. CASE ~(state[c] = "free-pending" /\ inFlight[c] - 1 = 0)
      <4>1. state'[c] = state[c]
        BY <2>3, <3>7 DEF EndCall, TypeOK
      <4> QED
        BY <1>a, <3>1, <3>4, <3>5, <3>7, <4>1 DEF CountOK
    <3> QED
      BY <3>6, <3>7
  <2> QED
    BY <2>2, <2>3
<1>12. CASE \E a \in Acts : Leave(a)
  <2> PICK a \in Acts : Leave(a)
    BY <1>12
  <2>1. held[a] = 0 /\ held' = held /\ args' = [args EXCEPT ![a] = <<>>]
    BY DEF Leave
  <2> QED
    BY <2>1, <1>d, IdleHolders DEF Leave
<1>13. CASE \E a \in Acts : MaybeForeignFree(a)
  BY <1>13, <1>c DEF MaybeForeignFree
<1>14. CASE \E a \in Acts : ForeignReturn(a)
  BY <1>14, <1>c DEF ForeignReturn
<1>15. CASE \E a \in Acts, x \in Cells : ForeignReturnHandle(a, x)
  BY <1>15, <1>c DEF ForeignReturnHandle
<1>16. CASE \E a \in Acts : Interrupt(a)
  <2> PICK a \in Acts : Interrupt(a)
    BY <1>16
  <2>1. state' = state /\ inFlight' = inFlight /\ args' = args
    BY DEF Interrupt
  <2>2. CASE held' = held
    BY <1>c, <2>1, <2>2
  <2>3. CASE held[a] > 0 /\ held' = [held EXCEPT ![a] = @ - 1]
    <3>1. Holders(c)' \subseteq Holders(c)
      BY <2>1, <2>3, EndHolders
    <3>2. Cardinality(Holders(c)') <= Cardinality(Holders(c))
      BY <1>b, <3>1, FS_Subset
    <3>3. IsFiniteSet(Holders(c)') /\ Cardinality(Holders(c)') \in Nat
      BY <1>b, <3>1, FS_Subset, FS_CardinalityType
    <3> QED
      BY <1>a, <1>b, <2>1, <3>1, <3>2, <3>3 DEF CountOK
  <2> QED
    BY <2>2, <2>3 DEF Interrupt, TypeOK
<1> QED
  BY <1>1, <1>2, <1>3, <1>4, <1>5, <1>6, <1>7, <1>8, <1>9, <1>10, <1>11,
     <1>12, <1>13, <1>14, <1>15, <1>16 DEF Next, Step, Return

-----------------------------------------------------------------------------
(***************************************************************************)
(* The theorems.                                                           *)
(***************************************************************************)

\* The inductive invariant holds in the initial state.
LEMMA InitInv == Init => IndInv
<1> SUFFICES ASSUME Init PROVE IndInv
  OBVIOUS
<1> USE BoundsAssumption DEF Init
<1>1. TypeOK
  <2>1. args \in [Acts -> Seq(Cells)] /\ \A a \in Acts : Len(args[a]) = 0
    OBVIOUS
  <2>2. \A a \in Acts : held[a] <= Len(args[a]) /\ Len(args[a]) <= MaxArgs
    BY <2>1
  <2>3. generation \in [Crates -> 0..MaxGen] /\ ctxSession \in [Libs -> Nat]
    OBVIOUS
  <2>9. toReload \in SUBSET Crates
    OBVIOUS
  <2>10. starting \in BOOLEAN
    OBVIOUS
  <2>4. /\ state \in [Cells -> States]
        /\ pc \in [Acts -> Points]
    BY DEF States, Points
  <2>5. /\ birth \in [Cells -> Libs \cup {NoLib}]
        /\ freeFn \in [Cells -> Libs \cup {NoLib}]
        /\ home \in [Cells -> Libs \cup {NoLib}]
        /\ wrapper \in [Acts -> Libs \cup {NoLib}]
    OBVIOUS
  <2>6. /\ cellSession \in [Cells -> Nat] /\ inFlight \in [Cells -> Nat]
        /\ homeProcess \in [Cells -> Nat] /\ freeCount \in [Cells -> Nat]
        /\ held \in [Acts -> Nat]
    OBVIOUS
  <2>7. /\ target \in [Acts -> Cells \cup {NoCell}]
        /\ caller \in [Acts -> Acts \cup {NoAct}]
    OBVIOUS
  <2>8. session \in Nat /\ interrupts \in Nat /\ process \in Nat
    OBVIOUS
  <2> HIDE DEF Init
  <2> QED
    BY <2>1, <2>2, <2>3, <2>4, <2>5, <2>6, <2>7, <2>8, <2>9,
       <2>10 DEF TypeOK
<1>2. \A c \in Cells : Holders(c) = {}
  BY DEF Holders, Users, Slots
<1>3. CountInv
  <2>1. \A c \in Cells : Cardinality(Holders(c)) = 0 /\ inFlight[c] = 0
                         /\ state[c] = "none"
    BY <1>2, FS_EmptySet
  <2> QED
    BY <2>1 DEF CountInv, CountOK
<1>4. SessionInv /\ CellInv /\ WrapInv /\ DropInv
  BY DEF SessionInv, CellInv, WrapInv, DropInv
<1>5. ActInv
  BY DEF ActInv, ActOK
<1> QED
  BY <1>1, <1>3, <1>4, <1>5 DEF IndInv

\* Every step, and every stuttering step, keeps the inductive invariant.
LEMMA NextInv == IndInv /\ [Next]_vars => IndInv'
<1>1. IndInv /\ Next => IndInv'
  BY TypeStep, SessionStep, CellStep, ActStep, WrapStep, CountStep, DropStep
     DEF IndInv
<1>2. IndInv /\ UNCHANGED vars => IndInv'
  <2> SUFFICES ASSUME IndInv, UNCHANGED vars PROVE IndInv'
    OBVIOUS
  <2> USE DEF IndInv, vars, imageVars, cellVars, actVars, worldVars
  <2>1. TypeOK'
    BY DEF TypeOK
  <2>2. SessionInv' /\ CellInv' /\ WrapInv' /\ DropInv'
    BY DEF SessionInv, CellInv, WrapInv, DropInv, Loaded
  <2>3. ActInv'
    BY DEF ActInv, ActOK, Loaded
  <2>4. CountInv'
    BY DEF CountInv, CountOK, Holders
  <2> QED
    BY <2>1, <2>2, <2>3, <2>4
<1> QED
  BY <1>1, <1>2

\* All parts of the inductive invariant hold throughout every behaviour of the
\* cells, the wrappers, reload, dump and restore.
THEOREM Inductive == Spec => []IndInv
  BY InitInv, NextInv, PTL DEF Spec

\* Every variable of the handle protocol stays in its type; in particular
\* cell-in-flight never becomes negative.
THEOREM TypeCorrect == Spec => []TypeOK
<1>1. IndInv => TypeOK
  BY DEF IndInv
<1> QED
  BY Inductive, <1>1, PTL

\* A foreign call never sees a Box that was freed, that another library
\* allocated or that an earlier process left behind.
THEOREM NoUseAfterFree == Spec => []ForeignCallSafe
<1>1. IndInv => ForeignCallSafe
  <2> SUFFICES ASSUME IndInv, NEW a \in Acts, pc[a] = "foreign",
                      NEW i \in 1..Len(args[a])
               PROVE  /\ freeCount[args[a][i]] = 0
                      /\ home[args[a][i]] = wrapper[a]
                      /\ homeProcess[args[a][i]] = process
    BY DEF ForeignCallSafe
  <2>1. /\ held[a] = Len(args[a]) /\ held[a] \in Nat /\ Len(args[a]) <= MaxArgs
        /\ args[a][i] \in Cells
    BY DEF IndInv, TypeOK, ActInv, ActOK
  <2>2. home[args[a][i]] = wrapper[a] /\ homeProcess[args[a][i]] = session
    BY <2>1 DEF IndInv, ActInv, ActOK
  <2>3. process = session
    BY DEF IndInv, SessionInv
  <2>4. <<a, i>> \in Holders(args[a][i])
    BY <2>1, BoundsAssumption DEF Holders, Users, Slots
  <2>5. state[args[a][i]] # "freed"
    BY <2>1, <2>4 DEF IndInv, CountInv, CountOK
  <2> QED
    BY <2>1, <2>2, <2>3, <2>5, Undropped DEF IndInv
<1> QED
  BY Inductive, <1>1, PTL

\* No Box is freed twice.
THEOREM AtMostOneFree == Spec => []FreedAtMostOnce
<1>1. IndInv => FreedAtMostOnce
  BY DEF IndInv, DropInv, FreedAtMostOnce
<1> QED
  BY Inductive, <1>1, PTL

\* A pending free always has a call in flight that will perform it.
THEOREM DeferredFreeOwned == Spec => []PendingHasOwner
<1>1. IndInv => PendingHasOwner
  BY DEF IndInv, CountInv, CountOK, PendingHasOwner
<1> QED
  BY Inductive, <1>1, PTL

\* Only %maybe-foreign-free calls a free shim, and then it is the shim of the
\* library that allocated the Box, in the process that holds it.
THEOREM AllocatorFrees == Spec => FreedByItsAllocator
<1>1. IndInv /\ [Next]_vars =>
        [\A c \in Cells : freeCount'[c] # freeCount[c] =>
              freeFn[c] = home[c] /\ homeProcess[c] = process]_vars
  <2> SUFFICES ASSUME IndInv, Next, NEW c \in Cells,
                      freeCount'[c] # freeCount[c]
               PROVE  freeFn[c] = home[c] /\ homeProcess[c] = process
    OBVIOUS
  <2>1. PICK a \in Acts : MaybeForeignFree(a)
    BY DEF Next, Step, Return, Reload, RestoreCrate, DumpAndStart, RestoreHook,
           Enter, CellFree, BeginCall, RefuseCall, CallForeign, MakeHandle,
           EndCall, Leave, ForeignReturn, ForeignReturnHandle, Interrupt,
           worldVars
  <2>2. target[a] = c /\ cellSession[c] = session /\ process = session
    BY <2>1 DEF MaybeForeignFree, Running, IndInv, SessionInv, TypeOK
  <2>3. state[c] = "freed"
    BY <2>1, <2>2 DEF MaybeForeignFree, IndInv, DropInv
  <2> QED
    BY <2>2, <2>3 DEF IndInv, CellInv
<1> QED
  BY Inductive, <1>1, PTL DEF Spec, FreedByItsAllocator

-----------------------------------------------------------------------------
(***************************************************************************)
(* Refinement: the cell protocol implements OwnedBox.                      *)
(***************************************************************************)

\* Two families of phases that agree on every cell are equal; likewise for
\* holders.  A step that changes neither is a stuttering step of OwnedBox.
LEMMA AbstractStutter ==
    ASSUME \A c \in Cells : Phase(c)' = Phase(c),
           \A c \in Cells : Holders(c)' = Holders(c)
    PROVE  UNCHANGED Box!boxVars
  BY DEF Box!boxVars

\* Every step of the cells, wrappers, reload, dump and restore is a step of
\* OwnedBox or leaves its view unchanged.
LEMMA AbstractStep == IndInv /\ Next => Box!Next \/ UNCHANGED Box!boxVars
<1> SUFFICES ASSUME IndInv, Next
             PROVE  Box!Next \/ UNCHANGED Box!boxVars
  OBVIOUS
<1>a. TypeOK /\ SessionInv /\ CellInv /\ ActInv /\ CountInv /\ DropInv
  BY DEF IndInv
<1>b. ASSUME UNCHANGED <<state, homeProcess, process, freeCount>>
      PROVE  \A c \in Cells : Phase(c)' = Phase(c)
  BY <1>b DEF Phase
<1>c. ASSUME UNCHANGED <<held, args>>
      PROVE  \A c \in Cells : Holders(c)' = Holders(c)
  BY <1>c DEF Holders
<1> USE DEF imageVars, cellVars, actVars, worldVars
<1>1. CASE \E k \in Crates : Reload(k)
  BY <1>1, <1>b, <1>c, AbstractStutter DEF Reload
<1>2. CASE \E k \in Crates : RestoreCrate(k)
  BY <1>2, <1>b, <1>c, AbstractStutter DEF RestoreCrate
<1>3. CASE DumpAndStart
  <2>1. \A c \in Cells : Holders(c)' = Holders(c)
    BY <1>3, <1>c DEF DumpAndStart
  <2>2. \A c \in Cells : Holders(c) = {}
    <3>1. \A a \in Acts : held[a] = 0
      BY <1>3, <1>a DEF DumpAndStart, ActInv, ActOK
    <3> QED
      BY <3>1, BoundsAssumption DEF Holders, Users, Slots
  <2>3. \A c \in Cells : Phase(c)' = IF Phase(c) = "none" THEN "none" ELSE "lost"
    <3> TAKE c \in Cells
    <3>1. homeProcess'[c] # process'
      BY <1>3, <1>a DEF DumpAndStart, CellInv, SessionInv, TypeOK
    <3>2. state'[c] = state[c]
      BY <1>3 DEF DumpAndStart
    <3> QED
      BY <3>1, <3>2 DEF Phase
  <2>4. Box!Lose
    BY <2>1, <2>2, <2>3 DEF Box!Lose
  <2> QED
    BY <2>4 DEF Box!Next
<1>4. CASE RestoreHook
  BY <1>4, <1>b, <1>c, AbstractStutter DEF RestoreHook
<1>5. CASE \E a \in Acts, p \in Acts \cup {NoAct}, l \in Libs, cs \in ArgSeqs :
              Enter(a, p, l, cs)
  <2> PICK a \in Acts, p \in Acts \cup {NoAct}, l \in Libs, cs \in ArgSeqs :
              Enter(a, p, l, cs)
    BY <1>5
  <2>1. held[a] = 0 /\ held' = held /\ args' = [args EXCEPT ![a] = cs]
    BY <1>a DEF Enter, ActInv, ActOK
  <2> QED
    BY <1>a, <1>b, <2>1, IdleHolders, AbstractStutter DEF Enter
<1>6. CASE \E a \in Acts, p \in Acts \cup {NoAct}, x \in Cells : CellFree(a, p, x)
  <2> PICK a \in Acts, p \in Acts \cup {NoAct}, x \in Cells : CellFree(a, p, x)
    BY <1>6
  <2>1. \A c \in Cells : Holders(c)' = Holders(c)
    BY <1>c DEF CellFree
  <2>2. /\ state[x] = "live" /\ state'[x] \in {"freed", "free-pending"}
        /\ \A c \in Cells : c # x => state'[c] = state[c]
        /\ UNCHANGED <<homeProcess, process, freeCount>>
    BY <1>a DEF CellFree, TypeOK
  <2>3. \A c \in Cells : c # x => Phase(c)' = Phase(c)
    BY <2>2 DEF Phase
  <2>4. freeCount[x] = 0
    BY <1>a, <2>2, Undropped
  <2>5. CASE homeProcess[x] # process
    <3>1. Phase(x)' = Phase(x)
      BY <2>2, <2>5 DEF Phase
    <3> QED
      BY <2>1, <2>3, <3>1, AbstractStutter
  <2>6. CASE homeProcess[x] = process
    <3>1. Phase(x) = "open" /\ Phase(x)' = "closing"
      BY <2>2, <2>4, <2>6 DEF Phase
    <3>2. Box!Close(x)
      BY <2>1, <2>3, <3>1 DEF Box!Close
    <3> QED
      BY <3>2 DEF Box!Next
  <2> QED
    BY <2>5, <2>6
<1>7. CASE \E a \in Acts : BeginCall(a)
  <2> PICK a \in Acts : BeginCall(a)
    BY <1>7
  <2>1. PICK x \in Cells, u \in Users :
            x = NextArg(a) /\ u = <<a, held[a] + 1>> /\ state[x] # "none"
    <3>1. args[a] \in Seq(Cells) /\ held[a] \in Nat /\ Len(args[a]) <= MaxArgs
      BY <1>a DEF TypeOK
    <3>2. held[a] + 1 \in 1..Len(args[a]) /\ held[a] + 1 \in Slots
      BY <3>1, BoundsAssumption DEF BeginCall, Slots
    <3>3. NextArg(a) \in Cells /\ <<a, held[a] + 1>> \in Users
      BY <3>1, <3>2 DEF NextArg, Users
    <3>4. state[NextArg(a)] # "none"
      BY <1>a, <3>2 DEF NextArg, ActInv, ActOK
    <3> QED
      BY <3>3, <3>4
  <2>2. \A c \in Cells : Phase(c)' = Phase(c)
    BY <1>b DEF BeginCall
  <2>3. Phase(x) = "open"
    <3>1. state[x] = "live"
      BY <1>a, <2>1 DEF BeginCall, Admits, TypeOK, States
    <3>2. freeCount[x] = 0
      BY <1>a, <2>1, <3>1, Undropped
    <3>3. homeProcess[x] = process
      BY <1>a, <2>1 DEF BeginCall, Admits, Running, CellInv, SessionInv
    <3> QED
      BY <3>1, <3>2, <3>3 DEF Phase
  <2>4. /\ \A c \in Cells : c # x => Holders(c)' = Holders(c)
        /\ Holders(x)' = Holders(x) \cup {u} /\ u \notin Holders(x)
    BY <1>a, <2>1, BeginHolders
  <2>5. Box!Join(x, u)
    BY <2>1, <2>2, <2>3, <2>4 DEF Box!Join
  <2> QED
    BY <2>1, <2>5 DEF Box!Next
<1>8. CASE \E a \in Acts : RefuseCall(a)
  BY <1>8, <1>b, <1>c, AbstractStutter DEF RefuseCall
<1>9. CASE \E a \in Acts : CallForeign(a)
  BY <1>9, <1>b, <1>c, AbstractStutter DEF CallForeign
<1>10. CASE \E a \in Acts : MakeHandle(a)
  <2> PICK a \in Acts : MakeHandle(a)
    BY <1>10
  <2>1. PICK x \in Cells :
            x = target[a] /\ state[x] = "none" /\ homeProcess[x] = process
    BY <1>a DEF MakeHandle, Running, ActInv, ActOK, SessionInv
  <2>2. freeCount[x] = 0
    BY <1>a, <2>1, Undropped
  <2>3. \A c \in Cells : Holders(c)' = Holders(c)
    BY <1>c DEF MakeHandle
  <2>4. /\ state'[x] = "live" /\ \A c \in Cells : c # x => state'[c] = state[c]
        /\ UNCHANGED <<homeProcess, process, freeCount>>
    BY <1>a, <2>1 DEF MakeHandle, TypeOK
  <2>5. /\ Phase(x) = "none" /\ Phase(x)' = "open"
        /\ \A c \in Cells : c # x => Phase(c)' = Phase(c)
    BY <2>1, <2>2, <2>4 DEF Phase
  <2>6. Box!Alloc(x)
    BY <2>1, <2>3, <2>5 DEF Box!Alloc
  <2> QED
    BY <2>1, <2>6 DEF Box!Next
<1>11. CASE \E a \in Acts : EndCall(a)
  <2> PICK a \in Acts : EndCall(a)
    BY <1>11
  <2>1. held[a] > 0 /\ held' = [held EXCEPT ![a] = @ - 1] /\ args' = args
    BY DEF EndCall
  <2>2. PICK x \in Cells, u \in {<<a, held[a]>>} :
               x = LastArg(a) /\ u = <<a, held[a]>>
    BY <1>a, EndCallCounted
  <2>3. /\ \A c \in Cells : c # x => Holders(c)' = Holders(c)
        /\ Holders(x)' = Holders(x) \ {u} /\ u \in Holders(x)
    BY <1>a, <2>1, <2>2, EndHolders
  <2>7. u \in Users
    BY <2>3 DEF Holders
  <2>4. \A c \in Cells : \/ state'[c] = state[c]
                         \/ state[c] = "free-pending" /\ state'[c] = "freed"
    BY <1>a, <2>2 DEF EndCall, TypeOK
  <2>5. \A c \in Cells : Phase(c)' = Phase(c)
    BY <2>4 DEF EndCall, Phase
  <2>6. Box!Quit(x, u)
    BY <2>2, <2>3, <2>5 DEF Box!Quit
  <2> QED
    BY <2>6, <2>7 DEF Box!Next
<1>12. CASE \E a \in Acts : Leave(a)
  <2> PICK a \in Acts : Leave(a)
    BY <1>12
  <2>1. held[a] = 0 /\ held' = held /\ args' = [args EXCEPT ![a] = <<>>]
    BY DEF Leave
  <2> QED
    BY <1>a, <1>b, <2>1, IdleHolders, AbstractStutter DEF Leave
<1>13. CASE \E a \in Acts : MaybeForeignFree(a)
  <2> PICK a \in Acts : MaybeForeignFree(a)
    BY <1>13
  <2>1. \A c \in Cells : Holders(c)' = Holders(c)
    BY <1>c DEF MaybeForeignFree
  <2>2. CASE cellSession[target[a]] # session
    BY <1>b, <2>1, <2>2, AbstractStutter DEF MaybeForeignFree
  <2>3. CASE cellSession[target[a]] = session
    <3>1. PICK x \in Cells :
              x = target[a] /\ state[x] = "freed" /\ freeCount[x] = 0
      BY <1>a DEF MaybeForeignFree, DropInv
    <3>2. homeProcess[x] = process /\ Holders(x) = {}
      BY <1>a, <2>3, <3>1 DEF MaybeForeignFree, Running, SessionInv, CellInv,
                              CountInv, CountOK
    <3>3. /\ freeCount'[x] = 1
          /\ \A c \in Cells : c # x => freeCount'[c] = freeCount[c]
          /\ UNCHANGED <<homeProcess, process, state>>
      BY <1>a, <2>3, <3>1 DEF MaybeForeignFree, TypeOK
    <3>4. /\ Phase(x) = "closing" /\ Phase(x)' = "dropped"
          /\ \A c \in Cells : c # x => Phase(c)' = Phase(c)
      BY <3>1, <3>2, <3>3 DEF Phase
    <3>5. Box!Drop(x)
      BY <2>1, <3>1, <3>2, <3>4 DEF Box!Drop
    <3> QED
      BY <3>1, <3>5 DEF Box!Next
  <2> QED
    BY <2>2, <2>3
<1>14. CASE \E a \in Acts : ForeignReturn(a)
  BY <1>14, <1>b, <1>c, AbstractStutter DEF ForeignReturn
<1>15. CASE \E a \in Acts, x \in Cells : ForeignReturnHandle(a, x)
  <2> PICK a \in Acts, x \in Cells : ForeignReturnHandle(a, x)
    BY <1>15
  <2>1. state[x] = "none"
    BY <1>a, NoLibNotLib DEF ForeignReturnHandle, CellInv
  <2>2. \A c \in Cells : c # x => homeProcess'[c] = homeProcess[c]
    BY <1>a DEF ForeignReturnHandle, TypeOK
  <2>3. \A c \in Cells : Phase(c)' = Phase(c)
    BY <2>1, <2>2 DEF ForeignReturnHandle, Phase
  <2>4. \A c \in Cells : Holders(c)' = Holders(c)
    BY <1>c DEF ForeignReturnHandle
  <2> QED
    BY <2>3, <2>4, AbstractStutter
<1>16. CASE \E a \in Acts : Interrupt(a)
  <2> PICK a \in Acts : Interrupt(a)
    BY <1>16
  <2>1. \A c \in Cells : Phase(c)' = Phase(c)
    BY <1>b DEF Interrupt
  <2>2. CASE held' = held
    BY <1>c, <2>1, <2>2, AbstractStutter DEF Interrupt
  <2>3. CASE held[a] > 0 /\ held' = [held EXCEPT ![a] = @ - 1]
    <3>1. args' = args
      BY DEF Interrupt
    <3>2. PICK x \in Cells, u \in {<<a, held[a]>>} :
               x = LastArg(a) /\ u = <<a, held[a]>>
      <4>1. args[a] \in Seq(Cells) /\ held[a] \in Nat /\ held[a] <= Len(args[a])
        BY <1>a DEF TypeOK
      <4>2. LastArg(a) \in Cells
        BY <2>3, <4>1 DEF LastArg
      <4> QED
        BY <4>2
    <3>3. /\ \A c \in Cells : c # x => Holders(c)' = Holders(c)
          /\ Holders(x)' = Holders(x) \ {u} /\ u \in Holders(x)
      BY <1>a, <2>3, <3>1, <3>2, EndHolders
    <3>5. u \in Users
      BY <3>3 DEF Holders
    <3>4. Box!Quit(x, u)
      BY <2>1, <3>2, <3>3 DEF Box!Quit
    <3> QED
      BY <3>4, <3>5 DEF Box!Next
  <2> QED
    BY <1>a, <2>2, <2>3 DEF Interrupt, TypeOK
<1> QED
  BY <1>1, <1>2, <1>3, <1>4, <1>5, <1>6, <1>7, <1>8, <1>9, <1>10, <1>11,
     <1>12, <1>13, <1>14, <1>15, <1>16 DEF Next, Step, Return

\* The handle cells implement the abstract promise: closed by the first
\* release, dropped exactly once after the last user, never after a restart.
THEOREM Refinement == Spec => ImplementsOwnedBox
<1>1. Init => Box!Init
  <2> SUFFICES ASSUME Init PROVE Box!Init
    OBVIOUS
  <2>1. \A c \in Cells : Phase(c) = "none" /\ Holders(c) = {}
    BY BoundsAssumption DEF Init, Phase, Holders, Users, Slots
  <2> QED
    BY <2>1 DEF Box!Init
<1>2. IndInv /\ [Next]_vars => [Box!Next]_(Box!boxVars)
  <2>1. UNCHANGED vars => UNCHANGED Box!boxVars
    BY DEF vars, imageVars, cellVars, actVars, worldVars, Box!boxVars, Phase,
           Holders
  <2> QED
    BY <2>1, AbstractStep
<1> QED
  BY Inductive, <1>1, <1>2, PTL DEF Spec, ImplementsOwnedBox, Box!Spec

=============================================================================
