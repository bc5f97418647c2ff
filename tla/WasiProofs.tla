----------------------------- MODULE WasiProofs -----------------------------
(***************************************************************************)
(* Proofs about Wasi, for any threads, budgets and settings.               *)
(*                                                                         *)
(* Three facts carry everything.  The store has one user at a time: the    *)
(* thread that loads it, or the owner of the mutex (Exclusive).  A run     *)
(* marks the instance before its first instruction, and the mark goes only *)
(* with the instance (RunMarks).  And outside of a run that has not        *)
(* panicked, an instance that has run owns nothing (Emptied).              *)
(***************************************************************************)
EXTENDS Wasi, TLAPS

\* Who may touch the store, and what there is when there is no handle.
Exclusive ==
    /\ phase = "none" => \A t \in Threads : pc[t] = "idle"
    /\ phase = "loading" =>
          /\ lock = NoThread
          /\ \A t \in Threads : pc[t] \in {"idle", "start"}
          /\ \A t, u \in Threads : pc[t] = "start" /\ pc[u] = "start" => t = u
    /\ phase = "made" =>
          \A t \in Threads : pc[t] # "start" /\ (pc[t] # "idle" <=> lock = t)
    /\ phase = "none" => lock = NoThread

RunMarks ==
    /\ phase # "made" => ~ran /\ ~poisoned
    /\ \A t \in Threads : pc[t] = "running" => ran
    /\ \A t \in Threads : pc[t] # "idle" => ~poisoned

Emptied ==
    phase = "made" /\ ran /\ ~poisoned /\ (\A t \in Threads : pc[t] # "running")
        => wasi = fresh_wasi /\ live = 0

Inv == TypeOK /\ BudgetsHold /\ Exclusive /\ RunMarks /\ Emptied

Points == {"idle", "start", "run", "running"} \cup Settings \cup Readers

-----------------------------------------------------------------------------

\* What the assumption on the constants says, in parts.
LEMMA Constants ==
    /\ NoThread \notin Threads
    /\ Fuel \in Nat /\ OpenDescriptors \in Nat /\ MemoryLimit \in Nat
    /\ Second \in Nat /\ MaxCallTime \in Nat /\ MaxWrite \in Nat
    /\ HostTime_for_fuel \in Nat
  BY WasiAssumption DEF HostTime_for_fuel

\* The label of a configuration call is none of the others.
LEMMA SettingsApart == \A what \in Settings : what \notin Labels
  BY WasiAssumption DEF Settings, Labels

LEMMA ReadersApart == \A what \in Readers : what \notin {"idle", "start", "run", "running"}
  BY DEF Readers

\* The empty context and the empty output have their types.
LEMMA Empty ==
    /\ fresh_wasi \in [given : SUBSET Settings, files : 0..OpenDescriptors]
    /\ [s \in Streams |-> 0] \in [Streams -> 0..MemoryLimit]
    /\ 0 \in 0..OpenDescriptors /\ 0 \in 0..MemoryLimit /\ 0 \in 0..Fuel
    /\ 0 \in 0..(HostTime_for_fuel + MaxCallTime)
<1>1. /\ 0 \in 0..OpenDescriptors /\ 0 \in 0..MemoryLimit /\ 0 \in 0..Fuel
      /\ 0 \in 0..(HostTime_for_fuel + MaxCallTime)
  BY Constants
<1>2. fresh_wasi \in [given : SUBSET Settings, files : 0..OpenDescriptors]
  BY <1>1 DEF fresh_wasi
<1>3. [s \in Streams |-> 0] \in [Streams -> 0..MemoryLimit]
  BY <1>1
<1> QED  BY <1>1, <1>2, <1>3

LEMMA InitInv == Init => Inv
<1> SUFFICES ASSUME Init PROVE Inv
  OBVIOUS
<1>1. TypeOK
  <2>1. pc \in [Threads -> {"idle", "start", "run", "running"} \cup Settings \cup Readers]
    BY DEF Init
  <2>2. envKeys \subseteq EnvKeys /\ lock \in Threads \cup {NoThread}
    BY DEF Init
  <2> QED  BY <2>1, <2>2, Empty DEF Init, TypeOK
<1>2. BudgetsHold
  BY Constants DEF Init, BudgetsHold, fresh_wasi, Streams
<1>3. Exclusive /\ RunMarks /\ Emptied
  BY DEF Init, Exclusive, RunMarks, Emptied
<1> QED  BY <1>1, <1>2, <1>3 DEF Inv

-----------------------------------------------------------------------------
(* Steps that leave the sandbox alone.                                     *)

\* The budgets and the types of the sandbox hold when nothing of it changes.
LEMMA SameSandbox ==
    ASSUME Inv, UNCHANGED sandbox,
           phase' \in {"none", "loading", "made"}, lock' \in Threads \cup {NoThread},
           poisoned' \in BOOLEAN, ran' \in BOOLEAN, pc' \in [Threads -> Points]
    PROVE  TypeOK' /\ BudgetsHold'
<1>1. TypeOK'
  BY DEF Inv, TypeOK, sandbox, Points
<1>2. BudgetsHold'
  BY DEF Inv, BudgetsHold, sandbox
<1> QED  BY <1>1, <1>2

LEMMA LoadDoneKeeps == ASSUME Inv, NEW t \in Threads, LoadDone(t) PROVE Inv'
<1>1. /\ pc[t] = "start" /\ phase' = "made" /\ pc' = [pc EXCEPT ![t] = "idle"]
      /\ UNCHANGED <<lock, poisoned, ran, sandbox>>
  BY DEF LoadDone, Return
<1>2. phase = "loading"
  BY <1>1 DEF Inv, Exclusive, TypeOK
<1>3. TypeOK' /\ BudgetsHold'
  <2>1. pc' \in [Threads -> Points]
    BY <1>1 DEF Inv, TypeOK, Points
  <2> QED  BY <1>1, <2>1, SameSandbox DEF Inv, TypeOK
<1>4. \A u \in Threads : pc'[u] = "idle"
  BY <1>1, <1>2 DEF Inv, Exclusive, TypeOK
<1>5. Exclusive'
  BY <1>1, <1>2, <1>4, Constants DEF Inv, Exclusive
<1>6. RunMarks' /\ Emptied'
  BY <1>1, <1>2, <1>4 DEF Inv, RunMarks, Emptied
<1> QED  BY <1>3, <1>5, <1>6 DEF Inv

LEMMA LoadKeeps == ASSUME Inv, NEW t \in Threads, Load(t) PROVE Inv'
<1>1. /\ phase = "none" /\ phase' = "loading" /\ pc' = [pc EXCEPT ![t] = "start"]
      /\ fuel' = Fuel
      /\ UNCHANGED <<lock, poisoned, ran, envKeys, wasi, live, captured, spent, offered>>
  BY DEF Load
<1>2. TypeOK'
  BY <1>1, Constants DEF Inv, TypeOK
<1>3. BudgetsHold'
  BY <1>1 DEF Inv, BudgetsHold
<1>4. \A u \in Threads : pc[u] = "idle" /\ pc'[u] = IF u = t THEN "start" ELSE "idle"
  BY <1>1 DEF Inv, Exclusive, TypeOK
<1>5. Exclusive'
  BY <1>1, <1>4 DEF Inv, Exclusive
<1>6. RunMarks' /\ Emptied'
  BY <1>1, <1>4 DEF Inv, RunMarks, Emptied
<1> QED  BY <1>2, <1>3, <1>5, <1>6 DEF Inv

\* The handle is dropped while every other thread is idle.
LEMMA DropKeeps ==
    ASSUME Inv, NEW t \in Threads, Return(t), Drop,
           \A u \in Threads \ {t} : pc[u] = "idle"
    PROVE  Inv'
<1>1. \A u \in Threads : pc'[u] = "idle"
  BY DEF Inv, TypeOK, Return
<1>2. pc' = [u \in Threads |-> "idle"]
  BY <1>1 DEF Inv, TypeOK, Return
<1>3. TypeOK'
  <2>1. pc' \in [Threads -> {"idle", "start", "run", "running"} \cup Settings \cup Readers]
    BY <1>2
  <2>2. envKeys' \subseteq EnvKeys /\ lock' \in Threads \cup {NoThread}
    BY DEF Drop
  <2> QED  BY <2>1, <2>2, Empty DEF Drop, TypeOK
<1>4. BudgetsHold'
  BY Constants DEF Drop, BudgetsHold, fresh_wasi, Streams
<1>5. Exclusive' /\ RunMarks' /\ Emptied'
  BY <1>1 DEF Drop, Exclusive, RunMarks, Emptied
<1> QED  BY <1>3, <1>4, <1>5 DEF Inv

LEMMA LoadFailsKeeps == ASSUME Inv, NEW t \in Threads, LoadFails(t) PROVE Inv'
<1>1. pc[t] = "start" /\ Return(t) /\ Drop
  BY DEF LoadFails
<1>2. phase = "loading"
  BY <1>1 DEF Inv, Exclusive, TypeOK
<1>3. \A u \in Threads \ {t} : pc[u] = "idle"
  BY <1>1, <1>2 DEF Inv, Exclusive
<1> QED  BY <1>1, <1>3, DropKeeps

LEMMA FreeKeeps == ASSUME Inv, NEW t \in Threads, Free(t) PROVE Inv'
  BY DropKeeps DEF Free

\* A thread that is idle answers without having done anything.
LEMMA RefusedKeeps ==
    ASSUME Inv, NEW t \in Threads, pc[t] = "idle", Return(t),
           UNCHANGED <<phase, lock, poisoned, ran, sandbox>>
    PROVE  Inv'
<1>1. pc' = pc
  BY DEF Inv, TypeOK, Return
<1>2. TypeOK' /\ BudgetsHold'
  BY <1>1, SameSandbox DEF Inv, TypeOK, Points
<1>3. Exclusive' /\ RunMarks' /\ Emptied'
  BY <1>1 DEF Inv, Exclusive, RunMarks, Emptied, sandbox
<1> QED  BY <1>2, <1>3 DEF Inv

LEMMA LockKeeps ==
    ASSUME Inv, NEW t \in Threads, NEW what \in Settings \cup Readers \cup {"run"},
           Lock(t, what)
    PROVE  Inv'
<1>1. CASE ~(lock = NoThread /\ ~poisoned)
  BY <1>1, RefusedKeeps DEF Lock
<1>2. CASE lock = NoThread /\ ~poisoned
  <2>1. /\ phase = "made" /\ lock' = t /\ pc' = [pc EXCEPT ![t] = what]
        /\ UNCHANGED <<phase, poisoned, ran, sandbox>>
    BY <1>2 DEF Lock
  <2>2. what \notin {"idle", "start", "running"} /\ what \in Points
    BY SettingsApart, ReadersApart DEF Labels, Points
  <2>3. TypeOK' /\ BudgetsHold'
    <3>1. pc' \in [Threads -> Points]
      BY <2>1, <2>2 DEF Inv, TypeOK, Points
    <3> QED  BY <2>1, <3>1, SameSandbox DEF Inv, TypeOK
  <2>4. \A u \in Threads : pc[u] = "idle" /\ pc'[u] = IF u = t THEN what ELSE "idle"
    BY <1>2, <2>1, Constants DEF Inv, Exclusive, TypeOK
  <2>5. Exclusive'
    BY <2>1, <2>2, <2>4 DEF Exclusive
  <2>6. RunMarks'
    BY <1>2, <2>1, <2>2, <2>4 DEF RunMarks
  <2>7. Emptied'
    BY <1>2, <2>1, <2>2, <2>4 DEF Inv, Emptied, sandbox
  <2> QED  BY <2>3, <2>5, <2>6, <2>7 DEF Inv
<1> QED  BY <1>1, <1>2

-----------------------------------------------------------------------------
(* Steps under the mutex.                                                  *)

\* A thread that is in a method, and not in a start section, owns the mutex.
LEMMA OwnerFacts ==
    ASSUME Inv, NEW t \in Threads, pc[t] \notin {"idle", "start"}
    PROVE  /\ phase = "made" /\ lock = t /\ ~poisoned
           /\ \A u \in Threads \ {t} : pc[u] = "idle"
<1>1. phase = "made"
  BY DEF Inv, Exclusive, TypeOK
<1> QED  BY <1>1 DEF Inv, Exclusive, RunMarks

\* The owner unlocks: who may touch the store is as it was before the call.
LEMMA UnlockKeeps ==
    ASSUME Inv, NEW t \in Threads, pc[t] \notin {"idle", "start"}, Unlock(t),
           phase' = phase, ran' = ran
    PROVE  /\ lock' \in Threads \cup {NoThread} /\ pc' \in [Threads -> Points]
           /\ \A u \in Threads : pc'[u] = "idle"
           /\ Exclusive' /\ RunMarks'
<1>1. /\ phase = "made" /\ lock = t /\ ~poisoned
      /\ \A u \in Threads \ {t} : pc[u] = "idle"
  BY OwnerFacts
<1>2. lock' = NoThread /\ pc' = [pc EXCEPT ![t] = "idle"]
  BY DEF Unlock, Return
<1>3. pc' \in [Threads -> Points] /\ \A u \in Threads : pc'[u] = "idle"
  BY <1>1, <1>2 DEF Inv, TypeOK, Points
<1>4. Exclusive'
  BY <1>1, <1>2, <1>3, Constants DEF Exclusive
<1>5. RunMarks'
  BY <1>1, <1>3 DEF RunMarks
<1> QED  BY <1>2, <1>3, <1>4, <1>5

\* A method that has only looked.
LEMMA LookedKeeps ==
    ASSUME Inv, NEW t \in Threads, pc[t] \notin {"idle", "start", "running"},
           Unlock(t), UNCHANGED <<phase, poisoned, ran, sandbox>>
    PROVE  Inv'
<1>1. /\ phase = "made" /\ ~poisoned /\ \A u \in Threads \ {t} : pc[u] = "idle"
  BY OwnerFacts
<1>2. /\ lock' \in Threads \cup {NoThread} /\ pc' \in [Threads -> Points]
      /\ Exclusive' /\ RunMarks'
  BY UnlockKeeps
<1>3. TypeOK' /\ BudgetsHold'
  BY <1>2, SameSandbox DEF Inv, TypeOK
<1>4. \A u \in Threads : pc[u] # "running"
  BY <1>1
<1>5. Emptied'
  BY <1>4 DEF Inv, Emptied, sandbox
<1> QED  BY <1>2, <1>3, <1>5 DEF Inv

LEMMA ConfigureKeeps ==
    ASSUME Inv, NEW t \in Threads, NEW what \in Settings, Configure(t, what)
    PROVE  Inv'
<1>1. what \notin {"idle", "start", "running"}
  BY SettingsApart DEF Labels
<1>2. /\ pc[t] = what /\ ~ran /\ Unlock(t)
      /\ wasi' = [wasi EXCEPT !.given = @ \cup {what}]
      /\ envKeys' = envKeys \cup ({what} \cap EnvKeys)
      /\ UNCHANGED <<phase, poisoned, ran, live, captured, fuel, spent, offered>>
  BY DEF Configure
<1>3. /\ lock' \in Threads \cup {NoThread} /\ pc' \in [Threads -> Points]
      /\ Exclusive' /\ RunMarks'
  BY <1>1, <1>2, UnlockKeeps
<1>4. /\ wasi' \in [given : SUBSET Settings, files : 0..OpenDescriptors]
      /\ wasi'.files = wasi.files
  BY <1>2 DEF Inv, TypeOK
<1>5. TypeOK'
  BY <1>2, <1>3, <1>4 DEF Inv, TypeOK, Points
<1>6. BudgetsHold'
  BY <1>2, <1>4 DEF Inv, BudgetsHold
<1>7. Emptied'
  BY <1>2 DEF Emptied
<1> QED  BY <1>3, <1>5, <1>6, <1>7 DEF Inv

LEMMA RunKeeps == ASSUME Inv, NEW t \in Threads, Run(t) PROVE Inv'
<1>1. /\ pc[t] = "run" /\ ran' = TRUE /\ pc' = [pc EXCEPT ![t] = "running"]
      /\ UNCHANGED <<phase, lock, poisoned, sandbox>>
  BY DEF Run
<1>2. /\ phase = "made" /\ lock = t /\ ~poisoned
      /\ \A u \in Threads \ {t} : pc[u] = "idle"
  BY <1>1, OwnerFacts
<1>3. /\ pc' \in [Threads -> Points]
      /\ \A u \in Threads : pc'[u] = IF u = t THEN "running" ELSE "idle"
  BY <1>1, <1>2 DEF Inv, TypeOK, Points
<1>4. TypeOK' /\ BudgetsHold'
  BY <1>1, <1>3, SameSandbox DEF Inv, TypeOK
<1>5. Exclusive'
  BY <1>1, <1>2, <1>3 DEF Exclusive
<1>6. RunMarks' /\ Emptied'
  BY <1>1, <1>2, <1>3 DEF RunMarks, Emptied
<1> QED  BY <1>4, <1>5, <1>6 DEF Inv

LEMMA RunEndsKeeps == ASSUME Inv, NEW t \in Threads, RunEnds(t) PROVE Inv'
<1>1. /\ pc[t] = "running" /\ Unlock(t) /\ wasi' = fresh_wasi
      /\ live' = live - wasi.files
      /\ UNCHANGED <<phase, poisoned, ran, envKeys, captured, fuel, spent, offered>>
  BY DEF RunEnds
<1>2. /\ lock' \in Threads \cup {NoThread} /\ pc' \in [Threads -> Points]
      /\ Exclusive' /\ RunMarks'
  BY <1>1, UnlockKeeps
<1>3. live' = 0
  BY <1>1 DEF Inv, TypeOK, BudgetsHold
<1>4. TypeOK'
  BY <1>1, <1>2, <1>3, Constants DEF Inv, TypeOK, Points, fresh_wasi
<1>5. BudgetsHold'
  BY <1>1, <1>3, Constants DEF Inv, BudgetsHold, fresh_wasi
<1>6. Emptied'
  BY <1>1, <1>3 DEF Emptied
<1> QED  BY <1>2, <1>4, <1>5, <1>6 DEF Inv

LEMMA PanicKeeps == ASSUME Inv, NEW t \in Threads, Panic(t) PROVE Inv'
<1>1. /\ lock = t /\ poisoned' = TRUE /\ Unlock(t)
      /\ UNCHANGED <<phase, ran, sandbox>>
  BY DEF Panic
<1>2. pc[t] \notin {"idle", "start"}
  BY <1>1, Constants DEF Inv, Exclusive, TypeOK
<1>3. /\ lock' \in Threads \cup {NoThread} /\ pc' \in [Threads -> Points]
      /\ Exclusive' /\ RunMarks'
  BY <1>1, <1>2, UnlockKeeps
<1>4. TypeOK' /\ BudgetsHold'
  BY <1>1, <1>3, SameSandbox DEF Inv, TypeOK
<1>5. Emptied'
  BY <1>1 DEF Emptied
<1> QED  BY <1>3, <1>4, <1>5 DEF Inv

-----------------------------------------------------------------------------
(* The guest.                                                              *)

\* Where the threads are, and what has run, is not the guest's to change; and
\* while it runs nothing has to be empty.
LEMMA GuestKeeps ==
    ASSUME Inv, NEW t \in Threads, pc[t] \in {"start", "running"},
           UNCHANGED <<phase, lock, poisoned, ran, envKeys, pc>>
    PROVE  Exclusive' /\ RunMarks' /\ Emptied'
<1>1. Exclusive' /\ RunMarks'
  BY DEF Inv, Exclusive, RunMarks
<1>2. CASE pc[t] = "running"
  BY <1>1, <1>2 DEF Emptied
<1>3. CASE pc[t] = "start"
  <2>1. phase # "made"
    BY <1>3 DEF Inv, Exclusive
  <2> QED  BY <1>1, <2>1 DEF Emptied
<1> QED  BY <1>1, <1>2, <1>3

\* The call hook charges fuel and time, and keeps both within their budgets.
LEMMA HookCharges ==
    ASSUME Inv, NEW t \in Threads, NEW d \in 0..MaxCallTime, HostCall(t, d)
    PROVE  /\ pc[t] \in {"start", "running"}
           /\ fuel' \in 0..Fuel /\ spent' \in 0..(HostTime_for_fuel + MaxCallTime)
           /\ spent' <= HostTime_for_fuel + MaxCallTime
           /\ Exclusive' /\ RunMarks' /\ Emptied'
           /\ UNCHANGED <<phase, lock, poisoned, ran, envKeys, pc>>
<1>1. /\ pc[t] \in {"start", "running"} /\ fuel > 0 /\ spent <= HostTime_for_fuel
      /\ fuel' = fuel - 1 /\ spent' = spent + d
      /\ UNCHANGED <<phase, lock, poisoned, ran, envKeys, pc>>
  BY DEF HostCall, InGuest
<1>2. fuel' \in 0..Fuel
  BY <1>1, Constants DEF Inv, TypeOK
<1>3. /\ spent' \in 0..(HostTime_for_fuel + MaxCallTime)
      /\ spent' <= HostTime_for_fuel + MaxCallTime
  BY <1>1, Constants DEF Inv, TypeOK
<1>4. Exclusive' /\ RunMarks' /\ Emptied'
  BY <1>1, GuestKeeps
<1> QED  BY <1>1, <1>2, <1>3, <1>4

\* A host call that moves no byte of output.
LEMMA CallKeeps ==
    ASSUME Inv, NEW t \in Threads, NEW d \in 0..MaxCallTime, HostCall(t, d),
           UNCHANGED <<captured, offered>>,
           wasi' \in [given : SUBSET Settings, files : 0..OpenDescriptors],
           live' \in 0..OpenDescriptors, live' = wasi'.files
    PROVE  Inv'
<1>1. /\ fuel' \in 0..Fuel /\ spent' \in 0..(HostTime_for_fuel + MaxCallTime)
      /\ spent' <= HostTime_for_fuel + MaxCallTime
      /\ Exclusive' /\ RunMarks' /\ Emptied'
      /\ UNCHANGED <<phase, lock, poisoned, ran, envKeys, pc>>
  BY HookCharges
<1>2. TypeOK'
  BY <1>1 DEF Inv, TypeOK
<1>3. BudgetsHold'
  BY <1>1, Constants DEF Inv, BudgetsHold
<1> QED  BY <1>1, <1>2, <1>3 DEF Inv

\* Output is cut at the boundary of the budget, and only there.
LEMMA WriteKeeps ==
    ASSUME Inv, NEW t \in Threads, NEW s \in Streams, NEW n \in 0..MaxWrite,
           NEW d \in 0..MaxCallTime, WriteVectored(t, s, n, d)
    PROVE  Inv'
<1> DEFINE out == captured["stdout"]
           err == captured["stderr"]
           kept == Least(n, MemoryLimit - (out + err))
<1>1. /\ HostCall(t, d) /\ UNCHANGED <<wasi, live>>
      /\ captured' = [captured EXCEPT ![s] = @ + kept]
      /\ offered' = Least(MemoryLimit, offered + n)
  BY DEF WriteVectored
<1>2. /\ fuel' \in 0..Fuel /\ spent' \in 0..(HostTime_for_fuel + MaxCallTime)
      /\ spent' <= HostTime_for_fuel + MaxCallTime
      /\ Exclusive' /\ RunMarks' /\ Emptied'
      /\ UNCHANGED <<phase, lock, poisoned, ran, envKeys, pc>>
  BY <1>1, HookCharges
<1>3. /\ out \in 0..MemoryLimit /\ err \in 0..MemoryLimit /\ out + err = offered
      /\ offered \in 0..MemoryLimit /\ n \in Nat /\ MemoryLimit \in Nat
  BY Constants DEF Inv, TypeOK, BudgetsHold, Streams
<1>4. kept \in 0..MemoryLimit /\ offered' = offered + kept /\ offered' \in 0..MemoryLimit
  BY <1>1, <1>3 DEF Least
<1>5. /\ captured' \in [Streams -> 0..MemoryLimit]
      /\ captured'["stdout"] + captured'["stderr"] = out + err + kept
  <2>1. CASE s = "stdout"
    <3>1. captured'["stdout"] = out + kept /\ captured'["stderr"] = err
      BY <1>1, <2>1 DEF Inv, TypeOK, Streams
    <3>2. captured' \in [Streams -> 0..MemoryLimit]
      BY <1>1, <1>3, <1>4, <2>1 DEF Inv, TypeOK, Streams
    <3> QED  BY <1>3, <1>4, <3>1, <3>2
  <2>2. CASE s = "stderr"
    <3>1. captured'["stdout"] = out /\ captured'["stderr"] = err + kept
      BY <1>1, <2>2 DEF Inv, TypeOK, Streams
    <3>2. captured' \in [Streams -> 0..MemoryLimit]
      BY <1>1, <1>3, <1>4, <2>2 DEF Inv, TypeOK, Streams
    <3> QED  BY <1>3, <1>4, <3>1, <3>2
  <2> QED  BY <2>1, <2>2 DEF Streams
<1>6. TypeOK'
  BY <1>1, <1>2, <1>4, <1>5 DEF Inv, TypeOK
<1>7. BudgetsHold'
  BY <1>1, <1>2, <1>3, <1>4, <1>5 DEF Inv, BudgetsHold
<1> QED  BY <1>2, <1>6, <1>7 DEF Inv

LEMMA GuestStepKeeps == ASSUME Inv, NEW t \in Threads, Guest(t) PROVE Inv'
<1>0. /\ wasi \in [given : SUBSET Settings, files : 0..OpenDescriptors]
      /\ live = wasi.files /\ live \in 0..OpenDescriptors /\ OpenDescriptors \in Nat
  BY Constants DEF Inv, TypeOK, BudgetsHold
<1>1. CASE GuestComputes(t)
  <2>1. /\ pc[t] \in {"start", "running"} /\ fuel' = fuel - 1 /\ fuel > 0
        /\ UNCHANGED <<phase, lock, poisoned, ran, envKeys, wasi, live, captured,
                       spent, pc, offered>>
    BY <1>1 DEF GuestComputes, InGuest
  <2>2. Exclusive' /\ RunMarks' /\ Emptied'
    BY <2>1, GuestKeeps
  <2>3. TypeOK'
    BY <2>1, Constants DEF Inv, TypeOK
  <2>4. BudgetsHold'
    BY <2>1 DEF Inv, BudgetsHold
  <2> QED  BY <2>2, <2>3, <2>4 DEF Inv
<1>2. CASE NoWait(t)
  <2>1. 0 \in 0..MaxCallTime
    BY Constants
  <2> QED  BY <1>0, <1>2, <2>1, CallKeeps DEF NoWait
<1>3. ASSUME NEW d \in 0..MaxCallTime,
             OpenFileFails(t, d) \/ ReadOnly(t, d) \/ ReadFile(t, d)
      PROVE  Inv'
  BY <1>0, <1>3, CallKeeps DEF OpenFileFails, ReadOnly, ReadFile
<1>4. ASSUME NEW d \in 0..MaxCallTime, OpenFile(t, d)
      PROVE  Inv'
  <2>1. /\ HostCall(t, d) /\ UNCHANGED <<captured, offered>>
        /\ live < OpenDescriptors /\ live' = live + 1
        /\ wasi' = [wasi EXCEPT !.files = @ + 1]
    BY <1>4 DEF OpenFile
  <2>2. /\ live' \in 0..OpenDescriptors /\ live' = wasi'.files
        /\ wasi' \in [given : SUBSET Settings, files : 0..OpenDescriptors]
    BY <1>0, <2>1
  <2> QED  BY <2>1, <2>2, CallKeeps
<1>5. ASSUME NEW d \in 0..MaxCallTime, CloseFile(t, d)
      PROVE  Inv'
  <2>1. /\ HostCall(t, d) /\ UNCHANGED <<captured, offered>>
        /\ wasi.files > 0 /\ live' = live - 1
        /\ wasi' = [wasi EXCEPT !.files = @ - 1]
    BY <1>5 DEF CloseFile
  <2>2. /\ live' \in 0..OpenDescriptors /\ live' = wasi'.files
        /\ wasi' \in [given : SUBSET Settings, files : 0..OpenDescriptors]
    BY <1>0, <2>1
  <2> QED  BY <2>1, <2>2, CallKeeps
<1>6. ASSUME NEW d \in 0..MaxCallTime, ClosePreopen(t, d)
      PROVE  Inv'
  <2>1. /\ HostCall(t, d) /\ UNCHANGED <<live, captured, offered>>
        /\ wasi' \in {wasi, [wasi EXCEPT !.given = @ \ {"preopen"}]}
    BY <1>6 DEF ClosePreopen
  <2>2. /\ live' \in 0..OpenDescriptors /\ live' = wasi'.files
        /\ wasi' \in [given : SUBSET Settings, files : 0..OpenDescriptors]
    BY <1>0, <2>1
  <2> QED  BY <2>1, <2>2, CallKeeps
<1> QED  BY <1>1, <1>2, <1>3, <1>4, <1>5, <1>6, WriteKeeps DEF Guest

-----------------------------------------------------------------------------

LEMMA BeginKeeps == ASSUME Inv, NEW t \in Threads, Begin(t) PROVE Inv'
<1>1. CASE LoadRefused(t)
  BY <1>1, RefusedKeeps DEF LoadRefused
<1> QED  BY <1>1, LoadKeeps, FreeKeeps, LockKeeps DEF Begin

LEMMA ContinueKeeps == ASSUME Inv, NEW t \in Threads, Continue(t) PROVE Inv'
<1>1. CASE RunAgain(t)
  BY <1>1, LookedKeeps DEF RunAgain
<1>2. ASSUME NEW what \in Settings, ConfigureRefused(t, what)
      PROVE  Inv'
  BY <1>2, SettingsApart, LookedKeeps DEF ConfigureRefused, Labels
<1>3. ASSUME NEW what \in Readers, Read(t, what)
      PROVE  Inv'
  BY <1>3, ReadersApart, LookedKeeps DEF Read
<1> QED  BY <1>1, <1>2, <1>3, LoadDoneKeeps, LoadFailsKeeps, RunKeeps, PanicKeeps,
            RunEndsKeeps, ConfigureKeeps, GuestStepKeeps DEF Continue

LEMMA StutterKeeps == ASSUME Inv, UNCHANGED vars PROVE Inv'
<1>1. TypeOK' /\ BudgetsHold'
  BY DEF Inv, vars, TypeOK, BudgetsHold
<1>2. Exclusive' /\ RunMarks' /\ Emptied'
  BY DEF Inv, vars, Exclusive, RunMarks, Emptied
<1> QED  BY <1>1, <1>2 DEF Inv

LEMMA NextInv == Inv /\ [Next]_vars => Inv'
  BY BeginKeeps, ContinueKeeps, StutterKeeps DEF Next

LEMMA Invariance == Spec => []Inv
  BY InitInv, NextInv, PTL DEF Spec

\* Type correctness of the sandbox and of the threads that use it (Wasi,
\* WasiInner): no count leaves its range.
THEOREM TypeCorrect == Spec => []TypeOK
<1>1. Inv => TypeOK
  BY DEF Inv
<1> QED  BY <1>1, Invariance, PTL

\* Whatever the guest does and whichever threads use its handle, descriptors,
\* output and host time stay within their budgets (ReadOnlyDir::open_file,
\* CappedStream::write_vectored, the call hook).
THEOREM Budgets == Spec => []BudgetsHold
<1>1. Inv => BudgetsHold
  BY DEF Inv
<1> QED  BY <1>1, Invariance, PTL

\* Once the one run is over, the instance holds no descriptor and no setting,
\* whatever was called meanwhile (Wasi::run).
THEOREM Released == Spec => []SpentIsReleased
<1>1. Inv => SpentIsReleased
  <2> SUFFICES ASSUME Inv, phase = "made", ran, lock = NoThread, ~poisoned
               PROVE  wasi = fresh_wasi /\ live = 0
    BY DEF SpentIsReleased
  <2>1. \A t \in Threads : pc[t] # "running"
    BY Constants DEF Inv, Exclusive
  <2> QED  BY <2>1 DEF Inv, Emptied
<1> QED  BY <1>1, Invariance, PTL

\* A step of any thread leaves the output and the fuel of a spent instance
\* alone, and starts no second run (WasiInner::not_run_yet, Wasi::run).
LEMMA SpentStep ==
    ASSUME Inv, [Next]_vars, phase = "made", ran, phase' = "made",
           \A t \in Threads : pc[t] # "running"
    PROVE  /\ ran' /\ UNCHANGED <<captured, fuel, spent>>
           /\ \A t \in Threads : pc'[t] # "running"
<1>0. pc \in [Threads -> Points] /\ \A t \in Threads : pc[t] # "start"
  BY DEF Inv, TypeOK, Points, Exclusive
<1>1. CASE UNCHANGED vars
  BY <1>1 DEF vars
<1>2. ASSUME NEW t \in Threads, Begin(t)
      PROVE  /\ ran' /\ UNCHANGED <<captured, fuel, spent>>
             /\ \A u \in Threads : pc'[u] # "running"
  <2>1. PICK what \in Settings \cup Readers \cup {"run"} : Lock(t, what)
    BY <1>2 DEF Begin, LoadRefused, Load, Free, Drop
  <2>2. what # "running"
    BY SettingsApart, ReadersApart DEF Labels
  <2> QED  BY <1>0, <2>1, <2>2 DEF Lock, Return, sandbox
<1>3. ASSUME NEW t \in Threads, Continue(t)
      PROVE  /\ ran' /\ UNCHANGED <<captured, fuel, spent>>
             /\ \A u \in Threads : pc'[u] # "running"
  <2>1. ~Guest(t)
    BY <1>0 DEF Guest, GuestComputes, NoWait, OpenFile, OpenFileFails, CloseFile,
                ClosePreopen, ReadOnly, ReadFile, WriteVectored, HostCall, InGuest
  <2>2. \/ RunAgain(t) \/ Panic(t)
        \/ \E what \in Settings : Configure(t, what) \/ ConfigureRefused(t, what)
        \/ \E what \in Readers : Read(t, what)
    BY <1>0, <1>3, <2>1 DEF Continue, LoadDone, LoadFails, Run, RunEnds
  <2>3. ran' = ran /\ UNCHANGED <<captured, fuel, spent>> /\ Return(t)
    BY <2>2 DEF RunAgain, Panic, Configure, ConfigureRefused, Read, Unlock, sandbox
  <2> QED  BY <1>0, <2>3 DEF Return
<1> QED  BY <1>1, <1>2, <1>3 DEF Next

\* A handle runs _start once: nothing called on a spent instance changes its
\* output, its fuel or its host time, or runs the guest again (WasiInner.ran).
THEOREM RunsOnce == Spec => SpentStaysSpent
<1>1. Inv /\ [Next]_vars =>
        [phase = "made" /\ ran /\ phase' = "made" /\ (\A t \in Threads : pc[t] # "running")
            => ran' /\ UNCHANGED <<captured, fuel, spent>>
                 /\ \A t \in Threads : pc'[t] # "running"]_vars
  BY SpentStep
<1> QED  BY <1>1, Invariance, PTL DEF Spec, SpentStaysSpent

=============================================================================
