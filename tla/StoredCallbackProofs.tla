------------------------- MODULE StoredCallbackProofs -------------------------
(***************************************************************************)
(* Proofs about StoredCallback, for any threads, mutexes in any state and  *)
(* any number of tokens, calls and levels of nesting.                      *)
(*                                                                         *)
(* The registry never gives an id twice (Numbered), and an entry of the    *)
(* table is the closure of the token that owns the id, a token that is     *)
(* neither unregistered nor finalized (Owned).  A frame is Good if the     *)
(* callback it carries is a token's own id and if an invocation that began *)
(* late began for a token that is dead; a dead token stays dead, so a Good *)
(* frame stays Good, and what its lookup finds is its own closure or none. *)
(* The last part is about the threads that wait for each other.            *)
(***************************************************************************)
EXTENDS StoredCallback, FiniteSetTheorems, SequenceTheorems, TLAPS

Holders == {"NOTIFIER", "wasm"}
Made == {k \in Tokens : token[k] # "new"}

\* A StoredCallback is none, or the id of a token.
CbOK(cb) ==
    \/ cb = NoCallback
    \/ cb.of \in Made /\ cb.id = id[cb.of]

Callbacks == [id : 0..MaxTokens, of : 0..MaxTokens]
Frames ==
    [at : {"lock", "join", "each", "closure", "guest", "invoke"},
     op : Ops \cup {"stored", "words", "borrowed"}, cb : Callbacks,
     runs : 0..MaxTokens, late : BOOLEAN, failed : BOOLEAN,
     holds : Mutexes \cup {"none"}, joins : Threads \cup {NoThread}]

Good ==
    {f \in Frames :
        /\ CbOK(f.cb)
        /\ f.at = "invoke" => f.cb.of \in Made /\ (f.late => Dead(f.cb.of))
        /\ f.at = "closure" => f.runs = f.cb.of /\ ~f.late}

RegistryOK ==
    /\ table \in [Tokens -> 0..MaxTokens] /\ nextId \in 0..MaxTokens
    /\ token \in [Tokens -> {"new", "held", "dropped", "finalized"}]
    /\ id \in [Tokens -> 0..MaxTokens] /\ registered \in [Tokens -> BOOLEAN]

Numbered ==
    /\ nextId = Cardinality(Made)
    /\ \A k \in Made : id[k] \in 1..nextId
    /\ \A k, l \in Made : id[k] = id[l] => k = l

Owned ==
    \A i \in Tokens : table[i] # 0 =>
        /\ table[i] \in Made /\ id[table[i]] = i
        /\ token[table[i]] # "finalized" /\ registered[table[i]]

Registry == RegistryOK /\ Numbered /\ Owned /\ HeldStaysRegistered

MutexesOK ==
    /\ mutex \in [Mutexes -> Threads \cup {NoThread}] /\ poisoned \subseteq Mutexes
    /\ calls \in 0..MaxCalls

StoredOK == stored \in [Holders -> Callbacks] /\ \A h \in Holders : CbOK(stored[h])

StacksOK ==
    /\ stack \in [Threads -> Seq(Good)]
    /\ \A t \in Threads : Len(stack[t]) <= MaxDepth

Inv == Registry /\ MutexesOK /\ StoredOK /\ StacksOK

-----------------------------------------------------------------------------

LEMMA Constants ==
    /\ MaxTokens \in Nat /\ MaxCalls \in Nat /\ MaxDepth \in Nat
    /\ MadeBefore \in 0..MaxTokens /\ NoThread \notin Threads
  BY StoredCallbackAssumption DEF Threads

LEMMA MadeFinite ==
    /\ IsFiniteSet(Tokens) /\ Cardinality(Tokens) = MaxTokens
    /\ IsFiniteSet(Made) /\ Cardinality(Made) \in Nat
<1>1. IsFiniteSet(Tokens) /\ Cardinality(Tokens) = MaxTokens
  BY FS_Interval, Constants DEF Tokens
<1>2. Made \subseteq Tokens
  BY DEF Made
<1> QED  BY <1>1, <1>2, FS_Subset, FS_CardinalityType

LEMMA InitInv == Init => Inv
<1> SUFFICES ASSUME Init PROVE Inv
  OBVIOUS
<1>0. 1..MadeBefore \subseteq Tokens /\ MadeBefore \in Nat /\ MadeBefore \in 0..MaxTokens
  BY Constants DEF Tokens
<1>1. /\ Made = 1..MadeBefore /\ nextId = MadeBefore
      /\ \A k \in Tokens :
            /\ table[k] = IF k \in Made THEN k ELSE 0
            /\ id[k] = IF k \in Made THEN k ELSE 0
            /\ token[k] = IF k \in Made THEN "held" ELSE "new"
            /\ registered[k] <=> k \in Made
  <2>1. Made = 1..MadeBefore
    BY <1>0 DEF Init, Made
  <2>2. \A k \in Tokens : registered[k] <=> k \in Made
    BY <2>1, Zenon DEF Init
  <2>3. /\ nextId = MadeBefore
        /\ table = [k \in Tokens |-> IF k \in 1..MadeBefore THEN k ELSE 0]
        /\ id = [k \in Tokens |-> IF k \in 1..MadeBefore THEN k ELSE 0]
        /\ token = [k \in Tokens |-> IF k \in 1..MadeBefore THEN "held" ELSE "new"]
    BY DEF Init
  <2> QED  BY <2>1, <2>2, <2>3
<1>2. RegistryOK
  <2>1. \A k \in Tokens : (IF k \in 1..MadeBefore THEN k ELSE 0) \in 0..MaxTokens
    BY Constants DEF Tokens
  <2>2. table \in [Tokens -> 0..MaxTokens] /\ id \in [Tokens -> 0..MaxTokens]
    BY <2>1 DEF Init
  <2> QED  BY <1>0, <2>2 DEF Init, RegistryOK
<1>3. Numbered
  <2>1. Cardinality(1..MadeBefore) = MadeBefore
    BY <1>0, FS_Interval
  <2> QED  BY <1>0, <1>1, <2>1 DEF Numbered
<1>4. Owned /\ HeldStaysRegistered
  <2>1. \A k \in Tokens : table[k] # 0 => k \in Made /\ table[k] = k /\ id[k] = k
    BY <1>1
  <2>2. \A k \in Made : k \in Tokens /\ token[k] = "held" /\ registered[k]
    BY <1>1 DEF Made
  <2>3. \A k \in Tokens : token[k] = "held" => id[k] = k /\ table[k] = k
    BY <1>1
  <2> QED  BY <2>1, <2>2, <2>3 DEF Owned, HeldStaysRegistered
<1>5. MutexesOK
  BY Constants DEF Init, MutexesOK
<1>6. StoredOK
  <2> SUFFICES ASSUME NEW h \in Holders PROVE stored[h] \in Callbacks /\ CbOK(stored[h])
    BY DEF Init, StoredOK, Holders
  <2>1. stored[h] \in {NoCallback} \cup {[id |-> k, of |-> k] : k \in 1..MadeBefore}
    BY DEF Init, Holders
  <2>2. CASE stored[h] = NoCallback
    BY <2>2, Constants DEF NoCallback, Callbacks, CbOK
  <2>3. CASE \E k \in 1..MadeBefore : stored[h] = [id |-> k, of |-> k]
    <3>1. PICK k \in 1..MadeBefore : stored[h] = [id |-> k, of |-> k]
      BY <2>3
    <3>2. stored[h].of = k /\ stored[h].id = k /\ k \in 0..MaxTokens
      BY <3>1, Constants
    <3>3. k \in Made /\ id[k] = k
      BY <1>0, <1>1
    <3>4. stored[h] \in Callbacks
      BY <3>1, <3>2 DEF Callbacks
    <3> QED  BY <3>2, <3>3, <3>4 DEF CbOK
  <2> QED  BY <2>1, <2>2, <2>3
<1>7. StacksOK
  <2>1. <<>> \in Seq(Good) /\ Len(<<>>) = 0
    BY EmptySeq
  <2> QED  BY <2>1, Constants DEF Init, StacksOK
<1> QED  BY <1>2, <1>3, <1>4, <1>5, <1>6, <1>7 DEF Inv, Registry

-----------------------------------------------------------------------------
(* Steps of the registry.                                                  *)

\* What the registry knows of a token only grows: made tokens stay made and
\* keep their ids, dead ones stay dead.  Then callbacks and frames stay valid.
LEMMA GoodStays ==
    ASSUME Inv, Made \subseteq Made', \A k \in Made : id'[k] = id[k],
           \A k \in Made : Dead(k) => Dead(k)',
           UNCHANGED <<stored, stack>>
    PROVE  StoredOK' /\ StacksOK'
<1>1. \A cb : CbOK(cb) => CbOK(cb)'
  BY DEF CbOK
<1>2. Good \subseteq Good'
  <2> SUFFICES ASSUME NEW f \in Good PROVE f \in Good'
    OBVIOUS
  <2>1. f \in Frames /\ CbOK(f.cb)'
    BY <1>1 DEF Good
  <2>2. f.at = "invoke" => f.cb.of \in Made' /\ (f.late => Dead(f.cb.of)')
    BY DEF Good
  <2>3. f.at = "closure" => f.runs = f.cb.of /\ ~f.late
    BY DEF Good
  <2> QED  BY <2>1, <2>2, <2>3 DEF Good
<1>3. \A s \in Seq(Good) : s \in Seq(Good')
  BY <1>2
<1>4. StacksOK'
  BY <1>3 DEF Inv, StacksOK
<1>5. StoredOK'
  BY <1>1 DEF Inv, StoredOK
<1> QED  BY <1>4, <1>5

LEMMA CallbackKeeps ==
    ASSUME Inv, NEW t \in Threads, NEW k \in Tokens, Callback(t, k)
    PROVE  Inv'
<1> DEFINE i == nextId + 1
<1>1. /\ token[k] = "new" /\ nextId' = i /\ calls < MaxCalls /\ calls' = calls + 1
      /\ table' = [table EXCEPT ![i] = k] /\ id' = [id EXCEPT ![k] = i]
      /\ token' = [token EXCEPT ![k] = "held"]
      /\ registered' = [registered EXCEPT ![k] = TRUE]
      /\ UNCHANGED <<stored, mutex, poisoned, stack>>
  BY DEF Callback, InLisp, Counted
<1>2. Made' = Made \cup {k} /\ k \notin Made
  BY <1>1 DEF Made, Inv, Registry, RegistryOK
<1>3. /\ IsFiniteSet(Made') /\ Cardinality(Made') = Cardinality(Made) + 1
      /\ Cardinality(Made') <= MaxTokens
  <2>1. IsFiniteSet(Made') /\ Cardinality(Made') = Cardinality(Made) + 1
    BY <1>2, MadeFinite, FS_AddElement
  <2>2. Made' \subseteq Tokens
    BY DEF Made
  <2> QED  BY <2>1, <2>2, MadeFinite, FS_Subset
<1>4. i \in Tokens /\ nextId \in Nat /\ nextId = Cardinality(Made)
  BY <1>3, MadeFinite, Constants DEF Inv, Registry, Numbered, Tokens
<1>5. RegistryOK'
  <2>1. nextId' \in 0..MaxTokens /\ k \in 0..MaxTokens /\ i \in 0..MaxTokens
    BY <1>1, <1>4 DEF Tokens
  <2>2. table' \in [Tokens -> 0..MaxTokens] /\ id' \in [Tokens -> 0..MaxTokens]
    BY <1>1, <2>1 DEF Inv, Registry, RegistryOK
  <2>3. token' \in [Tokens -> {"new", "held", "dropped", "finalized"}]
    BY <1>1 DEF Inv, Registry, RegistryOK
  <2>4. registered' \in [Tokens -> BOOLEAN]
    BY <1>1 DEF Inv, Registry, RegistryOK
  <2> QED  BY <2>1, <2>2, <2>3, <2>4 DEF RegistryOK
<1>6. /\ id'[k] = i /\ \A l \in Made : id'[l] = id[l] /\ id[l] \in 1..nextId
      /\ table'[i] = k /\ \A j \in Tokens : j # i => table'[j] = table[j]
      /\ registered'[k] /\ \A l \in Made : registered'[l] = registered[l]
      /\ token'[k] = "held" /\ \A l \in Made : token'[l] = token[l]
  BY <1>1, <1>2, <1>4 DEF Inv, Registry, RegistryOK, Numbered, Made
<1>7. Numbered'
  <2>1. nextId' = Cardinality(Made')
    BY <1>1, <1>3, <1>4
  <2>2. \A l \in Made' : id'[l] \in 1..nextId'
    BY <1>1, <1>2, <1>4, <1>6
  <2>3. \A l, m \in Made' : id'[l] = id'[m] => l = m
    BY <1>2, <1>4, <1>6 DEF Inv, Registry, Numbered
  <2> QED  BY <2>1, <2>2, <2>3 DEF Numbered
<1>8. Owned'
  <2> SUFFICES ASSUME NEW j \in Tokens, table'[j] # 0
               PROVE  /\ table'[j] \in Made' /\ id'[table'[j]] = j
                      /\ token'[table'[j]] # "finalized" /\ registered'[table'[j]]
    BY DEF Owned
  <2>1. CASE j = i
    BY <1>2, <1>6, <2>1
  <2>2. CASE j # i
    <3>1. /\ table'[j] = table[j] /\ table[j] \in Made /\ id[table[j]] = j
          /\ token[table[j]] # "finalized" /\ registered[table[j]]
      BY <1>6, <2>2 DEF Inv, Registry, Owned
    <3> QED  BY <1>2, <1>6, <3>1
  <2> QED  BY <2>1, <2>2
<1>9. HeldStaysRegistered'
  <2> SUFFICES ASSUME NEW l \in Tokens, token'[l] = "held", registered'[l]
               PROVE  table'[id'[l]] = l
    BY DEF HeldStaysRegistered
  <2>1. CASE l = k
    BY <1>6, <2>1
  <2>2. CASE l # k
    <3>1. l \in Made
      BY <1>1, <2>2 DEF Inv, Registry, RegistryOK, Made
    <3>2. id'[l] = id[l] /\ id[l] \in 1..nextId /\ token[l] = "held" /\ registered[l]
      BY <1>6, <3>1
    <3>3. id[l] # i /\ id[l] \in Tokens
      BY <1>4, <3>2, Constants DEF Tokens
    <3>4. table[id[l]] = l
      BY <3>2 DEF Inv, Registry, HeldStaysRegistered
    <3> QED  BY <1>6, <3>2, <3>3, <3>4
  <2> QED  BY <2>1, <2>2
<1>10. MutexesOK'
  BY <1>1, Constants DEF Inv, MutexesOK
<1>11. StoredOK' /\ StacksOK'
  <2>1. \A l \in Made : Dead(l) => Dead(l)'
    BY <1>6 DEF Dead
  <2> QED  BY <1>1, <1>2, <1>6, <2>1, GoodStays
<1> QED  BY <1>5, <1>7, <1>8, <1>9, <1>10, <1>11 DEF Inv, Registry

\* The entry of a token is removed, once the token is dead for good.
LEMMA RemoveKeeps ==
    ASSUME Inv, NEW k \in Made,
           table' = [table EXCEPT ![id[k]] = 0],
           UNCHANGED <<nextId, id, stored, mutex, poisoned, stack>>,
           calls' \in 0..MaxCalls,
           token' \in [Tokens -> {"new", "held", "dropped", "finalized"}],
           registered' \in [Tokens -> BOOLEAN],
           \A l \in Tokens \ {k} : token'[l] = token[l] /\ registered'[l] = registered[l],
           token'[k] # "new", token'[k] = "finalized" \/ ~registered'[k],
           ~(token'[k] = "held" /\ registered'[k])
    PROVE  Inv'
<1>1. Made' = Made
  BY DEF Made
<1>2. id[k] \in Tokens /\ k \in Tokens
  BY DEF Inv, Registry, RegistryOK, Numbered, Tokens, Made
<1>3. /\ table'[id[k]] = 0
      /\ \A j \in Tokens : j # id[k] => table'[j] = table[j]
  BY <1>2 DEF Inv, Registry, RegistryOK
<1>4. RegistryOK'
  <2>1. 0 \in 0..MaxTokens /\ table \in [Tokens -> 0..MaxTokens]
    BY Constants DEF Inv, Registry, RegistryOK
  <2>2. table' \in [Tokens -> 0..MaxTokens]
    BY <2>1
  <2> QED  BY <2>2 DEF Inv, Registry, RegistryOK
<1>5. Numbered'
  BY <1>1 DEF Inv, Registry, Numbered
<1>6. Owned'
  <2> SUFFICES ASSUME NEW j \in Tokens, table'[j] # 0
               PROVE  /\ table'[j] \in Made' /\ id'[table'[j]] = j
                      /\ token'[table'[j]] # "finalized" /\ registered'[table'[j]]
    BY DEF Owned
  <2>1. /\ j # id[k] /\ table'[j] = table[j] /\ table[j] \in Made /\ id[table[j]] = j
        /\ token[table[j]] # "finalized" /\ registered[table[j]]
    BY <1>3 DEF Inv, Registry, Owned
  <2>2. table[j] # k /\ table[j] \in Tokens
    BY <2>1 DEF Made
  <2> QED  BY <1>1, <2>1, <2>2
<1>7. HeldStaysRegistered'
  <2> SUFFICES ASSUME NEW l \in Tokens, token'[l] = "held", registered'[l]
               PROVE  table'[id'[l]] = l
    BY DEF HeldStaysRegistered
  <2>1. l # k
    OBVIOUS
  <2>2. token[l] = "held" /\ registered[l] /\ l \in Made
    BY <2>1 DEF Made
  <2>3. table[id[l]] = l /\ id[l] # id[k] /\ id[l] \in Tokens
    BY <2>1, <2>2 DEF Inv, Registry, HeldStaysRegistered, Numbered, RegistryOK, Tokens
  <2> QED  BY <1>3, <2>3
<1>8. MutexesOK'
  BY DEF Inv, MutexesOK
<1>9. StoredOK' /\ StacksOK'
  <2>1. \A l \in Made : Dead(l) => Dead(l)'
    BY DEF Dead, Made
  <2> QED  BY <1>1, <2>1, GoodStays
<1> QED  BY <1>4, <1>5, <1>6, <1>7, <1>8, <1>9 DEF Inv, Registry

LEMMA UnregisterKeeps ==
    ASSUME Inv, NEW t \in Threads, NEW k \in Tokens, Unregister(t, k)
    PROVE  Inv'
<1>1. /\ token[k] = "held" /\ calls < MaxCalls /\ calls' = calls + 1
      /\ table' = [table EXCEPT ![id[k]] = 0]
      /\ registered' = [registered EXCEPT ![k] = FALSE]
      /\ UNCHANGED <<nextId, token, id, stored, mutex, poisoned, stack>>
  BY DEF Unregister, InLisp, Counted
<1>2. k \in Made /\ calls' \in 0..MaxCalls
  BY <1>1, Constants DEF Made, Inv, MutexesOK
<1>3. /\ registered' \in [Tokens -> BOOLEAN] /\ ~registered'[k]
      /\ \A l \in Tokens \ {k} : registered'[l] = registered[l]
  BY <1>1 DEF Inv, Registry, RegistryOK
<1> QED  BY <1>1, <1>2, <1>3, RemoveKeeps DEF Inv, Registry, RegistryOK

LEMMA FinalizeKeeps ==
    ASSUME Inv, NEW k \in Tokens, Finalize(k)
    PROVE  Inv'
<1>1. /\ token[k] = "dropped" /\ token' = [token EXCEPT ![k] = "finalized"]
      /\ table' = [table EXCEPT ![id[k]] = 0]
      /\ UNCHANGED <<nextId, id, registered, stored, mutex, poisoned, stack, calls>>
  BY DEF Finalize
<1>2. k \in Made /\ calls' \in 0..MaxCalls
  BY <1>1 DEF Made, Inv, MutexesOK
<1>3. /\ token' \in [Tokens -> {"new", "held", "dropped", "finalized"}]
      /\ token'[k] = "finalized"
      /\ \A l \in Tokens \ {k} : token'[l] = token[l]
  BY <1>1 DEF Inv, Registry, RegistryOK
<1> QED  BY <1>1, <1>2, <1>3, RemoveKeeps DEF Inv, Registry, RegistryOK

LEMMA DropTokenKeeps ==
    ASSUME Inv, NEW k \in Tokens, DropToken(k)
    PROVE  Inv'
<1>1. /\ token[k] = "held" /\ token' = [token EXCEPT ![k] = "dropped"]
      /\ UNCHANGED <<table, nextId, id, registered, stored, mutex, poisoned, stack, calls>>
  BY DEF DropToken
<1>2. /\ token' \in [Tokens -> {"new", "held", "dropped", "finalized"}]
      /\ token'[k] = "dropped"
      /\ \A l \in Tokens \ {k} : token'[l] = token[l]
  BY <1>1 DEF Inv, Registry, RegistryOK
<1>3. Made' = Made
  BY <1>1, <1>2 DEF Made
<1>4. RegistryOK'
  BY <1>1, <1>2 DEF Inv, Registry, RegistryOK
<1>5. Numbered'
  BY <1>1, <1>3 DEF Inv, Registry, Numbered
<1>6. \A l \in Tokens : token'[l] = "finalized" <=> token[l] = "finalized"
  BY <1>1, <1>2
<1>7. Owned'
  <2>1. Made \subseteq Tokens
    BY DEF Made
  <2> QED  BY <1>1, <1>3, <1>6, <2>1 DEF Inv, Registry, Owned
<1>8. HeldStaysRegistered'
  BY <1>1, <1>2 DEF Inv, Registry, HeldStaysRegistered
<1>9. MutexesOK'
  BY <1>1 DEF Inv, MutexesOK
<1>10. StoredOK' /\ StacksOK'
  <2>1. \A l \in Made : Dead(l) => Dead(l)'
    BY <1>1, <1>6 DEF Dead, Made
  <2> QED  BY <1>1, <1>3, <2>1, GoodStays
<1> QED  BY <1>4, <1>5, <1>7, <1>8, <1>9, <1>10 DEF Inv, Registry

-----------------------------------------------------------------------------
(* Steps of the calls, which leave the registry alone.                     *)

LEMMA RegistryStays ==
    ASSUME Inv, UNCHANGED registry
    PROVE  /\ Registry' /\ Made' = Made /\ Good' = Good
           /\ \A cb : CbOK(cb)' <=> CbOK(cb)
<1>1. UNCHANGED <<table, nextId, token, id, registered>>
  BY DEF registry
<1>2. Made' = Made
  BY <1>1 DEF Made
<1>3. \A cb : CbOK(cb)' <=> CbOK(cb)
  BY <1>1, <1>2 DEF CbOK
<1>4. Good' = Good
  BY <1>1, <1>2, <1>3 DEF Good, Dead
<1>5. RegistryOK' /\ Numbered'
  BY <1>1, <1>2 DEF Inv, Registry, RegistryOK, Numbered
<1>6. Owned' /\ HeldStaysRegistered'
  BY <1>1, <1>2 DEF Inv, Registry, Owned, HeldStaysRegistered
<1> QED  BY <1>2, <1>3, <1>4, <1>5, <1>6 DEF Registry

\* A thread's stack is replaced by one of Good frames.
LEMMA StackKeeps ==
    ASSUME Inv, UNCHANGED <<registry, stored>>, MutexesOK',
           NEW t \in Threads, NEW s \in Seq(Good), Len(s) <= MaxDepth,
           stack' = [stack EXCEPT ![t] = s]
    PROVE  Inv'
<1>1. /\ Registry' /\ Made' = Made /\ Good' = Good
      /\ \A cb : CbOK(cb)' <=> CbOK(cb)
  BY RegistryStays
<1>2. StacksOK'
  <2>1. stack' \in [Threads -> Seq(Good)]
    BY DEF Inv, StacksOK
  <2>2. \A u \in Threads : Len(stack'[u]) <= MaxDepth
    BY DEF Inv, StacksOK
  <2> QED  BY <1>1, <2>1, <2>2 DEF StacksOK
<1>3. StoredOK'
  BY <1>1 DEF Inv, StoredOK
<1> QED  BY <1>1, <1>2, <1>3 DEF Inv

\* The frames under the innermost one.
LEMMA TopFacts ==
    ASSUME Inv, NEW t \in Threads, stack[t] # <<>>
    PROVE  /\ stack[t] \in Seq(Good) /\ Len(stack[t]) \in Nat
           /\ Len(stack[t]) <= MaxDepth /\ MaxDepth \in Nat
           /\ Top(t) \in Good /\ Tail(stack[t]) \in Seq(Good)
           /\ Len(Tail(stack[t])) = Len(stack[t]) - 1
<1>1. stack[t] \in Seq(Good) /\ Len(stack[t]) <= MaxDepth /\ MaxDepth \in Nat
  BY Constants DEF Inv, StacksOK
<1>2. Len(stack[t]) \in Nat
  BY <1>1, LenProperties
<1> QED  BY <1>1, <1>2, HeadTailProperties DEF Top

\* A frame is put on a stack of Good frames.
LEMMA ConsKeeps ==
    ASSUME Inv, NEW f \in Good, NEW s \in Seq(Good)
    PROVE  <<f>> \o s \in Seq(Good) /\ Len(<<f>> \o s) = Len(s) + 1
<1>1. <<f>> \in Seq(Good) /\ Len(<<f>>) = 1
  OBVIOUS
<1> QED  BY <1>1, ConcatProperties

LEMMA PopKeeps ==
    ASSUME Inv, UNCHANGED <<registry, stored>>, MutexesOK',
           NEW t \in Threads, stack[t] # <<>>, Pop(t)
    PROVE  Inv'
<1>1. /\ Tail(stack[t]) \in Seq(Good) /\ Len(Tail(stack[t])) <= MaxDepth
      /\ stack' = [stack EXCEPT ![t] = Tail(stack[t])]
  BY TopFacts DEF Pop
<1> QED  BY <1>1, StackKeeps

LEMMA BecomeKeeps ==
    ASSUME Inv, UNCHANGED <<registry, stored>>, MutexesOK',
           NEW t \in Threads, stack[t] # <<>>, NEW f \in Good, Become(t, f)
    PROVE  Inv'
<1>1. /\ Tail(stack[t]) \in Seq(Good)
      /\ Len(stack[t]) \in Nat /\ Len(stack[t]) <= MaxDepth
      /\ Len(Tail(stack[t])) = Len(stack[t]) - 1
      /\ stack' = [stack EXCEPT ![t] = <<f>> \o Tail(stack[t])]
  BY TopFacts DEF Become
<1>2. /\ <<f>> \o Tail(stack[t]) \in Seq(Good)
      /\ Len(<<f>> \o Tail(stack[t])) = Len(Tail(stack[t])) + 1
  BY <1>1, ConsKeeps
<1>3. Len(<<f>> \o Tail(stack[t])) <= MaxDepth
  BY <1>1, <1>2, Constants
<1> QED  BY <1>1, <1>2, <1>3, StackKeeps

LEMMA PushKeeps ==
    ASSUME Inv, UNCHANGED <<registry, stored>>, MutexesOK',
           NEW t \in Threads, Len(stack[t]) < MaxDepth, NEW f \in Good, Push(t, f)
    PROVE  Inv'
<1>1. /\ stack[t] \in Seq(Good)
      /\ stack' = [stack EXCEPT ![t] = <<f>> \o stack[t]]
  BY DEF Push, Inv, StacksOK
<1>2. /\ <<f>> \o stack[t] \in Seq(Good)
      /\ Len(<<f>> \o stack[t]) = Len(stack[t]) + 1 /\ Len(stack[t]) \in Nat
  BY <1>1, ConsKeeps, LenProperties
<1>3. Len(<<f>> \o stack[t]) <= MaxDepth
  BY <1>1, <1>2, Constants
<1> QED  BY <1>1, <1>2, <1>3, StackKeeps

\* A callback that answers changes at most whether its caller has seen a
\* failure.
LEMMA AnswerKeeps ==
    ASSUME Inv, UNCHANGED <<registry, stored, mutex, poisoned, calls>>,
           NEW t \in Threads, stack[t] # <<>>, NEW failed \in BOOLEAN, Answer(t, failed)
    PROVE  Inv'
<1> DEFINE rest == Tail(stack[t])
           new == IF rest = <<>> THEN <<>>
                  ELSE <<[Head(rest) EXCEPT !.failed = @ \/ failed]>> \o Tail(rest)
<1>1. /\ rest \in Seq(Good) /\ Len(rest) \in Nat /\ Len(rest) <= MaxDepth
      /\ stack' = [stack EXCEPT ![t] = new] /\ MutexesOK'
  <2>1. /\ rest \in Seq(Good) /\ Len(rest) = Len(stack[t]) - 1
        /\ Len(stack[t]) \in Nat /\ Len(stack[t]) <= MaxDepth /\ MaxDepth \in Nat
    BY TopFacts
  <2>2. Len(rest) \in Nat
    BY <2>1, LenProperties
  <2>3. MutexesOK'
    BY DEF Inv, MutexesOK
  <2> QED  BY <2>1, <2>2, <2>3 DEF Answer
<1>2. CASE rest = <<>>
  BY <1>1, <1>2, StackKeeps, EmptySeq, Constants
<1>3. CASE rest # <<>>
  <2>1. /\ Head(rest) \in Good /\ Tail(rest) \in Seq(Good)
        /\ Len(Tail(rest)) = Len(rest) - 1
    BY <1>1, <1>3, HeadTailProperties
  <2>2. ASSUME NEW f \in Good
        PROVE  [f EXCEPT !.failed = @ \/ failed] \in Good
    <3> DEFINE g == [f EXCEPT !.failed = @ \/ failed]
    <3>1. f \in Frames
      BY DEF Good
    <3>2. (f.failed \/ failed) \in BOOLEAN
      OBVIOUS
    <3>3. /\ g \in Frames /\ g.at = f.at /\ g.cb = f.cb /\ g.runs = f.runs
          /\ g.late = f.late
      BY <3>1, <3>2 DEF Frames
    <3> HIDE DEF g
    <3>4. g \in Good
      BY <3>1, <3>3 DEF Good
    <3> QED  BY <3>4 DEF g
  <2>3. [Head(rest) EXCEPT !.failed = @ \/ failed] \in Good
    BY <2>1, <2>2
  <2>4. new \in Seq(Good) /\ Len(new) = Len(Tail(rest)) + 1
    BY <1>3, <2>1, <2>3, ConsKeeps
  <2>5. Len(new) <= MaxDepth
    BY <1>1, <2>1, <2>4, Constants
  <2> HIDE DEF new
  <2> QED  BY <1>1, <2>4, <2>5, StackKeeps
<1> QED  BY <1>2, <1>3

-----------------------------------------------------------------------------
(* The frames that the exports push.                                       *)

\* A frame that neither invokes nor runs a closure.
LEMMA PlainFrame ==
    ASSUME Inv, NEW at \in {"lock", "join", "each", "guest"},
           NEW op \in Ops \cup {"words"}, NEW cb \in Callbacks, CbOK(cb)
    PROVE  Frame(at, op, cb) \in Good
<1> DEFINE f == Frame(at, op, cb)
<1>1. f.at = at /\ f.cb = cb
  BY DEF Frame
<1>2. f \in Frames
  BY Constants DEF Frame, Frames
<1> QED  BY <1>1, <1>2 DEF Good

LEMMA NoCallbackOK == NoCallback \in Callbacks /\ CbOK(NoCallback)
  BY Constants DEF NoCallback, Callbacks, CbOK

\* A StoredCallback that Rust holds and is not empty.
LEMMA StoredFacts ==
    ASSUME Inv, NEW h \in Holders
    PROVE  /\ stored[h] \in Callbacks /\ CbOK(stored[h])
           /\ stored[h] # NoCallback => stored[h].of \in Made
  BY DEF Inv, StoredOK, CbOK

LEMMA InvocationFrame ==
    ASSUME Inv, NEW cb \in Callbacks, CbOK(cb), cb # NoCallback
    PROVE  Invocation(cb) \in Good
<1> DEFINE f == Frame("invoke", "stored", cb)
           g == Invocation(cb)
<1>1. cb.of \in Made /\ cb.of \in Tokens
  BY DEF CbOK, Made
<1>2. Dead(cb.of) \in BOOLEAN
  BY DEF Dead
<1>3. f \in Frames /\ f.at = "invoke" /\ f.cb = cb
  BY Constants DEF Frame, Frames
<1>4. g = [f EXCEPT !.late = Dead(cb.of)]
  BY DEF Invocation
<1> HIDE DEF f, g
<1>5. g \in Frames /\ g.at = "invoke" /\ g.cb = cb /\ (g.late <=> Dead(cb.of))
  BY <1>2, <1>3, <1>4 DEF Frames
<1>6. g \in Good
  BY <1>1, <1>5 DEF Good
<1> QED  BY <1>6 DEF g

\* What a lookup finds for a frame's id is the closure of its own token, and
\* the token is alive.
LEMMA LookupFindsOwn ==
    ASSUME Inv, NEW k \in Made, table[id[k]] # 0
    PROVE  table[id[k]] = k /\ ~Dead(k)
<1>1. id[k] \in Tokens
  <2>1. id[k] \in 1..nextId /\ nextId \in 0..MaxTokens
    BY DEF Inv, Registry, RegistryOK, Numbered
  <2> QED  BY <2>1, Constants DEF Tokens
<1>2. /\ table[id[k]] \in Made /\ id[table[id[k]]] = id[k]
      /\ token[table[id[k]]] # "finalized" /\ registered[table[id[k]]]
  BY <1>1 DEF Inv, Registry, Owned
<1>3. table[id[k]] = k
  BY <1>2 DEF Inv, Registry, Numbered
<1> QED  BY <1>2, <1>3 DEF Dead

-----------------------------------------------------------------------------
(* The actions of a thread.                                                *)

LEMMA SameMutexes == ASSUME Inv, UNCHANGED <<mutex, poisoned, calls>> PROVE MutexesOK'
  BY DEF Inv, MutexesOK

LEMMA CountedMutexes ==
    ASSUME Inv, UNCHANGED <<mutex, poisoned>>, calls < MaxCalls, Counted
    PROVE  MutexesOK'
  BY Constants DEF Inv, MutexesOK, Counted

LEMMA BeginKeeps ==
    ASSUME Inv, NEW t \in Threads, NEW op \in Ops, NEW k \in Tokens, Begin(t, op, k)
    PROVE  Inv'
<1>1. /\ Len(stack[t]) < MaxDepth /\ UNCHANGED <<registry, stored>> /\ MutexesOK'
  BY CountedMutexes DEF Begin, InLisp
<1>2. CASE op \in {"set_notifier", "on_notify"}
  <2> DEFINE cb == [id |-> id[k], of |-> k]
  <2>1. token[k] = "held" /\ Push(t, Frame("lock", op, cb))
    BY <1>2 DEF Begin
  <2>2. k \in Made
    BY <2>1 DEF Made
  <2>3. cb \in Callbacks /\ cb.of = k /\ cb.id = id[k]
    BY DEF Callbacks, Inv, Registry, RegistryOK, Tokens
  <2>4. CbOK(cb)
    BY <2>2, <2>3 DEF CbOK
  <2> HIDE DEF cb
  <2>5. Frame("lock", op, cb) \in Good
    BY <2>3, <2>4, PlainFrame
  <2> QED  BY <1>1, <2>1, <2>5, PushKeeps
<1>3. CASE op \notin {"set_notifier", "on_notify"}
  <2>1. Push(t, Frame("lock", op, NoCallback))
    BY <1>3 DEF Begin
  <2>2. Frame("lock", op, NoCallback) \in Good
    BY NoCallbackOK, PlainFrame
  <2> QED  BY <1>1, <2>1, <2>2, PushKeeps
<1> QED  BY <1>2, <1>3

\* Steps that only end the innermost call.
LEMMA EndingKeeps ==
    ASSUME Inv, NEW t \in Threads,
           LockPanics(t) \/ Touch(t) \/ TouchInstance(t) \/ Join(t)
    PROVE  Inv'
<1>1. stack[t] # <<>> /\ Pop(t) /\ UNCHANGED <<registry, stored, mutex, poisoned, calls>>
  BY DEF LockPanics, Touch, TouchInstance, Join, Locks, At
<1> QED  BY <1>1, PopKeeps, SameMutexes

LEMMA PoisonKeeps == ASSUME Inv, NEW t \in Threads, Poison(t) PROVE Inv'
<1>1. /\ stack[t] # <<>> /\ Pop(t) /\ poisoned' = poisoned \cup {"words"}
      /\ UNCHANGED <<registry, stored, mutex, calls>>
  BY DEF Poison, Locks, At
<1>2. MutexesOK'
  BY <1>1 DEF Inv, MutexesOK, Mutexes
<1> QED  BY <1>1, <1>2, PopKeeps

LEMMA StoreKeeps == ASSUME Inv, NEW t \in Threads, Store(t) PROVE Inv'
<1> DEFINE h == MutexOf(Top(t).op)
           cb == Top(t).cb
<1>1. /\ stack[t] # <<>> /\ Pop(t)
      /\ Top(t).op \in {"set_notifier", "clear_notifier", "on_notify"}
      /\ stored' = [stored EXCEPT ![h] = cb]
      /\ UNCHANGED <<registry, mutex, poisoned, calls>>
  BY DEF Store, Locks, At
<1>2. h \in Holders
  BY <1>1 DEF MutexOf, WasmOps, Holders
<1>3. cb \in Callbacks /\ CbOK(cb)
  BY <1>1, TopFacts DEF Good, Frames
<1> HIDE DEF h, cb
<1>4. /\ Registry' /\ Good' = Good /\ \A c : CbOK(c)' <=> CbOK(c)
  BY <1>1, RegistryStays
<1>5. StoredOK'
  <2>1. stored' \in [Holders -> Callbacks]
    BY <1>1, <1>3 DEF Inv, StoredOK
  <2>2. \A g \in Holders : CbOK(stored'[g])
    BY <1>1, <1>3 DEF Inv, StoredOK
  <2> QED  BY <1>4, <2>1, <2>2 DEF StoredOK
<1>6. StacksOK'
  <2>1. /\ Tail(stack[t]) \in Seq(Good) /\ Len(Tail(stack[t])) <= MaxDepth
        /\ stack' = [stack EXCEPT ![t] = Tail(stack[t])]
    BY <1>1, TopFacts DEF Pop
  <2>2. stack' \in [Threads -> Seq(Good)]
    BY <2>1 DEF Inv, StacksOK
  <2>3. \A u \in Threads : Len(stack'[u]) <= MaxDepth
    BY <2>1 DEF Inv, StacksOK
  <2> QED  BY <1>4, <2>2, <2>3 DEF StacksOK
<1> QED  BY <1>1, <1>4, <1>5, <1>6, SameMutexes DEF Inv

LEMMA NotifyKeeps == ASSUME Inv, NEW t \in Threads, Notify(t) PROVE Inv'
<1>1. /\ stack[t] # <<>> /\ UNCHANGED <<registry, stored, mutex, poisoned, calls>>
      /\ MutexesOK'
  BY SameMutexes DEF Notify, Locks, At
<1>2. CASE stored["NOTIFIER"] = NoCallback
  BY <1>1, <1>2, PopKeeps DEF Notify
<1>3. CASE stored["NOTIFIER"] # NoCallback
  <2>1. Invocation(stored["NOTIFIER"]) \in Good
    BY <1>3, StoredFacts, InvocationFrame DEF Holders
  <2> QED  BY <1>1, <1>3, <2>1, BecomeKeeps DEF Notify
<1> QED  BY <1>2, <1>3

LEMMA NotifyFromThreadKeeps ==
    ASSUME Inv, NEW t \in Threads, NotifyFromThread(t)
    PROVE  Inv'
<1>1. /\ stack[t] # <<>> /\ UNCHANGED <<registry, stored, mutex, poisoned, calls>>
      /\ MutexesOK'
  BY SameMutexes DEF NotifyFromThread, Locks, At
<1>2. CASE stored["NOTIFIER"] = NoCallback
  BY <1>1, <1>2, PopKeeps DEF NotifyFromThread
<1>3. CASE stored["NOTIFIER"] # NoCallback
  <2> DEFINE i == Invocation(stored["NOTIFIER"])
  <2>1. PICK w \in Workers :
            /\ stack[w] = <<>>
            /\ stack' = [stack EXCEPT
                   ![w] = <<i>>,
                   ![t] = <<[Top(t) EXCEPT !.at = "join", !.joins = w]>> \o Tail(@)]
    BY <1>3 DEF NotifyFromThread
  <2> DEFINE f == [Top(t) EXCEPT !.at = "join", !.joins = w]
             s == <<f>> \o Tail(stack[t])
  <2>2. w \in Threads /\ w # t
    BY <1>1, <2>1 DEF Threads
  <2>3. i \in Good
    BY <1>3, StoredFacts, InvocationFrame DEF Holders
  <2>4. /\ Top(t) \in Good /\ Tail(stack[t]) \in Seq(Good)
        /\ Len(Tail(stack[t])) = Len(stack[t]) - 1 /\ Len(stack[t]) \in Nat
        /\ Len(stack[t]) <= MaxDepth /\ MaxDepth \in Nat
    BY <1>1, TopFacts
  <2>5. f \in Good
    <3>1. Top(t) \in Frames /\ CbOK(Top(t).cb)
      BY <2>4 DEF Good
    <3>2. f \in Frames /\ f.at = "join" /\ f.cb = Top(t).cb
      BY <2>2, <3>1 DEF Frames
    <3> QED  BY <3>1, <3>2 DEF Good
  <2>6. /\ s \in Seq(Good) /\ Len(s) = Len(stack[t])
        /\ <<i>> \in Seq(Good) /\ Len(<<i>>) = 1
    <3> HIDE DEF i, f
    <3>1. s \in Seq(Good) /\ Len(s) = Len(Tail(stack[t])) + 1
      BY <2>4, <2>5, ConsKeeps
    <3>2. Len(s) = Len(stack[t])
      BY <2>4, <3>1
    <3>3. <<i>> \in Seq(Good) /\ Len(<<i>>) = 1
      BY <2>3
    <3> QED  BY <3>1, <3>2, <3>3
  <2>7. stack' = [[stack EXCEPT ![w] = <<i>>] EXCEPT ![t] = s]
    BY <2>1, <2>2 DEF Inv, StacksOK
  <2>8. 1 <= MaxDepth
    <3>1. Len(stack[t]) # 0
      BY <1>1, EmptySeq DEF Inv, StacksOK
    <3> QED  BY <2>4, <3>1
  <2> HIDE DEF i, f, s
  <2>9. Good' = Good /\ Registry' /\ \A cb : CbOK(cb)' <=> CbOK(cb)
    BY <1>1, RegistryStays
  <2>10. StacksOK'
    <3>1. stack' \in [Threads -> Seq(Good)]
      BY <2>6, <2>7 DEF Inv, StacksOK
    <3>2. \A u \in Threads : Len(stack'[u]) <= MaxDepth
      BY <2>2, <2>4, <2>6, <2>7, <2>8 DEF Inv, StacksOK
    <3> QED  BY <2>9, <3>1, <3>2 DEF StacksOK
  <2>11. StoredOK'
    BY <1>1, <2>9 DEF Inv, StoredOK
  <2> QED  BY <1>1, <2>9, <2>10, <2>11 DEF Inv
<1> QED  BY <1>2, <1>3

LEMMA ForEachWordKeeps == ASSUME Inv, NEW t \in Threads, ForEachWord(t) PROVE Inv'
<1>1. /\ stack[t] # <<>> /\ Become(t, Frame("each", "words", NoCallback))
      /\ UNCHANGED <<registry, stored, mutex, poisoned, calls>>
  BY DEF ForEachWord, Locks, At
<1>2. Frame("each", "words", NoCallback) \in Good
  BY NoCallbackOK, PlainFrame
<1> QED  BY <1>1, <1>2, BecomeKeeps, SameMutexes

LEMMA NextWordKeeps == ASSUME Inv, NEW t \in Threads, NextWord(t) PROVE Inv'
<1> DEFINE f == Frame("closure", "borrowed", NoCallback)
<1>1. /\ Len(stack[t]) < MaxDepth /\ Push(t, f)
      /\ UNCHANGED <<registry, stored>> /\ MutexesOK'
  BY CountedMutexes DEF NextWord
<1>2. /\ f \in Frames /\ f.at = "closure" /\ f.cb = NoCallback /\ f.runs = 0
      /\ f.late = FALSE
  BY NoCallbackOK, Constants DEF Frame, Frames
<1> HIDE DEF f
<1>3. f \in Good
  BY <1>2, NoCallbackOK DEF Good, NoCallback
<1> QED  BY <1>1, <1>3, PushKeeps

LEMMA WasmCallKeeps == ASSUME Inv, NEW t \in Threads, WasmCall(t) PROVE Inv'
<1> DEFINE f == Frame("guest", "call", NoCallback)
           g == [f EXCEPT !.holds = "wasm"]
<1>1. /\ stack[t] # <<>> /\ mutex' = [mutex EXCEPT !["wasm"] = t] /\ Become(t, g)
      /\ UNCHANGED <<registry, stored, poisoned, calls>>
  BY DEF WasmCall, Locks, At
<1>2. MutexesOK'
  BY <1>1 DEF Inv, MutexesOK
<1>3. f \in Frames /\ f.at = "guest" /\ f.cb = NoCallback
  BY NoCallbackOK, Constants DEF Frame, Frames, Ops, WasmOps
<1> HIDE DEF f
<1>4. g \in Frames /\ g.at = "guest" /\ g.cb = NoCallback
  BY <1>3 DEF Frames, Mutexes
<1> HIDE DEF g
<1>5. g \in Good
  BY <1>4, NoCallbackOK DEF Good
<1> QED  BY <1>1, <1>2, <1>5, BecomeKeeps

LEMMA HostNotifyKeeps == ASSUME Inv, NEW t \in Threads, HostNotify(t) PROVE Inv'
<1>1. /\ stack[t] # <<>> /\ Len(stack[t]) < MaxDepth /\ Top(t).at = "guest"
      /\ UNCHANGED <<registry, stored>> /\ MutexesOK'
  BY CountedMutexes DEF HostNotify, At
<1>2. CASE stored["wasm"] = NoCallback
  <2> DEFINE g == [Top(t) EXCEPT !.failed = TRUE]
  <2>1. Become(t, g)
    BY <1>2 DEF HostNotify
  <2>2. Top(t) \in Frames /\ CbOK(Top(t).cb)
    BY <1>1, TopFacts DEF Good
  <2>3. g \in Frames /\ g.at = "guest" /\ g.cb = Top(t).cb
    BY <1>1, <2>2 DEF Frames
  <2> HIDE DEF g
  <2>4. g \in Good
    BY <2>2, <2>3 DEF Good
  <2> QED  BY <1>1, <2>1, <2>4, BecomeKeeps
<1>3. CASE stored["wasm"] # NoCallback
  <2>1. Invocation(stored["wasm"]) \in Good
    BY <1>3, StoredFacts, InvocationFrame DEF Holders
  <2> QED  BY <1>1, <1>3, <2>1, PushKeeps DEF HostNotify
<1> QED  BY <1>2, <1>3

LEMMA ReturnFromKeeps == ASSUME Inv, NEW t \in Threads, ReturnFrom(t) PROVE Inv'
<1>1. /\ stack[t] # <<>> /\ Pop(t) /\ UNCHANGED <<registry, stored, poisoned, calls>>
      /\ mutex' = [m \in Mutexes |-> IF m = Top(t).holds THEN NoThread ELSE mutex[m]]
  BY DEF ReturnFrom, At
<1>2. MutexesOK'
  BY <1>1 DEF Inv, MutexesOK
<1> QED  BY <1>1, <1>2, PopKeeps

LEMMA LookupKeeps ==
    ASSUME Inv, NEW t \in Threads, LookupFound(t) \/ LookupDead(t)
    PROVE  Inv'
<1>1. CASE LookupDead(t)
  BY <1>1, AnswerKeeps DEF LookupDead, At
<1>2. CASE LookupFound(t)
  <2> DEFINE f == Top(t)
             n == table[Top(t).cb.id]
             g == [Top(t) EXCEPT !.at = "closure", !.runs = n]
  <2>1. /\ stack[t] # <<>> /\ f.at = "invoke" /\ n # 0 /\ Become(t, g)
        /\ UNCHANGED <<registry, stored, mutex, poisoned, calls>>
    BY <1>2 DEF LookupFound, At
  <2>2. /\ f \in Good /\ f \in Frames /\ CbOK(f.cb) /\ f.cb.of \in Made
        /\ f.late => Dead(f.cb.of)
    BY <2>1, TopFacts DEF Good
  <2>3. f.cb.id = id[f.cb.of]
    <3>1. f.cb # NoCallback
      BY <2>2 DEF NoCallback, Made, Tokens
    <3> QED  BY <2>2, <3>1 DEF CbOK
  <2>4. n = f.cb.of /\ ~Dead(f.cb.of)
    BY <2>1, <2>2, <2>3, LookupFindsOwn
  <2>5. n \in 0..MaxTokens
    BY <2>2, <2>4 DEF Frames, Callbacks
  <2> HIDE DEF n
  <2>6. /\ g \in Frames /\ g.at = "closure" /\ g.cb = f.cb /\ g.runs = n
        /\ g.late = f.late
    BY <2>2, <2>5 DEF Frames
  <2> HIDE DEF f, g
  <2>7. g \in Good
    BY <2>2, <2>4, <2>6 DEF Good
  <2> QED  BY <2>1, <2>7, BecomeKeeps, SameMutexes
<1> QED  BY <1>1, <1>2

LEMMA ClosureReturnsKeeps == ASSUME Inv, NEW t \in Threads, ClosureReturns(t) PROVE Inv'
  BY AnswerKeeps DEF ClosureReturns, At

-----------------------------------------------------------------------------

LEMMA StutterKeeps == ASSUME Inv, UNCHANGED vars PROVE Inv'
<1>1. UNCHANGED <<registry, stored, mutex, poisoned, stack, calls>>
  BY DEF vars
<1>2. Registry' /\ Good' = Good /\ \A cb : CbOK(cb)' <=> CbOK(cb)
  BY <1>1, RegistryStays
<1>3. StoredOK' /\ StacksOK'
  BY <1>1, <1>2 DEF Inv, StoredOK, StacksOK
<1> QED  BY <1>1, <1>2, <1>3, SameMutexes DEF Inv

LEMMA ContinueKeeps == ASSUME Inv, NEW t \in Threads, Continue(t) PROVE Inv'
  BY EndingKeeps, PoisonKeeps, StoreKeeps, NotifyKeeps, NotifyFromThreadKeeps,
     ForEachWordKeeps, NextWordKeeps, WasmCallKeeps, HostNotifyKeeps, ReturnFromKeeps,
     LookupKeeps, ClosureReturnsKeeps DEF Continue

LEMMA NextInv == Inv /\ [Next]_vars => Inv'
  BY ContinueKeeps, BeginKeeps, CallbackKeeps, UnregisterKeeps, DropTokenKeeps,
     FinalizeKeeps, StutterKeeps DEF Next

LEMMA Invariance == Spec => []Inv
  BY InitInv, NextInv, PTL DEF Spec

\* Type correctness of the registry, the mutexes and the stacks: ids stay
\* within the tokens made (stored-callback.lisp, *next-callback-id*) and no
\* thread nests deeper than the bound.
THEOREM TypeCorrect == Spec => []TypeOK
<1>1. Inv => TypeOK
  <2> SUFFICES ASSUME Inv PROVE TypeOK
    OBVIOUS
  <2>1. stack \in [Threads -> Seq(Good)] /\ \A t \in Threads : Len(stack[t]) <= MaxDepth
    BY DEF Inv, StacksOK
  <2> QED  BY <2>1 DEF Inv, Registry, RegistryOK, MutexesOK, StoredOK, TypeOK, Holders, Callbacks
<1> QED  BY <1>1, Invariance, PTL

\* A token the program holds and has not unregistered finds its own closure,
\* whatever other tokens' finalizers and unregistrations remove
\* (stored-callback.lisp: CALLBACK, UNREGISTER-CALLBACK and the finalizer).
THEOREM HeldFindsItsClosure == Spec => []HeldStaysRegistered
<1>1. Inv => HeldStaysRegistered
  BY DEF Inv, Registry
<1> QED  BY <1>1, Invariance, PTL

\* An invocation from Rust runs the closure of the token whose id it carries
\* or none at all, and none if the token was dead when it began, on whichever
\* thread and however deep (%STORED-CALLBACK-LOOKUP, the trampoline).
THEOREM InvocationsRunTheirOwn == Spec => []RunsItsOwn
<1>1. Inv => RunsItsOwn
  <2> SUFFICES ASSUME Inv, NEW t \in Threads, NEW i \in 1..Len(stack[t]),
                      stack[t][i].at = "closure"
               PROVE  stack[t][i].runs = stack[t][i].cb.of /\ ~stack[t][i].late
    BY DEF RunsItsOwn
  <2>1. stack[t] \in Seq(Good)
    BY DEF Inv, StacksOK
  <2>2. stack[t][i] \in Good
    BY <2>1, ElementOfSeq
  <2> QED  BY <2>2 DEF Good
<1> QED  BY <1>1, Invariance, PTL

-----------------------------------------------------------------------------
(***************************************************************************)
(* Who waits for whom.  Only the innermost frame of a thread waits         *)
(* (Layered), and nobody is ever seen with a guard of wordbag (FreeOK).    *)
(* After a step the thread that took it waits for nobody, so it is in no   *)
(* circle and makes none; the exceptions are a call that begins, which     *)
(* waits for the instance if for anything, and a join, of a thread that    *)
(* has just begun to run.                                                  *)
(***************************************************************************)

Runs(f) == f.at \notin {"lock", "join"}
Calm(s) == \A i \in 1..Len(s) : Runs(s[i])

Layered == \A t \in Threads : stack[t] # <<>> => Calm(Tail(stack[t]))
FreeOK == mutex["words"] = NoThread /\ mutex["NOTIFIER"] = NoThread

WaitInv == Layered /\ FreeOK /\ OnlyInstanceBlocks

\* t alone moves, and then waits for nobody.
Moved(t) ==
    /\ Calm(stack'[t])
    /\ \A u \in Threads \ {t} : stack'[u] = stack[u]

LEMMA CalmTail ==
    ASSUME NEW S, NEW s \in Seq(S), s # <<>>, Calm(s)
    PROVE  Runs(Head(s)) /\ Calm(Tail(s))
<1>1. /\ Len(s) \in Nat /\ Len(s) >= 1 /\ Head(s) = s[1]
      /\ Len(Tail(s)) = Len(s) - 1
      /\ \A i \in 1..Len(Tail(s)) : Tail(s)[i] = s[i + 1]
  OBVIOUS
<1> QED  BY <1>1 DEF Calm

LEMMA CalmWhole ==
    ASSUME NEW S, NEW s \in Seq(S), s # <<>>, Runs(Head(s)), Calm(Tail(s))
    PROVE  Calm(s)
<1>1. /\ Len(s) \in Nat /\ Len(s) >= 1 /\ Head(s) = s[1]
      /\ Len(Tail(s)) = Len(s) - 1
      /\ \A i \in 1..Len(Tail(s)) : Tail(s)[i] = s[i + 1]
  OBVIOUS
<1> SUFFICES ASSUME NEW i \in 1..Len(s) PROVE Runs(s[i])
  BY DEF Calm
<1>2. CASE i = 1
  BY <1>1, <1>2
<1>3. CASE i # 1
  <2>1. i - 1 \in 1..Len(Tail(s)) /\ (i - 1) + 1 = i
    BY <1>1, <1>3
  <2>2. Tail(s)[i - 1] = s[i]
    BY <1>1, <2>1
  <2> QED  BY <2>1, <2>2 DEF Calm
<1> QED  BY <1>2, <1>3

LEMMA CalmCons ==
    ASSUME NEW S, NEW s \in Seq(S), NEW f
    PROVE  /\ <<f>> \o s # <<>> /\ Head(<<f>> \o s) = f /\ Tail(<<f>> \o s) = s
           /\ Runs(f) /\ Calm(s) => Calm(<<f>> \o s)
<1> DEFINE T == S \cup {f}
           c == <<f>> \o s
<1>1. s \in Seq(T) /\ <<f>> \in Seq(T)
  OBVIOUS
<1>2. /\ c \in Seq(T) /\ c # <<>> /\ Head(c) = f /\ Tail(c) = s
  BY <1>1
<1> HIDE DEF T, c
<1>3. Runs(f) /\ Calm(s) => Calm(c)
  BY <1>2, CalmWhole
<1> QED  BY <1>2, <1>3 DEF c

-----------------------------------------------------------------------------
(* Threads that wait for each other after a step.                          *)

\* The threads of D move.  A circle without them was there before.
LEMMA CircleKeeps ==
    ASSUME Inv, OnlyInstanceBlocks, NEW D \in SUBSET Threads,
           \A u \in Threads \ D : stack'[u] = stack[u],
           \A m \in Mutexes : mutex'[m] = mutex[m] \/ mutex'[m] \in D \cup {NoThread},
           \A C \in SUBSET Threads : Blocked(C)' /\ C \cap D # {} => OnInstance(C)'
    PROVE  OnlyInstanceBlocks'
<1> SUFFICES ASSUME NEW C \in SUBSET Threads, C # {}, Blocked(C)', C \cap D = {}
             PROVE  OnInstance(C)'
  BY DEF OnlyInstanceBlocks
<1>1. \A t \in C : /\ t \in Threads \ D /\ t # NoThread
                   /\ Top(t)' = Top(t) /\ \A a : At(t, a)' <=> At(t, a)
  BY Constants DEF Top, At
<1>2. \A op : MutexOf(op) \in Mutexes
  BY DEF MutexOf, Mutexes
<1>3. \A t, u \in C : Waits(t, u)' => Waits(t, u)
  BY <1>1, <1>2 DEF Waits
<1>4. Blocked(C)
  BY <1>3 DEF Blocked
<1>5. OnInstance(C)
  BY <1>4 DEF OnlyInstanceBlocks
<1> QED  BY <1>1, <1>5 DEF OnInstance

\* A thread that waits for nobody is in no circle.
LEMMA CalmWaits ==
    ASSUME Inv', NEW t \in Threads, Calm(stack'[t])
    PROVE  /\ \A u : ~Waits(t, u)'
           /\ stack'[t] # <<>> => Calm(Tail(stack'[t]))
<1>1. stack'[t] \in Seq(Good')
  BY DEF Inv, StacksOK
<1>2. stack'[t] # <<>> => Runs(Head(stack'[t])) /\ Calm(Tail(stack'[t]))
  BY <1>1, CalmTail
<1> QED  BY <1>2 DEF Waits, At, Top, Runs

LEMMA MovedKeeps ==
    ASSUME Inv, Inv', WaitInv, NEW t \in Threads, Moved(t), FreeOK',
           \A m \in Mutexes : mutex'[m] = mutex[m] \/ mutex'[m] \in {t, NoThread}
    PROVE  WaitInv'
<1>1. /\ \A u : ~Waits(t, u)'
      /\ stack'[t] # <<>> => Calm(Tail(stack'[t]))
  BY CalmWaits DEF Moved
<1>2. Layered'
  BY <1>1 DEF WaitInv, Layered, Moved
<1>3. \A C \in SUBSET Threads : Blocked(C)' /\ C \cap {t} # {} => OnInstance(C)'
  BY <1>1 DEF Blocked
<1>4. OnlyInstanceBlocks'
  <2>1. {t} \in SUBSET Threads /\ \A u \in Threads \ {t} : stack'[u] = stack[u]
    BY DEF Moved
  <2> QED  BY <1>3, <2>1, CircleKeeps DEF WaitInv
<1> QED  BY <1>2, <1>4 DEF WaitInv

\* The registry alone moves, or nothing does.
LEMMA SameWaits == ASSUME WaitInv, UNCHANGED <<stack, mutex>> PROVE WaitInv'
<1>1. \A t : Top(t)' = Top(t) /\ \A a : At(t, a)' <=> At(t, a)
  BY DEF Top, At
<1>2. \A t, u : Waits(t, u)' <=> Waits(t, u)
  BY <1>1 DEF Waits
<1>3. \A C : (Blocked(C)' <=> Blocked(C)) /\ (OnInstance(C)' <=> OnInstance(C))
  BY <1>1, <1>2 DEF Blocked, OnInstance
<1> QED  BY <1>3 DEF WaitInv, Layered, FreeOK, OnlyInstanceBlocks

-----------------------------------------------------------------------------
(* What the moves of a stack leave.                                        *)

LEMMA StackFacts ==
    ASSUME Inv, Layered, NEW t \in Threads, stack[t] # <<>>
    PROVE  /\ stack[t] \in Seq(Good) /\ Tail(stack[t]) \in Seq(Good) /\ Calm(Tail(stack[t]))
           /\ Runs(Top(t)) => Calm(stack[t])
<1>1. stack[t] \in Seq(Good) /\ Tail(stack[t]) \in Seq(Good) /\ Calm(Tail(stack[t]))
  BY TopFacts DEF Layered
<1> QED  BY <1>1, CalmWhole DEF Top

LEMMA SetMoves ==
    ASSUME Inv, NEW t \in Threads, NEW s, Calm(s), stack' = [stack EXCEPT ![t] = s]
    PROVE  Moved(t)
  BY DEF Moved, Inv, StacksOK

LEMMA PopMoves ==
    ASSUME Inv, Layered, NEW t \in Threads, stack[t] # <<>>, Pop(t)
    PROVE  Moved(t)
  BY StackFacts, SetMoves DEF Pop

LEMMA BecomeMoves ==
    ASSUME Inv, Layered, NEW t \in Threads, stack[t] # <<>>, NEW f, Runs(f), Become(t, f)
    PROVE  Moved(t)
<1>1. Calm(<<f>> \o Tail(stack[t]))
  BY StackFacts, CalmCons
<1> QED  BY <1>1, SetMoves DEF Become

LEMMA PushMoves ==
    ASSUME Inv, Layered, NEW t \in Threads, stack[t] # <<>>, Runs(Top(t)),
           NEW f, Runs(f), Push(t, f)
    PROVE  Moved(t)
<1>1. Calm(<<f>> \o stack[t])
  BY StackFacts, CalmCons
<1> QED  BY <1>1, SetMoves DEF Push

LEMMA AnswerMoves ==
    ASSUME Inv, Layered, NEW t \in Threads, stack[t] # <<>>, NEW failed, Answer(t, failed)
    PROVE  Moved(t)
<1> DEFINE rest == Tail(stack[t])
           f == [Head(rest) EXCEPT !.failed = @ \/ failed]
           new == IF rest = <<>> THEN <<>> ELSE <<f>> \o Tail(rest)
<1>1. rest \in Seq(Good) /\ Calm(rest) /\ stack' = [stack EXCEPT ![t] = new]
  BY StackFacts DEF Answer
<1>2. CASE rest = <<>>
  <2>1. Calm(new)
    BY <1>2 DEF Calm
  <2> HIDE DEF new
  <2> QED  BY <1>1, <2>1, SetMoves
<1>3. CASE rest # <<>>
  <2>1. Head(rest) \in Good /\ Tail(rest) \in Seq(Good)
    BY <1>1, <1>3, HeadTailProperties
  <2>2. Runs(Head(rest)) /\ Calm(Tail(rest))
    BY <1>1, <1>3, CalmTail
  <2>3. Runs(f)
    <3>1. Head(rest) \in Frames
      BY <2>1 DEF Good
    <3>2. f.at = Head(rest).at
      BY <3>1 DEF Frames
    <3> QED  BY <2>2, <3>2 DEF Runs
  <2> HIDE DEF f
  <2>4. Calm(new)
    BY <1>3, <2>1, <2>2, <2>3, CalmCons
  <2> HIDE DEF new
  <2> QED  BY <1>1, <2>4, SetMoves
<1> QED  BY <1>2, <1>3

LEMMA FrameRuns ==
    /\ \A op, cb : Runs(Frame("each", op, cb)) /\ Runs(Frame("closure", op, cb))
    /\ \A cb : Runs(Invocation(cb))
    /\ \A op, cb, m : Runs([Frame("guest", op, cb) EXCEPT !.holds = m])
  BY DEF Runs, Frame, Invocation

-----------------------------------------------------------------------------
(* The actions.                                                            *)

\* Steps of the thread itself that neither take nor leave a guard.
LEMMA QuietMoves ==
    ASSUME Inv, WaitInv, NEW t \in Threads, Continue(t),
           ~WasmCall(t), ~ReturnFrom(t),
           ~(NotifyFromThread(t) /\ stored["NOTIFIER"] # NoCallback)
    PROVE  Moved(t) /\ mutex' = mutex
<1>0. Layered
  BY DEF WaitInv
<1>1. ASSUME LockPanics(t) \/ Store(t) \/ Touch(t) \/ TouchInstance(t) \/ Poison(t) \/ Join(t)
      PROVE  Moved(t) /\ mutex' = mutex
  <2>1. stack[t] # <<>> /\ Pop(t) /\ mutex' = mutex
    BY <1>1 DEF LockPanics, Store, Touch, TouchInstance, Poison, Join, Locks, At
  <2> QED  BY <1>0, <2>1, PopMoves
<1>2. ASSUME Notify(t) \/ NotifyFromThread(t) PROVE Moved(t) /\ mutex' = mutex
  <2>1. /\ stack[t] # <<>> /\ mutex' = mutex
        /\ Pop(t) \/ Become(t, Invocation(stored["NOTIFIER"]))
    BY <1>2 DEF Notify, NotifyFromThread, Locks, At
  <2> QED  BY <1>0, <2>1, PopMoves, BecomeMoves, FrameRuns
<1>3. ASSUME ForEachWord(t) PROVE Moved(t) /\ mutex' = mutex
  <2>1. stack[t] # <<>> /\ mutex' = mutex /\ Become(t, Frame("each", "words", NoCallback))
    BY <1>3 DEF ForEachWord, Locks, At
  <2> QED  BY <1>0, <2>1, BecomeMoves, FrameRuns
<1>4. ASSUME NextWord(t) PROVE Moved(t) /\ mutex' = mutex
  <2>1. /\ stack[t] # <<>> /\ mutex' = mutex /\ Runs(Top(t))
        /\ Push(t, Frame("closure", "borrowed", NoCallback))
    BY <1>4 DEF NextWord, At, Runs
  <2> QED  BY <1>0, <2>1, PushMoves, FrameRuns
<1>5. ASSUME HostNotify(t) PROVE Moved(t) /\ mutex' = mutex
  <2>1. stack[t] # <<>> /\ mutex' = mutex /\ Top(t).at = "guest"
    BY <1>5 DEF HostNotify, At
  <2>2. Runs(Top(t)) /\ Runs([Top(t) EXCEPT !.failed = TRUE])
    <3>1. Top(t) \in Frames
      BY <2>1, TopFacts DEF Good
    <3> QED  BY <2>1, <3>1 DEF Runs, Frames
  <2>3. Become(t, [Top(t) EXCEPT !.failed = TRUE]) \/ Push(t, Invocation(stored["wasm"]))
    BY <1>5 DEF HostNotify
  <2> QED  BY <1>0, <2>1, <2>2, <2>3, BecomeMoves, PushMoves, FrameRuns
<1>6. ASSUME LookupFound(t) PROVE Moved(t) /\ mutex' = mutex
  <2> DEFINE g == [Top(t) EXCEPT !.at = "closure", !.runs = table[Top(t).cb.id]]
  <2>1. stack[t] # <<>> /\ mutex' = mutex /\ Become(t, g)
    BY <1>6 DEF LookupFound, At
  <2>2. Top(t) \in Frames
    BY <2>1, TopFacts DEF Good
  <2>3. Runs(g)
    BY <2>2 DEF Runs, Frames
  <2> HIDE DEF g
  <2> QED  BY <1>0, <2>1, <2>3, BecomeMoves
<1>7. ASSUME LookupDead(t) \/ ClosureReturns(t) PROVE Moved(t) /\ mutex' = mutex
  BY <1>0, <1>7, AnswerMoves DEF LookupDead, ClosureReturns, At
<1> QED  BY <1>1, <1>2, <1>3, <1>4, <1>5, <1>6, <1>7 DEF Continue

\* Wasm::call takes the guard of the instance; its return leaves it.
LEMMA GuardWaits ==
    ASSUME Inv, Inv', WaitInv, NEW t \in Threads, WasmCall(t) \/ ReturnFrom(t)
    PROVE  WaitInv'
<1>0. Layered /\ FreeOK /\ mutex \in [Mutexes -> Threads \cup {NoThread}]
  BY DEF WaitInv, Inv, MutexesOK
<1>1. CASE WasmCall(t)
  <2>1. /\ stack[t] # <<>> /\ mutex' = [mutex EXCEPT !["wasm"] = t]
        /\ Become(t, [Frame("guest", "call", NoCallback) EXCEPT !.holds = "wasm"])
    BY <1>1 DEF WasmCall, Locks, At
  <2>2. Moved(t)
    BY <1>0, <2>1, BecomeMoves, FrameRuns
  <2>3. /\ FreeOK'
        /\ \A m \in Mutexes : mutex'[m] = mutex[m] \/ mutex'[m] \in {t, NoThread}
    BY <1>0, <2>1 DEF FreeOK, Mutexes
  <2> QED  BY <2>2, <2>3, MovedKeeps
<1>2. CASE ReturnFrom(t)
  <2>1. /\ stack[t] # <<>> /\ Pop(t)
        /\ mutex' = [m \in Mutexes |-> IF m = Top(t).holds THEN NoThread ELSE mutex[m]]
    BY <1>2 DEF ReturnFrom, At
  <2>2. Moved(t)
    BY <1>0, <2>1, PopMoves
  <2>3. /\ FreeOK'
        /\ \A m \in Mutexes : mutex'[m] = mutex[m] \/ mutex'[m] \in {t, NoThread}
    BY <1>0, <2>1 DEF FreeOK, Mutexes
  <2> QED  BY <2>2, <2>3, MovedKeeps
<1> QED  BY <1>1, <1>2

\* The thread that is joined has yet to look up its closure.
LEMMA JoinWaits ==
    ASSUME Inv, Inv', WaitInv, NEW t \in Threads, NotifyFromThread(t),
           stored["NOTIFIER"] # NoCallback
    PROVE  WaitInv'
<1> DEFINE i == Invocation(stored["NOTIFIER"])
<1>1. PICK w \in Workers :
          /\ stack[w] = <<>>
          /\ stack' = [stack EXCEPT
                 ![w] = <<i>>,
                 ![t] = <<[Top(t) EXCEPT !.at = "join", !.joins = w]>> \o Tail(@)]
  BY DEF NotifyFromThread
<1> DEFINE f == [Top(t) EXCEPT !.at = "join", !.joins = w]
<1>2. /\ stack[t] # <<>> /\ mutex' = mutex /\ w \in Threads /\ w # t
  BY <1>1 DEF NotifyFromThread, Locks, At, Threads
<1>3. f.at = "join" /\ f.joins = w /\ Runs(i)
  <2>1. Top(t) \in Frames
    BY <1>2, TopFacts DEF Good
  <2> QED  BY <2>1, FrameRuns DEF Frames
<1> HIDE DEF i, f
<1>4. /\ stack'[w] = <<i>> /\ stack'[t] = <<f>> \o Tail(stack[t])
      /\ \A u \in Threads \ {t, w} : stack'[u] = stack[u]
  BY <1>1, <1>2 DEF Inv, StacksOK, f
<1>5. Calm(stack'[w])
  <2>1. Len(<<i>>) = 1 /\ <<i>>[1] = i
    OBVIOUS
  <2> QED  BY <1>3, <1>4, <2>1 DEF Calm
<1>6. /\ \A u : ~Waits(w, u)'
      /\ stack'[w] # <<>> => Calm(Tail(stack'[w]))
  BY <1>2, <1>5, CalmWaits
<1>7. Tail(stack[t]) \in Seq(Good) /\ Calm(Tail(stack[t]))
  BY <1>2, StackFacts DEF WaitInv
<1>8. stack'[t] # <<>> /\ Head(stack'[t]) = f /\ Tail(stack'[t]) = Tail(stack[t])
  BY <1>4, <1>7, CalmCons
<1>9. \A u : Waits(t, u)' => u = w
  BY <1>3, <1>8 DEF Waits, At, Top
<1>10. Layered'
  BY <1>4, <1>6, <1>7, <1>8 DEF WaitInv, Layered
<1>11. OnlyInstanceBlocks'
  <2>1. \A C \in SUBSET Threads : Blocked(C)' => t \notin C /\ w \notin C
    BY <1>6, <1>9 DEF Blocked
  <2>2. \A C \in SUBSET Threads : Blocked(C)' /\ C \cap {t, w} # {} => OnInstance(C)'
    BY <2>1
  <2>3. {t, w} \in SUBSET Threads
    BY <1>2
  <2> QED  BY <1>2, <1>4, <2>2, <2>3, CircleKeeps DEF WaitInv
<1> QED  BY <1>2, <1>10, <1>11 DEF WaitInv, FreeOK

\* A call that begins waits, if at all, for the instance.
LEMMA BeginWaits ==
    ASSUME Inv, WaitInv, NEW t \in Threads, NEW op \in Ops, NEW k \in Tokens,
           Begin(t, op, k)
    PROVE  WaitInv'
<1>1. \E cb : Push(t, Frame("lock", op, cb))
  BY DEF Begin
<1>2. PICK cb : Push(t, Frame("lock", op, cb))
  BY <1>1
<1> DEFINE f == Frame("lock", op, cb)
<1>3. f.at = "lock" /\ f.op = op /\ mutex' = mutex
  BY DEF Frame, Begin
<1> HIDE DEF f
<1>4. /\ stack[t] \in Seq(Good) /\ stack'[t] = <<f>> \o stack[t]
      /\ \A u \in Threads \ {t} : stack'[u] = stack[u]
  BY <1>2 DEF f, Push, Inv, StacksOK
<1>5. stack'[t] # <<>> /\ Head(stack'[t]) = f /\ Tail(stack'[t]) = stack[t]
  BY <1>4, CalmCons
<1>6. Calm(stack[t])
  <2>1. CASE stack[t] = <<>>
    BY <2>1 DEF Calm
  <2>2. CASE stack[t] # <<>>
    <3>1. Runs(Top(t))
      BY <2>2 DEF Begin, InLisp, Runs
    <3> QED  BY <2>2, <3>1, StackFacts DEF WaitInv
  <2> QED  BY <2>1, <2>2
<1>7. Layered'
  BY <1>4, <1>5, <1>6 DEF WaitInv, Layered
<1>8. At(t, "lock")' /\ ~At(t, "join")' /\ Top(t)'.op = op
  BY <1>3, <1>5 DEF At, Top
<1>9. ASSUME NEW u \in Threads, Waits(t, u)' PROVE op \in WasmOps
  <2>1. mutex[MutexOf(op)] = u
    BY <1>3, <1>8, <1>9 DEF Waits
  <2>2. u # NoThread
    BY Constants
  <2> QED  BY <2>1, <2>2 DEF WaitInv, FreeOK, MutexOf
<1>10. OnlyInstanceBlocks'
  <2>1. \A C \in SUBSET Threads : Blocked(C)' /\ C \cap {t} # {} => OnInstance(C)'
    BY <1>8, <1>9 DEF Blocked, OnInstance
  <2> QED  BY <1>3, <1>4, <2>1, CircleKeeps DEF WaitInv
<1> QED  BY <1>3, <1>7, <1>10 DEF WaitInv, FreeOK

LEMMA ContinueWaits ==
    ASSUME Inv, Inv', WaitInv, NEW t \in Threads, Continue(t)
    PROVE  WaitInv'
<1>1. CASE WasmCall(t) \/ ReturnFrom(t)
  BY <1>1, GuardWaits
<1>2. CASE NotifyFromThread(t) /\ stored["NOTIFIER"] # NoCallback
  BY <1>2, JoinWaits
<1>3. CASE /\ ~WasmCall(t) /\ ~ReturnFrom(t)
           /\ ~(NotifyFromThread(t) /\ stored["NOTIFIER"] # NoCallback)
  <2>1. Moved(t) /\ mutex' = mutex
    BY <1>3, QuietMoves
  <2>2. FreeOK'
    BY <2>1 DEF WaitInv, FreeOK
  <2> QED  BY <2>1, <2>2, MovedKeeps
<1> QED  BY <1>1, <1>2, <1>3

LEMMA InitWaits == Init => WaitInv
<1> SUFFICES ASSUME Init PROVE WaitInv
  OBVIOUS
<1>1. \A t \in Threads : stack[t] = <<>>
  BY DEF Init
<1>2. FreeOK
  BY DEF Init, FreeOK, Mutexes
<1>3. OnlyInstanceBlocks
  BY <1>1 DEF OnlyInstanceBlocks, Blocked, Waits, At
<1> QED  BY <1>1, <1>2, <1>3 DEF WaitInv, Layered

LEMMA NextWaits == Inv /\ Inv' /\ WaitInv /\ [Next]_vars => WaitInv'
<1> SUFFICES ASSUME Inv, Inv', WaitInv, [Next]_vars PROVE WaitInv'
  OBVIOUS
<1>1. ASSUME NEW t \in Threads, NEW k \in Tokens, Callback(t, k) \/ Unregister(t, k)
      PROVE  WaitInv'
  BY <1>1, SameWaits DEF Callback, Unregister
<1>2. ASSUME NEW k \in Tokens, DropToken(k) \/ Finalize(k) PROVE WaitInv'
  BY <1>2, SameWaits DEF DropToken, Finalize
<1>3. CASE UNCHANGED vars
  BY <1>3, SameWaits DEF vars
<1> QED  BY <1>1, <1>2, <1>3, ContinueWaits, BeginWaits DEF Next

\* Threads never wait for each other but through the mutex of the Wasm instance,
\* however many they are and however their calls nest: the guards of wordbag are
\* gone before anything is called or joined (wordbag/src/lib.rs:162-167, 275-277).
THEOREM OnlyTheInstanceBlocks == Spec => []OnlyInstanceBlocks
<1>1. WaitInv => OnlyInstanceBlocks
  BY DEF WaitInv
<1>2. Spec => []WaitInv
  BY InitWaits, NextWaits, Invariance, PTL DEF Spec
<1> QED  BY <1>1, <1>2, PTL

=============================================================================
