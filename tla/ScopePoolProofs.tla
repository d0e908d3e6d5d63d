--------------------------- MODULE ScopePoolProofs ---------------------------
(***************************************************************************)
(* The invariants of ScopePool, for every size of the pool, every depth    *)
(* limit below it and every set of functions and heap cells.               *)
(***************************************************************************)
EXTENDS ScopePool, SequenceTheorems, TLAPS

\* Handles come from the counter, 0 is only ever the base scope.
HandlesFromCounter ==
    /\ \A h \in DOMAIN envs : h \in (-env_counter) .. env_counter
    /\ 0 \in DOMAIN envs => envs[0] = Base

RegisteredAreOpen == registered \subseteq OnStack

\* The inductive invariant.
PoolInv ==
    /\ PoolTypeOK
    /\ CellsPartitioned
    /\ PoolNeverExhausted
    /\ HandlesNeverDangle
    /\ EnvMapsAgree
    /\ HandlesFromCounter
    /\ NestedSearchCovers
    /\ RegisteredAreOpen

------------------------------------------------------------------------------
(* What closing does to the sequences. *)

\* The recycled cells are those above the cut, the top one first.
LEMMA RecycledType ==
    ASSUME PoolTypeOK, NEW n \in 1 .. Depth
    PROVE  /\ Recycled(n) \in Seq(PoolCell)
           /\ Len(Recycled(n)) = Depth - n
           /\ \A i \in 1 .. (Depth - n) : Recycled(n)[i] = memory_stack[Depth + 1 - i]
<1>1. Depth \in Nat /\ n \in Nat /\ Depth - n \in Nat
  BY DEF PoolTypeOK, Depth
<1>2. Recycled(n) \in [1 .. (Depth - n) -> PoolCell]
  <2>1. \A i \in 1 .. (Depth - n) : memory_stack[Depth + 1 - i] \in PoolCell
    BY <1>1 DEF PoolTypeOK, Depth
  <2> QED BY <2>1 DEF Recycled
<1> QED BY <1>1, <1>2 DEF Recycled

\* The stack keeps what lies below the cut.
LEMMA CloseLeaves ==
    ASSUME PoolTypeOK, NEW n \in 1 .. Depth, memory_stack' = SubSeq(memory_stack, 1, n)
    PROVE  /\ memory_stack' \in Seq(PoolCell)
           /\ Len(memory_stack') = n
           /\ \A i \in 1 .. n : memory_stack'[i] = memory_stack[i]
BY DEF PoolTypeOK, Depth

\* The closed cells queue behind the unused ones.
LEMMA CloseQueues ==
    ASSUME PoolTypeOK, NEW n \in 1 .. Depth, unused_scopes' = unused_scopes \o Recycled(n)
    PROVE  /\ unused_scopes' \in Seq(PoolCell)
           /\ Len(unused_scopes') = Len(unused_scopes) + Depth - n
           /\ \A i \in 1 .. Len(unused_scopes') :
                unused_scopes'[i] = IF i <= Len(unused_scopes) THEN unused_scopes[i]
                                    ELSE memory_stack[Depth + 1 - (i - Len(unused_scopes))]
<1>1. Depth \in Nat /\ Len(unused_scopes) \in Nat /\ unused_scopes \in Seq(PoolCell)
  BY DEF PoolTypeOK, Depth
<1>2. Recycled(n) \in Seq(PoolCell) /\ Len(Recycled(n)) = Depth - n
  BY RecycledType
<1>3. \A i \in 1 .. (Depth - n) : Recycled(n)[i] = memory_stack[Depth + 1 - i]
  BY RecycledType
<1>4. /\ unused_scopes' \in Seq(PoolCell)
      /\ Len(unused_scopes') = Len(unused_scopes) + Len(Recycled(n))
      /\ \A i \in 1 .. Len(unused_scopes) + Len(Recycled(n)) :
            unused_scopes'[i] = IF i <= Len(unused_scopes) THEN unused_scopes[i]
                                ELSE Recycled(n)[i - Len(unused_scopes)]
  BY <1>1, <1>2, ConcatProperties
<1>5. Len(unused_scopes') = Len(unused_scopes) + Depth - n
  BY <1>1, <1>2, <1>4
<1>6. ASSUME NEW i \in 1 .. Len(unused_scopes')
      PROVE  unused_scopes'[i] = IF i <= Len(unused_scopes) THEN unused_scopes[i]
                                 ELSE memory_stack[Depth + 1 - (i - Len(unused_scopes))]
  <2>1. ~(i <= Len(unused_scopes)) => i - Len(unused_scopes) \in 1 .. (Depth - n)
    BY <1>1, <1>5
  <2> QED BY <2>1, <1>3, <1>4
<1> QED BY <1>4, <1>5, <1>6

\* Below the depth limit the pool is not exhausted, so OpenScope pushes a cell that
\* was closed before or never used.
LEMMA OpenPushes ==
    ASSUME PoolInv, NEW f \in Function, OpenScope(f)
    PROVE  \E c \in PoolCell :
             /\ Push(c, f)
             /\ c \notin OnStack
             /\ \/ /\ Len(unused_scopes) > 0
                   /\ c = unused_scopes[Len(unused_scopes)]
                   /\ unused_scopes' = SubSeq(unused_scopes, 1, Len(unused_scopes) - 1)
                   /\ pool_in_use' = pool_in_use
                \/ /\ Len(unused_scopes) = 0
                   /\ c = pool_in_use
                   /\ unused_scopes' = unused_scopes
                   /\ pool_in_use' = pool_in_use + 1
                   /\ pool_in_use + 1 <= MaxDepth
<1>1. /\ Depth \in Nat /\ Depth # MaxDepth /\ pool_in_use \in Nat
      /\ Len(unused_scopes) \in Nat /\ unused_scopes \in Seq(PoolCell)
      /\ Depth + Len(unused_scopes) = pool_in_use /\ pool_in_use <= MaxDepth
  BY DEF PoolInv, PoolTypeOK, CellsPartitioned, PoolNeverExhausted, OpenScope, Depth
<1>2. CASE unused_scopes # <<>>
  <2>1. Len(unused_scopes) > 0
    BY <1>1, <1>2, EmptySeq
  <2>2. unused_scopes[Len(unused_scopes)] \in PoolCell
    BY <1>1, <2>1
  <2>3. unused_scopes[Len(unused_scopes)] \notin OnStack
    BY <1>1, <2>1 DEF PoolInv, CellsPartitioned, OnStack
  <2> QED BY <1>2, <2>1, <2>2, <2>3 DEF OpenScope
<1>3. CASE unused_scopes = <<>>
  <2>1. Len(unused_scopes) = 0
    BY <1>3
  <2>2. pool_in_use = Depth /\ pool_in_use + 1 <= MaxDepth
    BY <1>1, <2>1, SizeAssumption
  <2>3. pool_in_use + 1 # PoolSize /\ pool_in_use \in PoolCell
    BY <1>1, <2>2, SizeAssumption DEF PoolCell
  <2>4. pool_in_use \notin OnStack
    BY <1>1 DEF PoolInv, PoolTypeOK, CellsPartitioned, OnStack, PoolCell
  <2> QED BY <1>3, <2>1, <2>2, <2>3, <2>4 DEF OpenScope
<1> QED BY <1>2, <1>3

\* A push adds one cell on top.
LEMMA PushAppends ==
    ASSUME PoolTypeOK, NEW c \in PoolCell, memory_stack' = Append(memory_stack, c)
    PROVE  /\ memory_stack' \in Seq(PoolCell)
           /\ Len(memory_stack') = Depth + 1
           /\ \A i \in 1 .. Depth : memory_stack'[i] = memory_stack[i]
           /\ memory_stack'[Depth + 1] = c
BY DEF PoolTypeOK, Depth

\* A sequence without its last element.
LEMMA ButLast ==
    ASSUME NEW S, NEW s \in Seq(S), NEW n \in Nat, n = Len(s), n > 0
    PROVE  /\ SubSeq(s, 1, n - 1) \in Seq(S)
           /\ Len(SubSeq(s, 1, n - 1)) = n - 1
           /\ \A j \in 1 .. (n - 1) : SubSeq(s, 1, n - 1)[j] = s[j]
<1>1. n - 1 \in Int /\ 1 \in Int /\ \A i \in 1 .. (n - 1) : s[i] \in S
  OBVIOUS
<1>2. /\ SubSeq(s, 1, n - 1) \in Seq(S)
      /\ Len(SubSeq(s, 1, n - 1)) = IF 1 <= n - 1 THEN n - 1 - 1 + 1 ELSE 0
      /\ \A i \in 1 .. n - 1 - 1 + 1 : SubSeq(s, 1, n - 1)[i] = s[1 + i - 1]
  BY <1>1, SubSeqProperties
<1>3. (IF 1 <= n - 1 THEN n - 1 - 1 + 1 ELSE 0) = n - 1
  OBVIOUS
<1>4. \A j \in 1 .. (n - 1) : j \in 1 .. n - 1 - 1 + 1 /\ 1 + j - 1 = j
  OBVIOUS
<1> QED BY <1>2, <1>3, <1>4, Zenon

\* Taking the last unused cell leaves the others.
LEMMA ReuseShrinks ==
    ASSUME PoolTypeOK, Len(unused_scopes) > 0,
           unused_scopes' = SubSeq(unused_scopes, 1, Len(unused_scopes) - 1)
    PROVE  /\ unused_scopes' \in Seq(PoolCell)
           /\ Len(unused_scopes') = Len(unused_scopes) - 1
           /\ \A j \in 1 .. Len(unused_scopes') : unused_scopes'[j] = unused_scopes[j]
<1>1. unused_scopes \in Seq(PoolCell) /\ Len(unused_scopes) \in Nat
  BY DEF PoolTypeOK
<1> QED BY <1>1, ButLast, Zenon

\* The base scope is always open.
LEMMA DepthPositive == ASSUME PoolTypeOK PROVE Depth \in Nat /\ Depth >= 1
BY EmptySeq DEF PoolTypeOK, Depth

\* The cases of a step, CloseScope and CloseTo in one.
LEMMA StepCases ==
    ASSUME PoolTypeOK, [PoolNext]_poolVars
    PROVE  \/ \E f \in Function : OpenScope(f)
           \/ \E n \in 1 .. (Depth - 1) : CloseDownTo(n)
           \/ RegisterNestedFunction
           \/ GetBaseEnvHandle
           \/ GetCurrentEnvHandle
           \/ \E c \in HeapCell : GetNewEnvHandle(c)
           \/ \E h \in DOMAIN envs : DeleteEnv(h)
           \/ UNCHANGED poolVars
<1>1. Depth \in Nat
  BY DepthPositive
<1>2. CloseScope => \E n \in 1 .. (Depth - 1) : CloseDownTo(n)
  <2>1. SUFFICES ASSUME CloseScope PROVE \E n \in 1 .. (Depth - 1) : CloseDownTo(n)
    OBVIOUS
  <2>2. Depth - 1 \in 1 .. (Depth - 1) /\ CloseDownTo(Depth - 1)
    BY <1>1, <2>1 DEF CloseScope
  <2> QED BY <2>2
<1>3. ASSUME NEW n \in 1 .. (Depth - 1), CloseTo(n)
      PROVE  \E m \in 1 .. (Depth - 1) : CloseDownTo(m)
  BY <1>3 DEF CloseTo
<1> QED BY <1>2, <1>3 DEF PoolNext

\* No step changes the base scope.
LEMMA BaseIsFixed ==
    ASSUME PoolInv, [PoolNext]_poolVars
    PROVE  memory_stack' \in Seq(PoolCell) /\ memory_stack' # <<>> /\ Base' = Base
<1>1. Depth \in Nat /\ Depth >= 1 /\ PoolTypeOK
  BY DepthPositive DEF PoolInv
<1>2. ASSUME NEW f \in Function, OpenScope(f)
      PROVE  memory_stack' \in Seq(PoolCell) /\ memory_stack' # <<>> /\ Base' = Base
  <2>1. PICK c \in PoolCell : Push(c, f)
    BY <1>2, OpenPushes
  <2>2. /\ memory_stack' \in Seq(PoolCell)
        /\ Len(memory_stack') = Depth + 1
        /\ \A i \in 1 .. Depth : memory_stack'[i] = memory_stack[i]
    BY <1>1, <2>1, PushAppends DEF Push
  <2>3. memory_stack' # <<>>
    BY <1>1, <2>2, EmptySeq
  <2> QED BY <1>1, <2>2, <2>3 DEF Base
<1>3. ASSUME NEW n \in 1 .. (Depth - 1), CloseDownTo(n)
      PROVE  memory_stack' \in Seq(PoolCell) /\ memory_stack' # <<>> /\ Base' = Base
  <2>1. n \in 1 .. Depth
    BY <1>1
  <2>2. /\ memory_stack' \in Seq(PoolCell)
        /\ Len(memory_stack') = n
        /\ \A i \in 1 .. n : memory_stack'[i] = memory_stack[i]
    BY <1>1, <1>3, <2>1, CloseLeaves DEF CloseDownTo
  <2>3. memory_stack' # <<>>
    BY <2>1, <2>2, EmptySeq
  <2> QED BY <2>1, <2>2, <2>3 DEF Base
<1>4. CASE UNCHANGED memory_stack
  BY <1>1, <1>4 DEF PoolTypeOK, Base
<1> QED
  BY <1>1, <1>2, <1>3, <1>4, StepCases
  DEF RegisterNestedFunction, GetBaseEnvHandle, GetCurrentEnvHandle, GetNewEnvHandle,
      DeleteEnv, poolVars, stackVars

------------------------------------------------------------------------------
(* One lemma per part of the invariant. *)

\* Every step preserves the types.
LEMMA TypeStep == ASSUME PoolInv, [PoolNext]_poolVars PROVE PoolTypeOK'
<1>1. Depth \in Nat /\ Depth >= 1 /\ PoolTypeOK
  BY DepthPositive DEF PoolInv
<1>2. memory_stack' \in Seq(PoolCell) /\ memory_stack' # <<>>
  BY BaseIsFixed
<1>3. Current \in Cell /\ Base \in Cell
  BY <1>1 DEF Current, Base, Depth, PoolTypeOK, Cell
<1>4. ASSUME NEW f \in Function, OpenScope(f) PROVE PoolTypeOK'
  <2>1. PICK c \in PoolCell :
          /\ Push(c, f)
          /\ \/ /\ Len(unused_scopes) > 0
                /\ unused_scopes' = SubSeq(unused_scopes, 1, Len(unused_scopes) - 1)
                /\ pool_in_use' = pool_in_use
             \/ unused_scopes' = unused_scopes /\ pool_in_use' = pool_in_use + 1
    BY <1>4, OpenPushes
  <2>2. unused_scopes' \in Seq(PoolCell)
    BY <1>1, <2>1, ReuseShrinks DEF PoolTypeOK
  <2>a. pool_in_use' \in Nat
    BY <1>1, <2>1 DEF PoolTypeOK
  <2>3. fi' \in [Cell -> Function \cup {NULL}]
    BY <1>1, <2>1 DEF PoolTypeOK, Push
  <2> QED BY <1>1, <1>2, <1>4, <2>2, <2>a, <2>3 DEF PoolTypeOK, OpenScope, envVars
<1>5. ASSUME NEW n \in 1 .. (Depth - 1), CloseDownTo(n) PROVE PoolTypeOK'
  <2>1. n \in 1 .. Depth
    BY <1>1
  <2>2. unused_scopes' \in Seq(PoolCell)
    BY <1>1, <1>5, <2>1, CloseQueues DEF CloseDownTo
  <2>3. fi' \in [Cell -> Function \cup {NULL}]
    BY <1>1, <1>5 DEF PoolTypeOK, CloseDownTo
  <2>4. /\ DOMAIN envs' \subseteq Int /\ envs' \in [DOMAIN envs' -> Cell]
        /\ DOMAIN rev_envs' \subseteq Cell /\ rev_envs' \in [DOMAIN rev_envs' -> Int]
        /\ allocated_envs' \subseteq HeapCell
    BY <1>1, <1>5 DEF PoolTypeOK, CloseDownTo, ClearEnv, EnvsWithout, RevEnvsWithout
  <2>5. /\ pool_in_use' \in Nat /\ first_scope_with_nested' \in Nat \cup {-1}
        /\ registered' \subseteq Cell /\ env_counter' \in Nat
    BY <1>1, <1>5 DEF PoolTypeOK, CloseDownTo
  <2> QED BY <1>2, <2>2, <2>3, <2>4, <2>5 DEF PoolTypeOK
<1>6. CASE RegisterNestedFunction
  <2>1. first_scope_with_nested' \in Nat \cup {-1} /\ registered' \subseteq Cell
    BY <1>1, <1>3, <1>6 DEF RegisterNestedFunction, PoolTypeOK
  <2> QED BY <1>1, <1>6, <2>1 DEF RegisterNestedFunction, PoolTypeOK, envVars
<1>7. CASE GetBaseEnvHandle
  BY <1>1, <1>3, <1>7 DEF GetBaseEnvHandle, Bind, PoolTypeOK, stackVars
<1>8. CASE GetCurrentEnvHandle
  <2>1. env_counter' \in Nat
    BY <1>1, <1>8 DEF GetCurrentEnvHandle, PoolTypeOK
  <2> QED
    BY <1>1, <1>3, <1>8, <2>1 DEF GetCurrentEnvHandle, Bind, PoolTypeOK, stackVars
<1>9. ASSUME NEW c \in HeapCell, GetNewEnvHandle(c) PROVE PoolTypeOK'
  <2>1. env_counter' \in Nat /\ -env_counter' \in Int /\ c \in Cell
    BY <1>1, <1>9 DEF GetNewEnvHandle, PoolTypeOK, Cell
  <2>2. DOMAIN envs' \subseteq Int /\ envs' \in [DOMAIN envs' -> Cell]
    BY <1>1, <1>9, <2>1 DEF GetNewEnvHandle, Bind, PoolTypeOK
  <2>3. DOMAIN rev_envs' \subseteq Cell /\ rev_envs' \in [DOMAIN rev_envs' -> Int]
    BY <1>1, <1>9, <2>1 DEF GetNewEnvHandle, Bind, PoolTypeOK
  <2> QED
    BY <1>1, <1>9, <2>1, <2>2, <2>3 DEF GetNewEnvHandle, PoolTypeOK, stackVars
<1>10. ASSUME NEW h \in DOMAIN envs, DeleteEnv(h) PROVE PoolTypeOK'
  BY <1>1, <1>10
  DEF DeleteEnv, ClearEnv, EnvsWithout, RevEnvsWithout, PoolTypeOK, stackVars
<1>11. CASE UNCHANGED poolVars
  BY <1>1, <1>11 DEF poolVars, stackVars, envVars, PoolTypeOK
<1> QED
  BY <1>1, <1>4, <1>5, <1>6, <1>7, <1>8, <1>9, <1>10, <1>11, StepCases

\* No step puts a cell in two places or loses one.
LEMMA PartitionStep ==
    ASSUME PoolInv, [PoolNext]_poolVars
    PROVE  CellsPartitioned' /\ PoolNeverExhausted'
<1>1. Depth \in Nat /\ Depth >= 1 /\ PoolTypeOK /\ CellsPartitioned /\ PoolNeverExhausted
  BY DepthPositive DEF PoolInv
<1>2. /\ Len(unused_scopes) \in Nat /\ unused_scopes \in Seq(PoolCell)
      /\ pool_in_use \in Nat /\ MaxDepth \in Nat
  BY <1>1, SizeAssumption DEF PoolTypeOK
<1>a. /\ \A i \in 1 .. Depth : memory_stack[i] \in Int
      /\ \A j \in 1 .. Len(unused_scopes) : unused_scopes[j] \in Int
  <2>1. PoolCell \subseteq Int
    BY SizeAssumption DEF PoolCell
  <2>2. /\ \A i \in 1 .. Depth : memory_stack[i] \in PoolCell
        /\ \A j \in 1 .. Len(unused_scopes) : unused_scopes[j] \in PoolCell
    BY <1>1 DEF PoolTypeOK, Depth
  <2> QED BY <2>1, <2>2
<1>b. /\ Depth + Len(unused_scopes) = pool_in_use /\ pool_in_use <= MaxDepth
      /\ \A i \in 1 .. Depth : memory_stack[i] < pool_in_use
      /\ \A j \in 1 .. Len(unused_scopes) : unused_scopes[j] < pool_in_use
  BY <1>1 DEF CellsPartitioned, PoolNeverExhausted
<1>c. \A i, j \in 1 .. Depth : memory_stack[i] = memory_stack[j] => i = j
  BY <1>1 DEF CellsPartitioned, NoDup, Depth
<1>3. ASSUME NEW f \in Function, OpenScope(f)
      PROVE  CellsPartitioned' /\ PoolNeverExhausted'
  <2>1. PICK c \in PoolCell :
          /\ Push(c, f)
          /\ c \notin OnStack
          /\ \/ /\ Len(unused_scopes) > 0
                /\ c = unused_scopes[Len(unused_scopes)]
                /\ unused_scopes' = SubSeq(unused_scopes, 1, Len(unused_scopes) - 1)
                /\ pool_in_use' = pool_in_use
             \/ /\ Len(unused_scopes) = 0
                /\ c = pool_in_use
                /\ unused_scopes' = unused_scopes
                /\ pool_in_use' = pool_in_use + 1
                /\ pool_in_use + 1 <= MaxDepth
    BY <1>3, OpenPushes
  <2>2. /\ Depth' = Depth + 1
        /\ \A i \in 1 .. Depth : memory_stack'[i] = memory_stack[i]
        /\ memory_stack'[Depth + 1] = c
    BY <1>1, <2>1, PushAppends DEF Push, Depth
  <2>3. \A i \in 1 .. Depth : memory_stack[i] # c
    BY <2>1 DEF OnStack
  <2>4. NoDup(memory_stack')
    BY <1>1, <2>2, <2>3 DEF CellsPartitioned, NoDup, Depth
  <2>5. CASE /\ Len(unused_scopes) > 0
             /\ c = unused_scopes[Len(unused_scopes)]
             /\ unused_scopes' = SubSeq(unused_scopes, 1, Len(unused_scopes) - 1)
             /\ pool_in_use' = pool_in_use
    <3>1. /\ Len(unused_scopes') = Len(unused_scopes) - 1
          /\ \A j \in 1 .. Len(unused_scopes') : unused_scopes'[j] = unused_scopes[j]
      BY <1>1, <2>5, ReuseShrinks
    <3>2. \A j \in 1 .. Len(unused_scopes') : unused_scopes[j] # c
      BY <1>1, <1>2, <2>5, <3>1 DEF CellsPartitioned, NoDup
    <3>3. NoDup(unused_scopes')
      BY <1>1, <1>2, <3>1 DEF CellsPartitioned, NoDup
    <3>4. \A i \in 1 .. Depth', j \in 1 .. Len(unused_scopes') :
            memory_stack'[i] # unused_scopes'[j]
      <4> SUFFICES ASSUME NEW i \in 1 .. Depth', NEW j \in 1 .. Len(unused_scopes')
                   PROVE  memory_stack'[i] # unused_scopes'[j]
        OBVIOUS
      <4>1. CASE i = Depth + 1
        BY <2>2, <3>1, <3>2, <4>1
      <4>2. CASE i \in 1 .. Depth
        BY <1>1, <1>2, <2>2, <3>1, <4>2 DEF CellsPartitioned
      <4> QED BY <1>1, <2>2, <4>1, <4>2
    <3>a. /\ Len(unused_scopes) > 0 /\ c = unused_scopes[Len(unused_scopes)]
          /\ pool_in_use' = pool_in_use
      BY <2>5
    <3>5. /\ \A i \in 1 .. Depth' : memory_stack'[i] < pool_in_use'
          /\ \A j \in 1 .. Len(unused_scopes') : unused_scopes'[j] < pool_in_use'
      <4>1. c < pool_in_use
        BY <1>2, <1>b, <3>a
      <4>2. \A i \in 1 .. Depth' : memory_stack'[i] < pool_in_use'
        BY <1>1, <1>b, <2>2, <3>a, <4>1
      <4>3. \A j \in 1 .. Len(unused_scopes') : unused_scopes'[j] < pool_in_use'
        BY <1>2, <1>b, <3>a, <3>1
      <4> QED BY <4>2, <4>3
    <3>6. Depth' + Len(unused_scopes') = pool_in_use' /\ pool_in_use' <= MaxDepth
      <4>1. Depth' = Depth + 1 /\ Len(unused_scopes') = Len(unused_scopes) - 1
        BY <2>2, <3>1
      <4>2. pool_in_use' <= MaxDepth
        BY <1>b, <3>a
      <4> QED BY <1>1, <1>2, <1>b, <3>a, <4>1, <4>2
    <3> QED
      BY <2>4, <3>3, <3>4, <3>5, <3>6 DEF CellsPartitioned, PoolNeverExhausted
  <2>6. CASE /\ Len(unused_scopes) = 0
             /\ c = pool_in_use
             /\ unused_scopes' = unused_scopes
             /\ pool_in_use' = pool_in_use + 1
             /\ pool_in_use + 1 <= MaxDepth
    <3>1. \A i \in 1 .. Depth' : memory_stack'[i] < pool_in_use'
      BY <1>1, <1>2, <1>a, <2>2, <2>6 DEF CellsPartitioned
    <3>2. Depth' + Len(unused_scopes') = pool_in_use'
      BY <1>1, <1>2, <2>2, <2>6 DEF CellsPartitioned
    <3>3. /\ NoDup(unused_scopes')
          /\ \A i \in 1 .. Depth', j \in 1 .. Len(unused_scopes') :
                memory_stack'[i] # unused_scopes'[j]
          /\ \A j \in 1 .. Len(unused_scopes') : unused_scopes'[j] < pool_in_use'
      BY <2>6 DEF NoDup
    <3> QED
      BY <2>4, <2>6, <3>1, <3>2, <3>3 DEF CellsPartitioned, PoolNeverExhausted
  <2> QED BY <2>1, <2>5, <2>6
<1>4. ASSUME NEW n \in 1 .. (Depth - 1), CloseDownTo(n)
      PROVE  CellsPartitioned' /\ PoolNeverExhausted'
  <2>1. n \in 1 .. Depth /\ n \in Nat
    BY <1>1
  <2>2. Depth' = n /\ \A i \in 1 .. n : memory_stack'[i] = memory_stack[i]
    BY <1>1, <1>4, <2>1, CloseLeaves DEF CloseDownTo, Depth
  <2>3. /\ Len(unused_scopes') = Len(unused_scopes) + Depth - n
        /\ \A i \in 1 .. Len(unused_scopes') :
             unused_scopes'[i] = IF i <= Len(unused_scopes) THEN unused_scopes[i]
                                 ELSE memory_stack[Depth + 1 - (i - Len(unused_scopes))]
    BY <1>1, <1>4, <2>1, CloseQueues DEF CloseDownTo
  <2>4. pool_in_use' = pool_in_use
    BY <1>4 DEF CloseDownTo
  <2>5. \A i \in 1 .. Len(unused_scopes') :
          ~(i <= Len(unused_scopes)) =>
             Depth + 1 - (i - Len(unused_scopes)) \in (n + 1) .. Depth
    BY <1>1, <1>2, <2>1, <2>3
  <2>6. NoDup(memory_stack')
    BY <1>1, <2>1, <2>2 DEF CellsPartitioned, NoDup, Depth
  <2>7. NoDup(unused_scopes')
    <3> SUFFICES ASSUME NEW i \in 1 .. Len(unused_scopes'), NEW j \in 1 .. Len(unused_scopes'),
                        unused_scopes'[i] = unused_scopes'[j]
                 PROVE  i = j
      BY DEF NoDup
    <3>1. CASE i <= Len(unused_scopes) /\ j <= Len(unused_scopes)
      BY <1>1, <1>2, <2>3, <3>1 DEF CellsPartitioned, NoDup
    <3>2. CASE ~(i <= Len(unused_scopes)) /\ ~(j <= Len(unused_scopes))
      <4> DEFINE p == Depth + 1 - (i - Len(unused_scopes))
                 q == Depth + 1 - (j - Len(unused_scopes))
      <4>1. p \in (n + 1) .. Depth /\ q \in (n + 1) .. Depth
        BY <2>5, <3>2
      <4>2. memory_stack[p] = memory_stack[q]
        BY <2>3, <3>2
      <4>3. p = q
        BY <1>1, <1>c, <2>1, <4>1, <4>2
      <4> QED BY <1>1, <1>2, <2>3, <4>3
    <3>3. CASE i <= Len(unused_scopes) /\ ~(j <= Len(unused_scopes))
      BY <1>1, <1>2, <2>1, <2>3, <2>5, <3>3 DEF CellsPartitioned
    <3>4. CASE ~(i <= Len(unused_scopes)) /\ j <= Len(unused_scopes)
      BY <1>1, <1>2, <2>1, <2>3, <2>5, <3>4 DEF CellsPartitioned
    <3> QED BY <3>1, <3>2, <3>3, <3>4
  <2>8. ASSUME NEW i \in 1 .. Depth', NEW j \in 1 .. Len(unused_scopes')
        PROVE  memory_stack'[i] # unused_scopes'[j]
    <3>1. CASE j <= Len(unused_scopes)
      BY <1>1, <1>2, <2>1, <2>2, <2>3, <3>1 DEF CellsPartitioned
    <3>2. CASE ~(j <= Len(unused_scopes))
      <4> DEFINE q == Depth + 1 - (j - Len(unused_scopes))
      <4>1. q \in (n + 1) .. Depth /\ unused_scopes'[j] = memory_stack[q]
        BY <2>3, <2>5, <3>2
      <4>2. i \in 1 .. Depth /\ i # q /\ memory_stack'[i] = memory_stack[i]
        BY <1>1, <2>1, <2>2, <4>1
      <4> QED
        BY <1>1, <1>c, <2>1, <4>1, <4>2
    <3> QED BY <3>1, <3>2
  <2>9. /\ \A i \in 1 .. Depth' : memory_stack'[i] < pool_in_use'
        /\ \A j \in 1 .. Len(unused_scopes') : unused_scopes'[j] < pool_in_use'
    <3>1. \A i \in 1 .. Depth' : memory_stack'[i] < pool_in_use'
      BY <1>1, <1>b, <2>1, <2>2, <2>4
    <3>2. \A j \in 1 .. Len(unused_scopes') : unused_scopes'[j] < pool_in_use'
      BY <1>1, <1>2, <1>b, <2>1, <2>3, <2>4, <2>5
    <3> QED BY <3>1, <3>2
  <2>10. Depth' + Len(unused_scopes') = pool_in_use' /\ pool_in_use' <= MaxDepth
    BY <1>1, <1>2, <2>1, <2>2, <2>3, <2>4 DEF CellsPartitioned, PoolNeverExhausted
  <2> QED
    BY <2>6, <2>7, <2>8, <2>9, <2>10 DEF CellsPartitioned, PoolNeverExhausted
<1>5. CASE UNCHANGED <<memory_stack, unused_scopes, pool_in_use>>
  BY <1>1, <1>5 DEF CellsPartitioned, PoolNeverExhausted, NoDup, Depth
<1> QED
  BY <1>1, <1>3, <1>4, <1>5, StepCases
  DEF RegisterNestedFunction, GetBaseEnvHandle, GetCurrentEnvHandle, GetNewEnvHandle,
      DeleteEnv, poolVars, stackVars

\* Clearing the scopes of cs leaves the two maps in agreement, and of a scope of cs
\* other than the base no handle at all.
LEMMA ClearKeepsAgreement ==
    ASSUME EnvMapsAgree, NEW cs, ClearEnv(cs), Base' = Base
    PROVE  /\ EnvMapsAgree'
           /\ DOMAIN envs' \subseteq DOMAIN envs
           /\ \A h \in DOMAIN envs' : envs'[h] = envs[h] /\ (envs[h] \in cs => envs[h] = Base)
<1>1. /\ DOMAIN envs' = DOMAIN envs \ {rev_envs[c] : c \in cs \cap DOMAIN rev_envs}
      /\ \A h \in DOMAIN envs' : envs'[h] = envs[h]
  BY DEF ClearEnv, EnvsWithout
<1>2. /\ DOMAIN rev_envs' = DOMAIN rev_envs \ cs
      /\ \A c \in DOMAIN rev_envs' : rev_envs'[c] = rev_envs[c]
  BY DEF ClearEnv, RevEnvsWithout
<1>3. ASSUME NEW h \in DOMAIN envs', envs[h] # Base
      PROVE  envs[h] \notin cs /\ envs[h] \in DOMAIN rev_envs /\ rev_envs[envs[h]] = h
  BY <1>1, <1>3 DEF EnvMapsAgree
<1>4. ASSUME NEW c \in DOMAIN rev_envs'
      PROVE  rev_envs'[c] \in DOMAIN envs' /\ envs'[rev_envs'[c]] = c
  <2>1. c \notin cs /\ rev_envs[c] \in DOMAIN envs /\ envs[rev_envs[c]] = c
    BY <1>2 DEF EnvMapsAgree
  <2>2. \A d \in cs \cap DOMAIN rev_envs : rev_envs[d] # rev_envs[c]
    BY <2>1 DEF EnvMapsAgree
  <2> QED BY <1>1, <1>2, <2>1, <2>2
<1>5. EnvMapsAgree'
  BY <1>1, <1>2, <1>3, <1>4 DEF EnvMapsAgree
<1> QED BY <1>1, <1>3, <1>5

\* No step leaves a handle to a closed scope, or in one of the maps only.
LEMMA HandleStep ==
    ASSUME PoolInv, [PoolNext]_poolVars
    PROVE  /\ HandlesNeverDangle' /\ EnvMapsAgree' /\ HandlesFromCounter'
           /\ \A h \in DOMAIN envs \cap DOMAIN envs' : envs'[h] = envs[h]
<1> DEFINE Goal ==
      /\ HandlesNeverDangle' /\ EnvMapsAgree' /\ HandlesFromCounter'
      /\ \A h \in DOMAIN envs \cap DOMAIN envs' : envs'[h] = envs[h]
<1>1. /\ Depth \in Nat /\ Depth >= 1 /\ PoolTypeOK /\ CellsPartitioned
      /\ HandlesNeverDangle /\ EnvMapsAgree /\ HandlesFromCounter
  BY DepthPositive DEF PoolInv
<1>2. Base' = Base
  BY BaseIsFixed
<1>3. /\ env_counter \in Nat /\ DOMAIN envs \subseteq Int
      /\ allocated_envs \subseteq HeapCell
  BY <1>1 DEF PoolTypeOK
<1>4. Base \in OnStack /\ OnStack \subseteq PoolCell
  BY <1>1 DEF Base, OnStack, PoolTypeOK, Depth
<1>5. PoolCell \cap HeapCell = {}
  BY HeapAssumption
<1>6. ASSUME NEW f \in Function, OpenScope(f) PROVE Goal
  <2>1. PICK c \in PoolCell : Push(c, f)
    BY <1>6, OpenPushes
  <2>2. Depth' = Depth + 1 /\ \A i \in 1 .. Depth : memory_stack'[i] = memory_stack[i]
    BY <1>1, <2>1, PushAppends DEF Push, Depth
  <2>3. OnStack \subseteq OnStack'
    BY <1>1, <2>2 DEF OnStack
  <2>4. UNCHANGED envVars
    BY <1>6 DEF OpenScope
  <2> QED
    BY <1>1, <1>2, <2>3, <2>4
    DEF HandlesNeverDangle, EnvMapsAgree, HandlesFromCounter, envVars
<1>7. ASSUME NEW n \in 1 .. (Depth - 1), CloseDownTo(n) PROVE Goal
  <2>1. n \in 1 .. Depth
    BY <1>1
  <2>2. Depth' = n /\ \A i \in 1 .. n : memory_stack'[i] = memory_stack[i]
    BY <1>1, <1>7, <2>1, CloseLeaves DEF CloseDownTo, Depth
  <2>3. /\ EnvMapsAgree' /\ DOMAIN envs' \subseteq DOMAIN envs
        /\ \A h \in DOMAIN envs' :
             envs'[h] = envs[h] /\ (envs[h] \in Closed(n) => envs[h] = Base)
    BY <1>1, <1>2, <1>7, ClearKeepsAgreement DEF CloseDownTo
  <2>4. Base \notin Closed(n)
    BY <1>1, <2>1 DEF Base, Closed, CellsPartitioned, NoDup, Depth
  <2>5. OnStack \subseteq OnStack' \cup Closed(n)
    BY <1>1, <2>1, <2>2 DEF OnStack, Closed
  <2>6. Closed(n) \subseteq OnStack
    BY <1>1, <2>1 DEF OnStack, Closed
  <2>7. allocated_envs' = allocated_envs
    BY <1>3, <1>4, <1>5, <1>7, <2>6 DEF CloseDownTo, ClearEnv
  <2>8. HandlesNeverDangle'
    BY <1>1, <2>3, <2>4, <2>5, <2>7 DEF HandlesNeverDangle
  <2>9. HandlesFromCounter'
    BY <1>1, <1>2, <1>7, <2>3 DEF HandlesFromCounter, CloseDownTo
  <2> QED BY <2>3, <2>8, <2>9
<1>8. CASE GetBaseEnvHandle
  <2>1. /\ DOMAIN envs' = DOMAIN envs \cup {0} /\ envs'[0] = Base
        /\ \A h \in DOMAIN envs : h # 0 => envs'[h] = envs[h]
        /\ DOMAIN rev_envs' = DOMAIN rev_envs \cup {Base} /\ rev_envs'[Base] = 0
        /\ \A c \in DOMAIN rev_envs : c # Base => rev_envs'[c] = rev_envs[c]
    BY <1>8 DEF GetBaseEnvHandle, Bind
  <2>2. OnStack' = OnStack /\ allocated_envs' = allocated_envs /\ env_counter' = env_counter
    BY <1>8 DEF GetBaseEnvHandle, stackVars, OnStack, Depth
  <2>3. HandlesNeverDangle'
    BY <1>1, <1>4, <2>1, <2>2 DEF HandlesNeverDangle
  <2>4. EnvMapsAgree'
    BY <1>1, <1>2, <2>1 DEF EnvMapsAgree, HandlesFromCounter
  <2>5. HandlesFromCounter'
    BY <1>1, <1>2, <1>3, <2>1, <2>2 DEF HandlesFromCounter
  <2>6. \A h \in DOMAIN envs \cap DOMAIN envs' : envs'[h] = envs[h]
    BY <1>1, <2>1 DEF HandlesFromCounter
  <2> QED BY <2>3, <2>4, <2>5, <2>6
<1>9. ASSUME NEW c \in Cell, NEW k \in Int,
             k # 0, k = env_counter' \/ k = -env_counter', env_counter' = env_counter + 1,
             c \notin DOMAIN rev_envs, c \in OnStack' \cup allocated_envs',
             OnStack' = OnStack, allocated_envs \subseteq allocated_envs',
             envs' = Bind(envs, k, c), rev_envs' = Bind(rev_envs, c, k)
      PROVE  Goal
  <2>1. k \notin DOMAIN envs
    BY <1>1, <1>3, <1>9 DEF HandlesFromCounter
  <2>2. /\ DOMAIN envs' = DOMAIN envs \cup {k} /\ envs'[k] = c
        /\ \A h \in DOMAIN envs : envs'[h] = envs[h]
        /\ DOMAIN rev_envs' = DOMAIN rev_envs \cup {c} /\ rev_envs'[c] = k
        /\ \A d \in DOMAIN rev_envs : rev_envs'[d] = rev_envs[d]
    BY <1>9, <2>1 DEF Bind
  <2>3. HandlesNeverDangle'
    BY <1>1, <1>9, <2>2 DEF HandlesNeverDangle
  <2>4. EnvMapsAgree'
    BY <1>1, <1>2, <1>9, <2>2 DEF EnvMapsAgree
  <2>5. \A h \in DOMAIN envs' : h \in (-env_counter') .. env_counter'
    BY <1>1, <1>3, <1>9, <2>2 DEF HandlesFromCounter
  <2>6. HandlesFromCounter'
    BY <1>1, <1>2, <1>9, <2>2, <2>5 DEF HandlesFromCounter
  <2> QED BY <2>2, <2>3, <2>4, <2>6
<1>10. CASE GetCurrentEnvHandle
  <2>1. env_counter' = env_counter + 1 /\ allocated_envs' = allocated_envs /\ OnStack' = OnStack
    BY <1>10 DEF GetCurrentEnvHandle, stackVars, OnStack, Depth
  <2>2. CASE Current \in DOMAIN rev_envs
    <3>1. UNCHANGED <<envs, rev_envs>>
      BY <1>10, <2>2 DEF GetCurrentEnvHandle
    <3>2. HandlesFromCounter'
      BY <1>1, <1>2, <1>3, <2>1, <3>1 DEF HandlesFromCounter
    <3> QED
      BY <1>1, <1>2, <2>1, <3>1, <3>2 DEF HandlesNeverDangle, EnvMapsAgree
  <2>3. CASE Current \notin DOMAIN rev_envs
    <3>1. /\ Current \in OnStack /\ Current \in Cell
      BY <1>1, <1>4 DEF Current, OnStack, Cell
    <3>2. env_counter' # 0 /\ env_counter' \in Int
      BY <1>3, <2>1
    <3>3. envs' = Bind(envs, env_counter', Current) /\ rev_envs' = Bind(rev_envs, Current, env_counter')
      BY <1>10, <2>3 DEF GetCurrentEnvHandle
    <3> QED BY <1>9, <2>1, <2>3, <3>1, <3>2, <3>3
  <2> QED BY <2>2, <2>3
<1>11. ASSUME NEW c \in HeapCell, GetNewEnvHandle(c) PROVE Goal
  <2>1. env_counter' = env_counter + 1 /\ OnStack' = OnStack
    BY <1>11 DEF GetNewEnvHandle, stackVars, OnStack, Depth
  <2>2. c \notin DOMAIN rev_envs
    BY <1>1, <1>4, <1>5, <1>11 DEF GetNewEnvHandle, EnvMapsAgree, HandlesNeverDangle
  <2>3. c \in Cell /\ c \in allocated_envs' /\ allocated_envs \subseteq allocated_envs'
    BY <1>11 DEF GetNewEnvHandle, Cell
  <2>4. -env_counter' # 0 /\ -env_counter' \in Int
    BY <1>3, <2>1
  <2>5. envs' = Bind(envs, -env_counter', c) /\ rev_envs' = Bind(rev_envs, c, -env_counter')
    BY <1>11 DEF GetNewEnvHandle
  <2> QED BY <1>9, <2>1, <2>2, <2>3, <2>4, <2>5
<1>12. ASSUME NEW h \in DOMAIN envs, DeleteEnv(h) PROVE Goal
  <2>1. /\ EnvMapsAgree' /\ DOMAIN envs' \subseteq DOMAIN envs
        /\ \A k \in DOMAIN envs' :
             envs'[k] = envs[k] /\ (envs[k] \in {envs[h]} => envs[k] = Base)
    BY <1>1, <1>2, <1>12, ClearKeepsAgreement DEF DeleteEnv
  <2>2. OnStack' = OnStack /\ env_counter' = env_counter
    BY <1>12 DEF DeleteEnv, stackVars, OnStack, Depth
  <2>3. allocated_envs \ {envs[h]} \subseteq allocated_envs'
    BY <1>12 DEF DeleteEnv, ClearEnv
  <2>4. HandlesNeverDangle'
    BY <1>1, <1>4, <2>1, <2>2, <2>3 DEF HandlesNeverDangle
  <2>5. HandlesFromCounter'
    BY <1>1, <1>2, <2>1, <2>2 DEF HandlesFromCounter
  <2> QED BY <2>1, <2>4, <2>5
<1>13. CASE UNCHANGED <<memory_stack, envVars>>
  BY <1>1, <1>2, <1>13
  DEF HandlesNeverDangle, EnvMapsAgree, HandlesFromCounter, OnStack, Depth, envVars
<1> QED
  BY <1>1, <1>6, <1>7, <1>8, <1>10, <1>11, <1>12, <1>13, StepCases
  DEF RegisterNestedFunction, poolVars, stackVars

\* No step leaves a scope with nested functions out of the search.
LEMMA NestedStep ==
    ASSUME PoolInv, [PoolNext]_poolVars
    PROVE  NestedSearchCovers' /\ RegisteredAreOpen'
<1>1. /\ Depth \in Nat /\ Depth >= 1 /\ PoolTypeOK
      /\ first_scope_with_nested < Depth /\ first_scope_with_nested \in Nat \cup {-1}
      /\ \A i \in 1 .. Depth : memory_stack[i] \in registered =>
            first_scope_with_nested \in 0 .. (i - 1)
      /\ registered \subseteq OnStack
      /\ \A i, j \in 1 .. Depth : memory_stack[i] = memory_stack[j] => i = j
  BY DepthPositive
  DEF PoolInv, NestedSearchCovers, RegisteredAreOpen, CellsPartitioned, NoDup, Depth, PoolTypeOK
<1>2. ASSUME NEW f \in Function, OpenScope(f)
      PROVE  NestedSearchCovers' /\ RegisteredAreOpen'
  <2>1. PICK c \in PoolCell : Push(c, f) /\ c \notin OnStack
    BY <1>2, OpenPushes
  <2>2. /\ Depth' = Depth + 1
        /\ \A i \in 1 .. Depth : memory_stack'[i] = memory_stack[i]
        /\ memory_stack'[Depth + 1] = c
    BY <1>1, <2>1, PushAppends DEF Push, Depth
  <2>3. UNCHANGED <<first_scope_with_nested, registered>>
    BY <1>2 DEF OpenScope
  <2>4. RegisteredAreOpen'
    BY <1>1, <2>2, <2>3 DEF RegisteredAreOpen, OnStack
  <2>5. \A i \in 1 .. Depth' : memory_stack'[i] \in registered' =>
            first_scope_with_nested' \in 0 .. (i - 1)
    BY <1>1, <2>1, <2>2, <2>3
  <2> QED BY <1>1, <2>2, <2>3, <2>4, <2>5 DEF NestedSearchCovers
<1>3. ASSUME NEW n \in 1 .. (Depth - 1), CloseDownTo(n)
      PROVE  NestedSearchCovers' /\ RegisteredAreOpen'
  <2>1. n \in 1 .. Depth /\ n \in Nat
    BY <1>1
  <2>2. Depth' = n /\ \A i \in 1 .. n : memory_stack'[i] = memory_stack[i]
    BY <1>1, <1>3, <2>1, CloseLeaves DEF CloseDownTo, Depth
  <2>3. /\ first_scope_with_nested' = IF first_scope_with_nested \in n .. (Depth - 1)
                                        THEN -1 ELSE first_scope_with_nested
        /\ registered' = registered \ Closed(n)
    BY <1>3 DEF CloseDownTo
  <2>4. first_scope_with_nested' < Depth'
    BY <1>1, <2>1, <2>2, <2>3
  <2>5. \A i \in 1 .. Depth' : memory_stack'[i] \in registered' =>
            first_scope_with_nested' \in 0 .. (i - 1)
    BY <1>1, <2>1, <2>2, <2>3
  <2>6. RegisteredAreOpen'
    BY <1>1, <2>1, <2>2, <2>3 DEF RegisteredAreOpen, OnStack, Closed
  <2> QED BY <2>4, <2>5, <2>6 DEF NestedSearchCovers
<1>4. CASE RegisterNestedFunction
  <2>1. /\ UNCHANGED memory_stack
        /\ first_scope_with_nested' = IF first_scope_with_nested = -1
                                        THEN Depth - 1 ELSE first_scope_with_nested
        /\ registered' = registered \cup {Current}
    BY <1>4 DEF RegisterNestedFunction
  <2>2. Depth' = Depth /\ OnStack' = OnStack /\ Current \in OnStack
    BY <1>1, <2>1 DEF Depth, OnStack, Current
  <2>3. \A i \in 1 .. Depth : memory_stack[i] = Current => i = Depth
    BY <1>1 DEF Current
  <2>4. \A i \in 1 .. Depth : memory_stack[i] \in registered' =>
            first_scope_with_nested' \in 0 .. (i - 1)
    BY <1>1, <2>1, <2>3
  <2>5. first_scope_with_nested' < Depth
    BY <1>1, <2>1
  <2>6. RegisteredAreOpen'
    BY <1>1, <2>1, <2>2 DEF RegisteredAreOpen
  <2> QED BY <2>1, <2>2, <2>4, <2>5, <2>6 DEF NestedSearchCovers
<1>5. CASE UNCHANGED stackVars
  <2>1. Depth' = Depth /\ OnStack' = OnStack
    BY <1>5 DEF stackVars, Depth, OnStack
  <2> QED
    BY <1>1, <1>5, <2>1 DEF stackVars, NestedSearchCovers, RegisteredAreOpen
<1> QED
  BY <1>1, <1>2, <1>3, <1>4, <1>5, StepCases
  DEF GetBaseEnvHandle, GetCurrentEnvHandle, GetNewEnvHandle, DeleteEnv, poolVars

------------------------------------------------------------------------------
(* The theorems. *)

\* The invariant holds at the start.
LEMMA InitEstablishes == PoolInit => PoolInv
<1> SUFFICES ASSUME PoolInit PROVE PoolInv
  OBVIOUS
<1>1. 0 \in PoolCell /\ Cell # {}
  BY SizeAssumption DEF PoolCell, Cell
<1>2. /\ memory_stack = <<0>> /\ unused_scopes = <<>> /\ pool_in_use = 1
      /\ fi = [c \in Cell |-> NULL] /\ first_scope_with_nested = -1 /\ registered = {}
      /\ DOMAIN envs = {} /\ DOMAIN rev_envs = {} /\ allocated_envs = {} /\ env_counter = 0
      /\ envs \in [{} -> Cell] /\ rev_envs \in [{} -> Int]
  BY DEF PoolInit
<1>3. Len(memory_stack) = 1 /\ memory_stack[1] = 0 /\ Len(unused_scopes) = 0
  BY <1>2
<1>4. PoolTypeOK
  BY <1>1, <1>2, <1>3 DEF PoolTypeOK
<1>5. CellsPartitioned /\ PoolNeverExhausted
  BY <1>2, <1>3, SizeAssumption DEF CellsPartitioned, NoDup, PoolNeverExhausted, Depth
<1>6. HandlesNeverDangle /\ EnvMapsAgree /\ HandlesFromCounter
  BY <1>2 DEF HandlesNeverDangle, EnvMapsAgree, HandlesFromCounter
<1>7. NestedSearchCovers /\ RegisteredAreOpen
  BY <1>2, <1>3 DEF NestedSearchCovers, RegisteredAreOpen, Depth
<1> QED BY <1>4, <1>5, <1>6, <1>7 DEF PoolInv

\* Every step preserves the invariant.
LEMMA StepPreserves == PoolInv /\ [PoolNext]_poolVars => PoolInv'
BY TypeStep, PartitionStep, HandleStep, NestedStep DEF PoolInv

\* The invariant holds in every state of every run: the type invariant, and with it
\* every property below.
THEOREM PoolInvariant == PoolSpec => []PoolInv
BY InitEstablishes, StepPreserves, PTL DEF PoolSpec

\* The types of MemoryScopeManager's members.
THEOREM PoolTypeCorrect == PoolSpec => []PoolTypeOK
<1>1. PoolInv => PoolTypeOK
  BY DEF PoolInv
<1> QED BY <1>1, PoolInvariant, PTL

\* Whatever sequence of calls, returns and error unwindings, OpenScope never hands
\* out a cell that is still open and never runs off the pool, for every pool longer
\* than the depth limit.
THEOREM PoolCorrect == PoolSpec => [](CellsPartitioned /\ PoolNeverExhausted)
<1>1. PoolInv => CellsPartitioned /\ PoolNeverExhausted
  BY DEF PoolInv
<1> QED BY <1>1, PoolInvariant, PTL

\* Environment handles never name a closed scope, and the two maps agree.
THEOREM HandlesCorrect == PoolSpec => [](HandlesNeverDangle /\ EnvMapsAgree)
<1>1. PoolInv => HandlesNeverDangle /\ EnvMapsAgree
  BY DEF PoolInv
<1> QED BY <1>1, PoolInvariant, PTL

\* The depth limit stops a program before OpenScope reads past the end of the pool.
THEOREM PoolLasts == PoolSpec => []PoolNeverExhausted
<1>1. CellsPartitioned /\ PoolNeverExhausted => PoolNeverExhausted
  OBVIOUS
<1> QED BY <1>1, PoolCorrect, PTL

\* The map from handles to scopes and the one back list the same pairs.
THEOREM HandleMapsAgree == PoolSpec => []EnvMapsAgree
<1>1. HandlesNeverDangle /\ EnvMapsAgree => EnvMapsAgree
  OBVIOUS
<1> QED BY <1>1, HandlesCorrect, PTL

\* The range GetNestedFunction searches covers every open scope with nested functions.
THEOREM NestedSearchCorrect == PoolSpec => []NestedSearchCovers
<1>1. PoolInv => NestedSearchCovers
  BY DEF PoolInv
<1> QED BY <1>1, PoolInvariant, PTL

\* A handle in use never changes its scope.
THEOREM HandlesAreStable == PoolSpec => HandlesStable
<1>1. PoolInv /\ [PoolNext]_poolVars =>
        [\A h \in DOMAIN envs \cap DOMAIN envs' : envs'[h] = envs[h]]_poolVars
  BY HandleStep
<1> QED BY <1>1, PoolInvariant, PTL DEF PoolSpec, HandlesStable

==============================================================================
