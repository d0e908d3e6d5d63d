-------------------------- MODULE MemoryScopeProofs --------------------------
(***************************************************************************)
(* What scopes hold, for every set of functions, names and values: a call  *)
(* starts with an empty workspace although its scope was used before, a    *)
(* nested function sees what its caller saw, and recycled scopes implement *)
(* the frames of CallFrames.                                               *)
(***************************************************************************)
EXTENDS MemoryScope, ScopePoolProofs

Held == Val \cup {NOTHING}

ContentTypes ==
    /\ scope \in [Cell -> [Var -> Held]]
    /\ global_names \in [Cell -> SUBSET Var]
    /\ globals \in [Var -> Held]
    /\ persistent \in [Function -> [Var -> Held]]

\* A scope of the heap runs no function and declares no global: only the running
\* scope declares names, and it is on the stack.
HeapScopesPlain ==
    \A c \in allocated_envs : fi[c] = NULL /\ global_names[c] = {}

\* The inductive invariant.
MemInv == PoolInv /\ ContentTypes /\ UnusedScopesClean /\ HeapScopesPlain

InUse == OnStack \cup allocated_envs

------------------------------------------------------------------------------
(* Cells. *)

\* The stack and the heap share no cell; the running scope is one of the stack.
LEMMA CellsInUse ==
    ASSUME PoolInv
    PROVE  /\ Depth \in Nat /\ Depth >= 1
           /\ OnStack \subseteq PoolCell /\ OnStack \subseteq Cell
           /\ Current \in OnStack
           /\ allocated_envs \subseteq Cell /\ allocated_envs \cap OnStack = {}
           /\ \A h \in DOMAIN envs : envs[h] \in InUse
           /\ \A i \in 1 .. Depth : memory_stack[i] \in OnStack
<1>1. Depth \in Nat /\ Depth >= 1 /\ PoolTypeOK
  BY DepthPositive DEF PoolInv
<1>2. OnStack \subseteq PoolCell /\ \A i \in 1 .. Depth : memory_stack[i] \in OnStack
  BY <1>1 DEF PoolTypeOK, OnStack, Depth
<1>3. Current \in OnStack
  BY <1>1 DEF Current, OnStack
<1>4. allocated_envs \subseteq Cell /\ allocated_envs \cap OnStack = {}
  BY <1>1, <1>2, HeapAssumption DEF PoolTypeOK, Cell
<1>5. \A h \in DOMAIN envs : envs[h] \in InUse
  BY DEF PoolInv, HandlesNeverDangle, InUse
<1> QED BY <1>1, <1>2, <1>3, <1>4, <1>5 DEF Cell

\* A step that leaves the pool alone, writes the locals of one scope in use and
\* declares names on the stack only, dirties no scope.
LEMMA UseKeepsClean ==
    ASSUME MemInv, UNCHANGED poolVars, NEW c \in InUse,
           \A d \in Cell : d # c => scope'[d] = scope[d],
           \A d \in Cell \ OnStack : global_names'[d] = global_names[d]
    PROVE  UnusedScopesClean' /\ HeapScopesPlain'
<1>1. /\ OnStack' = OnStack /\ allocated_envs' = allocated_envs /\ fi' = fi
      /\ allocated_envs \subseteq Cell /\ allocated_envs \cap OnStack = {}
  BY CellsInUse DEF MemInv, poolVars, stackVars, envVars, OnStack, Depth
<1>2. UnusedScopesClean'
  BY <1>1 DEF MemInv, UnusedScopesClean, InUse
<1>3. HeapScopesPlain'
  BY <1>1 DEF MemInv, HeapScopesPlain
<1> QED BY <1>2, <1>3

------------------------------------------------------------------------------
(* Values. *)

\* A lookup in one scope ends in a value or fails.
LEMMA ValueType ==
    ASSUME ContentTypes, PoolTypeOK, NEW c \in Cell, NEW v \in Var
    PROVE  Value(c, v) \in Held /\ GlobalValue(v) \in Val
<1>1. globals[v] \in Held /\ scope[c][v] \in Held
  BY DEF ContentTypes
<1>2. GlobalValue(v) \in Val
  BY <1>1 DEF GlobalValue, Empty, Val, Held
<1>3. IsPersistent(c, v) => persistent[fi[c]][v] \in Held
  BY DEF ContentTypes, PoolTypeOK, IsPersistent
<1> QED BY <1>1, <1>2, <1>3 DEF Value, Held

\* What is stored keeps the types.
LEMMA StoreTypes ==
    ASSUME ContentTypes, NEW c \in Cell, NEW vals,
           DOMAIN vals \subseteq Var, \A v \in DOMAIN vals : vals[v] \in Held
    PROVE  /\ GlobalsWith(c, vals) \in [Var -> Held]
           /\ PersistentWith(c, vals) \in [Function -> [Var -> Held]]
           /\ LocalsWith(c, vals) \in [Var -> Held]
<1>1. GlobalsWith(c, vals) \in [Var -> Held]
  BY DEF ContentTypes, GlobalsWith
<1>2. PersistentWith(c, vals) \in [Function -> [Var -> Held]]
  BY DEF ContentTypes, PersistentWith
<1>3. LocalsWith(c, vals) \in [Var -> Held]
  BY DEF ContentTypes, LocalsWith
<1> QED BY <1>1, <1>2, <1>3

\* What is read keeps the types.
LEMMA ReadTypes ==
    ASSUME ContentTypes, NEW cs, NEW V
    PROVE  GlobalsRead(cs, V) \in [Var -> Held]
<1>1. \A v \in Var : globals[v] \in Held /\ GlobalValue(v) \in Held
  BY DEF ContentTypes, GlobalValue, Empty, Val, Held
<1> QED BY <1>1 DEF GlobalsRead

\* No variable at all.
LEMMA VacantType == Vacant \in [Var -> Held]
BY DEF Vacant, Held

\* A store in a scope in use, whatever is stored.
LEMMA StoreKeeps ==
    ASSUME MemInv, NEW c \in InUse, NEW vals, Store(c, vals),
           DOMAIN vals \subseteq Var, \A v \in DOMAIN vals : vals[v] \in Held
    PROVE  ContentTypes' /\ UnusedScopesClean' /\ HeapScopesPlain'
<1>1. c \in Cell
  BY CellsInUse DEF InUse, MemInv
<1>2. ContentTypes'
  BY <1>1, StoreTypes DEF MemInv, ContentTypes, Store
<1>3. UNCHANGED poolVars /\ \A d \in Cell : d # c => scope'[d] = scope[d]
  BY DEF Store, MemInv, ContentTypes
<1>4. \A d \in Cell \ OnStack : global_names'[d] = global_names[d]
  BY DEF Store
<1> QED BY <1>2, <1>3, <1>4, UseKeepsClean

------------------------------------------------------------------------------
(* Steps of the pool. *)

\* Whatever scopes hold, each step is one of the pool or leaves it alone.
LEMMA MemStepIsPoolStep == [MemNext]_memVars => [PoolNext]_poolVars
<1> SUFFICES ASSUME [MemNext]_memVars PROVE [PoolNext]_poolVars
  OBVIOUS
<1>1. ASSUME NEW f \in Function, Open(f) PROVE PoolNext
  BY <1>1 DEF Open, PoolNext
<1>2. ASSUME Close PROVE PoolNext
  BY <1>2 DEF Close, PoolNext
<1>3. ASSUME NameEnv PROVE PoolNext
  BY <1>3 DEF NameEnv, PoolNext
<1>4. ASSUME NEW c \in HeapCell, NewEnv(c) PROVE PoolNext
  BY <1>4 DEF NewEnv, PoolNext
<1>5. ASSUME NEW h \in DOMAIN envs, DropEnv(h) PROVE PoolNext
  BY <1>5 DEF DropEnv, PoolNext
<1>6. ASSUME NEW s \in DOMAIN envs, NEW d \in DOMAIN envs, ImportEnv(s, d)
      PROVE  UNCHANGED poolVars
  BY <1>6 DEF ImportEnv
<1>7. ASSUME NEW v \in Var, Read(v) \/ AddGlobalReference(v) \/ AddPersistentReference(v)
                            \/ FailElement(v) \/ ClearName(v) \/ ClearGlobalName(v)
      PROVE  UNCHANGED poolVars
  BY <1>7 DEF Read, AddGlobalReference, AddPersistentReference, FailElement, Store,
              ClearName, ClearGlobalName
<1>8. ASSUME NEW v \in Var, NEW x, SetValue(v, x) \/ SetParentValue(v, x)
      PROVE  UNCHANGED poolVars
  BY <1>8 DEF SetValue, SetParentValue, Store
<1>9. ASSUME NEW v \in Var, NEW e, AssignElement(v, e) PROVE UNCHANGED poolVars
  BY <1>9 DEF AssignElement, Store
<1>10. ASSUME NEW h, NEW v \in Var, NEW x,
              GetEnvValue(h, v) \/ RemoveEnvValue(h, v) \/ SetEnvValue(h, v, x)
       PROVE  UNCHANGED poolVars
  BY <1>10 DEF GetEnvValue, RemoveEnvValue, SetEnvValue, Store
<1>11. ASSUME NEW P, RemovePattern(P) \/ ClearGlobalPattern(P) \/ ClearPattern(P)
       PROVE  UNCHANGED poolVars
  BY <1>11 DEF RemovePattern, ClearGlobalPattern, ClearPattern
<1>12. ASSUME ClearGlobals \/ ClearEverything PROVE UNCHANGED poolVars
  BY <1>12 DEF ClearGlobals, ClearEverything
<1>13. ASSUME UNCHANGED memVars PROVE UNCHANGED poolVars
  BY <1>13 DEF memVars
<1> QED
  BY <1>1, <1>2, <1>3, <1>4, <1>5, <1>6, <1>7, <1>8, <1>9, <1>10, <1>11, <1>12, <1>13
  DEF MemNext

------------------------------------------------------------------------------
(* Steps that open, close, allocate or free a scope. *)

\* A call takes a clean scope and leaves the others as they were.
LEMMA OpenKeeps ==
    ASSUME MemInv, NEW f \in Function, Open(f)
    PROVE  ContentTypes' /\ UnusedScopesClean' /\ HeapScopesPlain'
<1>1. ContentTypes'
  BY DEF MemInv, ContentTypes, Open, contentVars
<1>2. PICK c \in PoolCell : Push(c, f)
  BY OpenPushes DEF MemInv, Open
<1>3. /\ PoolTypeOK /\ Depth \in Nat
      /\ allocated_envs' = allocated_envs /\ scope' = scope /\ global_names' = global_names
      /\ allocated_envs \subseteq HeapCell
  BY CellsInUse DEF MemInv, PoolInv, PoolTypeOK, Open, OpenScope, envVars, contentVars
<1>4. OnStack' = OnStack \cup {c} /\ \A d \in Cell : d # c => fi'[d] = fi[d]
  <2>1. /\ memory_stack' \in Seq(PoolCell)
        /\ Len(memory_stack') = Depth + 1
        /\ \A i \in 1 .. Depth : memory_stack'[i] = memory_stack[i]
        /\ memory_stack'[Depth + 1] = c
    BY <1>2, <1>3, PushAppends DEF Push
  <2> QED BY <1>2, <1>3, <2>1 DEF OnStack, Depth, Push, PoolTypeOK
<1>5. c \notin HeapCell /\ allocated_envs \subseteq Cell
  BY <1>2, <1>3, HeapAssumption DEF Cell
<1> QED BY <1>1, <1>3, <1>4, <1>5 DEF MemInv, UnusedScopesClean, HeapScopesPlain

\* A return writes to the scope below and cleans the one that goes.
LEMMA CloseKeeps ==
    ASSUME MemInv, Close
    PROVE  ContentTypes' /\ UnusedScopesClean' /\ HeapScopesPlain'
<1> DEFINE p == memory_stack[Depth - 1]
           vals == [v \in HandedBack(Current, p) |-> scope[Current][v]]
<1>1. /\ Depth \in Nat /\ Depth > 1 /\ Depth - 1 \in 1 .. Depth /\ CloseDownTo(Depth - 1)
      /\ PoolTypeOK /\ CellsPartitioned
  BY CellsInUse DEF MemInv, PoolInv, Close, CloseScope
<1>2. /\ p \in OnStack /\ p \in Cell /\ Current \in OnStack /\ Current \in Cell
      /\ p # Current
  BY <1>1, CellsInUse DEF MemInv, CellsPartitioned, NoDup, Current, Depth
<1>3. /\ globals' = GlobalsWith(p, vals) /\ persistent' = PersistentWith(p, vals)
      /\ scope' = [scope EXCEPT ![p] = LocalsWith(p, vals), ![Current] = Vacant]
      /\ global_names' = [global_names EXCEPT ![Current] = {}]
  BY DEF Close, ForgetNames
<1>4. DOMAIN vals \subseteq Var /\ \A v \in DOMAIN vals : vals[v] \in Held
  <2>1. HandedBack(Current, p) \subseteq Var
    <3>1. fi[p] \in Function \cup {NULL}
      BY <1>1, <1>2 DEF PoolTypeOK
    <3> QED BY <3>1, NamesAssumption DEF HandedBack
  <2> QED BY <1>2, <2>1 DEF MemInv, ContentTypes
<1> HIDE DEF p, vals
<1>5. ContentTypes'
  BY <1>2, <1>3, <1>4, StoreTypes, VacantType DEF MemInv, ContentTypes
<1>6. OnStack' = OnStack \ {Current} /\ Closed(Depth - 1) = {Current}
  <2>1. /\ Len(memory_stack') = Depth - 1
        /\ \A i \in 1 .. (Depth - 1) : memory_stack'[i] = memory_stack[i]
    BY <1>1, CloseLeaves DEF CloseDownTo
  <2>2. OnStack' = {memory_stack[i] : i \in 1 .. (Depth - 1)}
    BY <1>1, <2>1 DEF OnStack, Depth
  <2>3. Closed(Depth - 1) = {Current}
    BY <1>1 DEF Closed, Current
  <2>4. \A i \in 1 .. (Depth - 1) : memory_stack[i] # Current
    BY <1>1 DEF CellsPartitioned, NoDup, Current, Depth
  <2>5. \A i \in 1 .. Depth : i \in 1 .. (Depth - 1) \/ memory_stack[i] = Current
    BY <1>1 DEF Current
  <2>6. OnStack = {memory_stack[i] : i \in 1 .. (Depth - 1)} \cup {Current}
    BY <1>1, <2>5 DEF OnStack, Current
  <2> QED BY <2>2, <2>3, <2>4, <2>6
<1>7. /\ fi' = [c \in Cell |-> IF c = Current THEN NULL ELSE fi[c]]
      /\ allocated_envs' \subseteq allocated_envs
      /\ allocated_envs \ {Current} \subseteq allocated_envs'
  BY <1>1, <1>6 DEF CloseDownTo, ClearEnv
<1>8. UnusedScopesClean'
  BY <1>2, <1>3, <1>6, <1>7 DEF MemInv, UnusedScopesClean, ContentTypes
<1>9. HeapScopesPlain'
  BY <1>2, <1>3, <1>7, CellsInUse DEF MemInv, HeapScopesPlain, ContentTypes
<1> QED BY <1>5, <1>8, <1>9

\* Giving a scope that is in use a number changes nothing in it.
LEMMA NameEnvKeeps ==
    ASSUME MemInv, NameEnv
    PROVE  ContentTypes' /\ UnusedScopesClean' /\ HeapScopesPlain'
<1>1. UNCHANGED <<stackVars, allocated_envs, contentVars>>
  BY DEF NameEnv, GetBaseEnvHandle, GetCurrentEnvHandle
<1>2. OnStack' = OnStack /\ fi' = fi
  BY <1>1 DEF stackVars, OnStack, Depth
<1> QED
  BY <1>1, <1>2 DEF MemInv, ContentTypes, contentVars, UnusedScopesClean, HeapScopesPlain

\* A scope of the heap begins empty.
LEMMA NewEnvKeeps ==
    ASSUME MemInv, NEW c \in HeapCell, NewEnv(c)
    PROVE  ContentTypes' /\ UnusedScopesClean' /\ HeapScopesPlain'
<1>1. /\ UNCHANGED <<stackVars, globals, persistent>>
      /\ c \notin allocated_envs /\ allocated_envs' = allocated_envs \cup {c}
      /\ scope' = [scope EXCEPT ![c] = Vacant]
      /\ global_names' = [global_names EXCEPT ![c] = {}]
  BY DEF NewEnv, GetNewEnvHandle, ForgetNames
<1>2. OnStack' = OnStack /\ fi' = fi /\ c \in Cell /\ c \notin OnStack
  BY <1>1, CellsInUse, HeapAssumption DEF stackVars, OnStack, Depth, Cell, MemInv
<1>3. ContentTypes'
  BY <1>1, <1>2, VacantType DEF MemInv, ContentTypes
<1>4. fi[c] = NULL
  BY <1>1, <1>2 DEF MemInv, UnusedScopesClean
<1> QED
  BY <1>1, <1>2, <1>3, <1>4 DEF MemInv, ContentTypes, UnusedScopesClean, HeapScopesPlain

\* A scope of the heap goes with its handle, empty; one of the stack stays.
LEMMA DropEnvKeeps ==
    ASSUME MemInv, NEW h \in DOMAIN envs, DropEnv(h)
    PROVE  ContentTypes' /\ UnusedScopesClean' /\ HeapScopesPlain'
<1> DEFINE e == envs[h]
<1>1. /\ UNCHANGED <<stackVars, global_names, globals, persistent>>
      /\ allocated_envs' \subseteq allocated_envs
      /\ allocated_envs \ {e} \subseteq allocated_envs'
      /\ scope' = [scope EXCEPT ![e] = IF e \in allocated_envs THEN Vacant ELSE @]
  BY DEF DropEnv, DeleteEnv, ClearEnv
<1>2. /\ OnStack' = OnStack /\ fi' = fi /\ e \in Cell
      /\ allocated_envs \cap OnStack = {} /\ e \in InUse
  BY <1>1, CellsInUse DEF stackVars, OnStack, Depth, MemInv, InUse
<1> HIDE DEF e
<1>3. ContentTypes'
  BY <1>1, <1>2, VacantType DEF MemInv, ContentTypes
<1>4. UnusedScopesClean'
  BY <1>1, <1>2 DEF MemInv, ContentTypes, UnusedScopesClean, HeapScopesPlain, InUse
<1>5. HeapScopesPlain'
  BY <1>1, <1>2 DEF MemInv, HeapScopesPlain
<1> QED BY <1>3, <1>4, <1>5

------------------------------------------------------------------------------
(* Steps that read, write and clear. *)

\* The running program's statements: assignments, declarations and reads.
LEMMA StatementKeeps ==
    ASSUME MemInv, NEW v \in Var,
           \/ Read(v) \/ AddGlobalReference(v) \/ AddPersistentReference(v) \/ FailElement(v)
           \/ \E x \in Val : SetValue(v, x) \/ SetParentValue(v, x)
           \/ \E e \in Elem : AssignElement(v, e)
    PROVE  ContentTypes' /\ UnusedScopesClean' /\ HeapScopesPlain'
<1>1. /\ ContentTypes /\ PoolTypeOK /\ Current \in Cell /\ Current \in InUse
      /\ GlobalValue(v) \in Val
  BY CellsInUse, ValueType DEF MemInv, PoolInv, InUse
<1>2. MutableValue(v) \in Val /\ Val \subseteq Held
  BY <1>1, ValueType DEF MutableValue, Held, Empty, Val
<1>3. ASSUME NEW c \in InUse, NEW x \in Held, Store(c, [u \in {v} |-> x])
      PROVE  ContentTypes' /\ UnusedScopesClean' /\ HeapScopesPlain'
  <2>1. DOMAIN [u \in {v} |-> x] \subseteq Var
        /\ \A w \in DOMAIN [u \in {v} |-> x] : [u \in {v} |-> x][w] \in Held
    OBVIOUS
  <2> QED BY <1>3, <2>1, StoreKeeps
<1>4. ASSUME Read(v) PROVE ContentTypes' /\ UnusedScopesClean' /\ HeapScopesPlain'
  <2>1. ContentTypes'
    BY <1>1, <1>4, ReadTypes DEF Read, ContentTypes
  <2> QED BY <1>1, <1>4, <2>1, UseKeepsClean DEF Read
<1>5. ASSUME AddGlobalReference(v)
      PROVE  ContentTypes' /\ UnusedScopesClean' /\ HeapScopesPlain'
  <2>1. ContentTypes'
    BY <1>1, <1>2, <1>5 DEF AddGlobalReference, ContentTypes
  <2>2. \A d \in Cell \ OnStack : global_names'[d] = global_names[d]
    BY <1>1, <1>5, CellsInUse DEF AddGlobalReference, ContentTypes, MemInv
  <2> QED BY <1>1, <1>5, <2>1, <2>2, UseKeepsClean DEF AddGlobalReference
<1>6. ASSUME AddPersistentReference(v)
      PROVE  ContentTypes' /\ UnusedScopesClean' /\ HeapScopesPlain'
  <2>1. fi[Current] \in Function /\ Empty \in Held
    BY <1>1, <1>6 DEF AddPersistentReference, PoolTypeOK, Empty, Held, Val
  <2>2. ContentTypes'
    BY <1>1, <1>6, <2>1 DEF AddPersistentReference, ContentTypes
  <2> QED BY <1>1, <1>6, <2>2, UseKeepsClean DEF AddPersistentReference
<1>7. ASSUME FailElement(v) PROVE ContentTypes' /\ UnusedScopesClean' /\ HeapScopesPlain'
  BY <1>1, <1>2, <1>3, <1>7 DEF FailElement
<1>8. ASSUME NEW x \in Val, SetValue(v, x) \/ SetParentValue(v, x)
      PROVE  ContentTypes' /\ UnusedScopesClean' /\ HeapScopesPlain'
  <2>1. SetParentValue(v, x) => memory_stack[Depth - 1] \in InUse
    BY CellsInUse DEF SetParentValue, MemInv, InUse
  <2> QED BY <1>1, <1>2, <1>3, <1>8, <2>1 DEF SetValue, SetParentValue
<1>9. ASSUME NEW e \in Elem, AssignElement(v, e)
      PROVE  ContentTypes' /\ UnusedScopesClean' /\ HeapScopesPlain'
  <2>1. MutableValue(v) \cup {e} \in Held
    BY <1>2 DEF Val, Held
  <2> QED BY <1>1, <1>3, <1>9, <2>1 DEF AssignElement
<1> QED BY <1>4, <1>5, <1>6, <1>7, <1>8, <1>9

\* The clear commands.
LEMMA ClearKeeps ==
    ASSUME MemInv,
           \/ \E v \in Var : ClearName(v) \/ ClearGlobalName(v)
           \/ \E P \in SUBSET Var : RemovePattern(P) \/ ClearGlobalPattern(P) \/ ClearPattern(P)
           \/ ClearGlobals
           \/ ClearEverything
    PROVE  ContentTypes' /\ UnusedScopesClean' /\ HeapScopesPlain'
<1>1. ContentTypes /\ Current \in Cell /\ Current \in InUse /\ Current \in OnStack
  BY CellsInUse DEF MemInv, InUse
<1>2. ASSUME NEW P \in SUBSET Var, scope' = WithoutLocals(P)
      PROVE  /\ scope' \in [Cell -> [Var -> Held]]
             /\ \A d \in Cell : d # Current => scope'[d] = scope[d]
  BY <1>1, <1>2 DEF WithoutLocals, ContentTypes, Held
<1>3. ASSUME NEW G \in SUBSET Var,
             global_names' = [global_names EXCEPT ![Current] = G]
      PROVE  /\ global_names' \in [Cell -> SUBSET Var]
             /\ \A d \in Cell \ OnStack : global_names'[d] = global_names[d]
  BY <1>1, <1>3 DEF ContentTypes
<1>4. ASSUME NEW v \in Var, ClearName(v)
      PROVE  ContentTypes' /\ UnusedScopesClean' /\ HeapScopesPlain'
  <2>1. global_names[Current] \ {v} \in SUBSET Var /\ {v} \in SUBSET Var
    BY <1>1 DEF ContentTypes
  <2>2. /\ UNCHANGED <<poolVars, persistent>> /\ scope' = WithoutLocals({v})
        /\ global_names' = [global_names EXCEPT ![Current] = global_names[Current] \ {v}]
        /\ globals' = GlobalsRead(FoundIn(VisibleByName, v), {v})
    BY <1>4 DEF ClearName
  <2>3. /\ scope' \in [Cell -> [Var -> Held]]
        /\ \A d \in Cell : d # Current => scope'[d] = scope[d]
        /\ global_names' \in [Cell -> SUBSET Var]
        /\ \A d \in Cell \ OnStack : global_names'[d] = global_names[d]
    BY <1>2, <1>3, <2>1, <2>2
  <2>4. ContentTypes'
    BY <1>1, <2>2, <2>3, ReadTypes DEF ContentTypes
  <2> QED BY <1>1, <2>2, <2>3, <2>4, UseKeepsClean
<1>5. ASSUME NEW v \in Var, ClearGlobalName(v)
      PROVE  ContentTypes' /\ UnusedScopesClean' /\ HeapScopesPlain'
  <2>1. ContentTypes'
    BY <1>1, <1>5 DEF ClearGlobalName, ContentTypes, Held
  <2>2. \A d \in Cell \ OnStack : global_names'[d] = global_names[d]
    BY <1>1, <1>5 DEF ClearGlobalName, ContentTypes
  <2> QED BY <1>1, <1>5, <2>1, <2>2, UseKeepsClean DEF ClearGlobalName
<1>6. ASSUME NEW P \in SUBSET Var, RemovePattern(P)
      PROVE  ContentTypes' /\ UnusedScopesClean' /\ HeapScopesPlain'
  <2>1. /\ UNCHANGED <<poolVars, global_names, globals, persistent>>
        /\ scope' = WithoutLocals(P)
    BY <1>6 DEF RemovePattern
  <2>2. ContentTypes' /\ \A d \in Cell : d # Current => scope'[d] = scope[d]
    BY <1>1, <1>2, <2>1 DEF ContentTypes
  <2> QED BY <1>1, <2>1, <2>2, UseKeepsClean
<1>7. ASSUME NEW P \in SUBSET Var, ClearGlobalPattern(P)
      PROVE  ContentTypes' /\ UnusedScopesClean' /\ HeapScopesPlain'
  <2> DEFINE G == {v \in global_names[Current] : v \in P => globals[v] = NOTHING}
  <2>1. /\ UNCHANGED <<poolVars, scope, persistent>>
        /\ globals' = [v \in Var |-> IF v \in P THEN NOTHING ELSE globals[v]]
        /\ global_names' = [global_names EXCEPT ![Current] = G]
    BY <1>7 DEF ClearGlobalPattern
  <2>2. G \in SUBSET Var
    BY <1>1 DEF ContentTypes
  <2> HIDE DEF G
  <2>3. /\ global_names' \in [Cell -> SUBSET Var]
        /\ \A d \in Cell \ OnStack : global_names'[d] = global_names[d]
    BY <1>3, <2>1, <2>2
  <2>4. ContentTypes'
    BY <1>1, <2>1, <2>3 DEF ContentTypes, Held
  <2> QED BY <1>1, <2>1, <2>3, <2>4, UseKeepsClean
<1>8. ASSUME NEW P \in SUBSET Var, ClearPattern(P)
      PROVE  ContentTypes' /\ UnusedScopesClean' /\ HeapScopesPlain'
  BY <1>6, <1>7, <1>8 DEF ClearPattern
<1>9. ASSUME ClearAllGlobals
      PROVE  /\ globals' \in [Var -> Held] /\ global_names' \in [Cell -> SUBSET Var]
             /\ \A d \in Cell \ OnStack : global_names'[d] = global_names[d]
  BY <1>1, <1>9, VacantType DEF ClearAllGlobals, ContentTypes
<1>10. ASSUME ClearGlobals PROVE ContentTypes' /\ UnusedScopesClean' /\ HeapScopesPlain'
  <2>1. UNCHANGED <<poolVars, scope, persistent>> /\ ClearAllGlobals
    BY <1>10 DEF ClearGlobals
  <2>2. ContentTypes'
    BY <1>1, <1>9, <2>1 DEF ContentTypes
  <2> QED BY <1>1, <1>9, <2>1, <2>2, UseKeepsClean
<1>11. ASSUME ClearEverything PROVE ContentTypes' /\ UnusedScopesClean' /\ HeapScopesPlain'
  <2>1. UNCHANGED <<poolVars, persistent>> /\ ClearAllGlobals /\ scope' = WithoutLocals(Var)
    BY <1>11 DEF ClearEverything
  <2>2. ContentTypes' /\ \A d \in Cell : d # Current => scope'[d] = scope[d]
    BY <1>1, <1>2, <1>9, <2>1 DEF ContentTypes
  <2> QED BY <1>1, <1>9, <2>1, <2>2, UseKeepsClean
<1> QED BY <1>4, <1>5, <1>6, <1>7, <1>8, <1>10, <1>11

\* What the fenv functions do through a handle.
LEMMA HandleKeeps ==
    ASSUME MemInv,
           \/ \E s, d \in DOMAIN envs : ImportEnv(s, d)
           \/ \E h \in DOMAIN envs, v \in Var :
                 \/ GetEnvValue(h, v)
                 \/ RemoveEnvValue(h, v)
                 \/ \E x \in Val : SetEnvValue(h, v, x)
    PROVE  ContentTypes' /\ UnusedScopesClean' /\ HeapScopesPlain'
<1>1. /\ ContentTypes /\ PoolTypeOK /\ Val \subseteq Held /\ NOTHING \in Held
      /\ \A h \in DOMAIN envs : envs[h] \in InUse /\ envs[h] \in Cell
  BY CellsInUse DEF MemInv, PoolInv, InUse, Held
<1>2. ASSUME NEW s \in DOMAIN envs, NEW d \in DOMAIN envs, ImportEnv(s, d)
      PROVE  ContentTypes' /\ UnusedScopesClean' /\ HeapScopesPlain'
  <2> DEFINE from == envs[s]
             to == envs[d]
             names == {v \in Var : scope[from][v] # NOTHING}
             vals == [v \in names |-> Value(from, v)]
  <2>1. /\ globals' = [v \in Var |-> IF v \in names \cap global_names[to] THEN vals[v]
                                     ELSE GlobalsRead({from}, names)[v]]
        /\ persistent' = PersistentWith(to, vals)
        /\ scope' = [scope EXCEPT ![to] = LocalsWith(to, vals)]
        /\ UNCHANGED <<poolVars, global_names>>
    BY <1>2 DEF ImportEnv
  <2>2. to \in InUse /\ to \in Cell /\ from \in Cell
    BY <1>1
  <2>3. DOMAIN vals \subseteq Var /\ \A v \in DOMAIN vals : vals[v] \in Held
    BY <1>1, <2>2, ValueType
  <2>4. GlobalsRead({from}, names) \in [Var -> Held]
    BY <1>1, ReadTypes
  <2>5. globals' \in [Var -> Held]
    BY <2>1, <2>3, <2>4
  <2> HIDE DEF vals, to, names, from
  <2>6. ContentTypes'
    BY <1>1, <2>1, <2>2, <2>3, <2>5, StoreTypes DEF ContentTypes
  <2>7. \A c \in Cell : c # to => scope'[c] = scope[c]
    BY <1>1, <2>1, <2>2 DEF ContentTypes
  <2> QED BY <2>1, <2>2, <2>6, <2>7, UseKeepsClean
<1>3. ASSUME NEW h \in DOMAIN envs, NEW v \in Var, GetEnvValue(h, v)
      PROVE  ContentTypes' /\ UnusedScopesClean' /\ HeapScopesPlain'
  <2>1. ContentTypes'
    BY <1>1, <1>3, ReadTypes DEF GetEnvValue, ContentTypes
  <2> QED BY <1>1, <1>3, <2>1, UseKeepsClean DEF GetEnvValue
<1>4. ASSUME NEW h \in DOMAIN envs, NEW v \in Var, RemoveEnvValue(h, v)
      PROVE  ContentTypes' /\ UnusedScopesClean' /\ HeapScopesPlain'
  <2>1. ContentTypes' /\ \A c \in Cell : c # envs[h] => scope'[c] = scope[c]
    BY <1>1, <1>4 DEF RemoveEnvValue, ContentTypes
  <2> QED BY <1>1, <1>4, <2>1, UseKeepsClean DEF RemoveEnvValue
<1>5. ASSUME NEW h \in DOMAIN envs, NEW v \in Var, NEW x \in Val, SetEnvValue(h, v, x)
      PROVE  ContentTypes' /\ UnusedScopesClean' /\ HeapScopesPlain'
  <2>1. DOMAIN [u \in {v} |-> x] \subseteq Var
        /\ \A w \in DOMAIN [u \in {v} |-> x] : [u \in {v} |-> x][w] \in Held
    BY <1>1
  <2> QED BY <1>1, <1>5, <2>1, StoreKeeps DEF SetEnvValue
<1> QED BY <1>2, <1>3, <1>4, <1>5

------------------------------------------------------------------------------
(* The invariant. *)

LEMMA MemInitEstablishes == MemInit => MemInv
<1> SUFFICES ASSUME MemInit PROVE MemInv
  OBVIOUS
<1>1. PoolInv
  BY InitEstablishes DEF MemInit
<1>2. ContentTypes
  BY VacantType DEF MemInit, ContentTypes
<1>3. UnusedScopesClean /\ HeapScopesPlain
  BY DEF MemInit, PoolInit, UnusedScopesClean, HeapScopesPlain
<1> QED BY <1>1, <1>2, <1>3 DEF MemInv

LEMMA MemStepPreserves == MemInv /\ [MemNext]_memVars => MemInv'
<1> SUFFICES ASSUME MemInv, [MemNext]_memVars PROVE MemInv'
  OBVIOUS
<1>1. PoolInv'
  BY MemStepIsPoolStep, StepPreserves DEF MemInv
<1>2. ContentTypes' /\ UnusedScopesClean' /\ HeapScopesPlain'
  <2>1. CASE UNCHANGED memVars
    <3>1. UNCHANGED <<poolVars, contentVars>> /\ OnStack' = OnStack /\ fi' = fi
          /\ allocated_envs' = allocated_envs
      BY <2>1 DEF memVars, poolVars, stackVars, envVars, OnStack, Depth
    <3> QED
      BY <3>1 DEF MemInv, contentVars, ContentTypes, UnusedScopesClean, HeapScopesPlain
  <2>2. CASE MemNext
    BY <2>2, OpenKeeps, CloseKeeps, NameEnvKeeps, NewEnvKeeps, DropEnvKeeps, HandleKeeps,
       StatementKeeps, ClearKeeps
    DEF MemNext
  <2> QED BY <2>1, <2>2
<1> QED BY <1>1, <1>2 DEF MemInv

\* The invariant of the scopes and of the pool below them.
THEOREM MemInvariant == MemSpec => []MemInv
BY MemInitEstablishes, MemStepPreserves, PTL DEF MemSpec

\* The types of the scopes' contents: a lookup ends in a value or fails, whatever was
\* stored, cleared and handed back.
THEOREM MemTypeCorrect == MemSpec => []MemTypeOK
<1>1. MemInv => MemTypeOK
  BY DEF MemInv, PoolInv, ContentTypes, MemTypeOK, Held
<1> QED BY <1>1, MemInvariant, PTL

\* Every way of giving a scope up empties it, so OpenScope, which does not clear the
\* scope it takes, starts each call with an empty workspace.
THEOREM CallsStartEmpty == MemSpec => []UnusedScopesClean
<1>1. MemInv => UnusedScopesClean
  BY DEF MemInv
<1> QED BY <1>1, MemInvariant, PTL

------------------------------------------------------------------------------
(* Lookups up the stack. *)

\* The first value from the top of the offsets I, where val says what each holds.
IsTop(I, val, i) == val[i] # NOTHING /\ \A j \in I : j > i => val[j] = NOTHING
First(I, val) ==
    IF \E i \in I : IsTop(I, val, i) THEN val[CHOOSE i \in I : IsTop(I, val, i)] ELSE NOTHING

\* What the scopes a lookup of v looks at hold.
Seen(v) == [i \in Visible |-> Value(memory_stack[i], v)]

\* MemoryScopeManager::GetValue is the first value from the top.
LEMMA LookupIsFirst == PoolTypeOK => \A v \in Var : GetValue(v) = First(Visible, Seen(v))
<1> SUFFICES ASSUME PoolTypeOK, NEW v \in Var PROVE GetValue(v) = First(Visible, Seen(v))
  OBVIOUS
<1>1. Visible \subseteq 1 .. Depth /\ Depth \in Nat
  BY DepthPositive DEF Visible
<1>2. \A i \in Visible : Seen(v)[i] = Value(memory_stack[i], v)
  BY DEF Seen
<1>3. CASE \E i \in Visible : IsTop(Visible, Seen(v), i)
  <2> DEFINE t == CHOOSE i \in Visible : IsTop(Visible, Seen(v), i)
  <2>1. t \in Visible /\ IsTop(Visible, Seen(v), t)
    BY <1>3
  <2> HIDE DEF t
  <2>2. \A i \in Visible : IsTop(Visible, Seen(v), i) => i = t
    BY <1>1, <2>1 DEF IsTop
  <2>3. FoundIn(Visible, v) = {memory_stack[t]}
    BY <1>2, <2>1, <2>2 DEF FoundIn, IsTop
  <2>4. GetValue(v) = Value(memory_stack[t], v)
    BY <2>3 DEF GetValue, Lookup
  <2> QED BY <1>2, <1>3, <2>1, <2>4 DEF First, t
<1>4. CASE ~ \E i \in Visible : IsTop(Visible, Seen(v), i)
  <2>1. FoundIn(Visible, v) = {}
    BY <1>2, <1>4 DEF FoundIn, IsTop
  <2> QED BY <1>4, <2>1 DEF GetValue, Lookup, First
<1> QED BY <1>3, <1>4

\* The same in the next state.
LEMMA LookupIsFirstNext ==
    PoolTypeOK' => \A v \in Var : GetValue(v)' = First(Visible', Seen(v)')
<1>1. (PoolTypeOK => \A v \in Var : GetValue(v) = First(Visible, Seen(v)))'
  BY LookupIsFirst, PTL
<1> QED BY <1>1

\* A value on top hides those below; a name the top does not know is looked up below.
LEMMA FirstUnder ==
    ASSUME NEW n \in Nat, NEW I \in SUBSET Nat, NEW val, NEW below,
           \A i \in I : i < n /\ val[i] = below[i]
    PROVE  First(I \cup {n}, val) = IF val[n] # NOTHING THEN val[n] ELSE First(I, below)
<1> DEFINE J == I \cup {n}
<1>a. \A i, j \in J : i \in Int /\ ~(i > n) /\ (i > j \/ j > i \/ i = j)
  OBVIOUS
<1>1. CASE val[n] # NOTHING
  <2>1. n \in J /\ IsTop(J, val, n)
    BY <1>1, <1>a DEF IsTop
  <2>2. \A i \in J : IsTop(J, val, i) => i = n
    BY <1>1, <1>a, <2>1 DEF IsTop
  <2>3. (CHOOSE i \in J : IsTop(J, val, i)) = n
    BY <2>1, <2>2
  <2> QED BY <1>1, <2>1, <2>3 DEF First
<1>2. CASE val[n] = NOTHING
  <2>1. \A i \in J : IsTop(J, val, i) <=> i \in I /\ IsTop(I, below, i)
    BY <1>2 DEF IsTop
  <2>2. CASE \E i \in I : IsTop(I, below, i)
    <3> DEFINE t == CHOOSE i \in I : IsTop(I, below, i)
    <3>1. t \in I /\ IsTop(I, below, t)
      BY <2>2
    <3> HIDE DEF t
    <3>2. \A i \in I : IsTop(I, below, i) => i = t
      BY <1>a, <3>1 DEF IsTop
    <3>3. t \in J /\ \A i \in J : IsTop(J, val, i) <=> i = t
      BY <2>1, <3>1, <3>2
    <3>4. (CHOOSE i \in J : IsTop(J, val, i)) = t
      BY <3>3
    <3> QED BY <1>2, <2>2, <3>1, <3>3, <3>4 DEF First, t
  <2>3. CASE ~ \E i \in I : IsTop(I, below, i)
    BY <1>2, <2>1, <2>3 DEF First
  <2> QED BY <2>2, <2>3
<1> QED BY <1>1, <1>2

\* What a push shows: the new scope, and below a nested one all its caller saw.
LEMMA OpenShows ==
    ASSUME MemInv, NEW f \in Function, Open(f)
    PROVE  \E c \in Cell \ InUse :
             /\ memory_stack'[Depth + 1] = c /\ fi'[c] = f /\ Depth' = Depth + 1
             /\ \A i \in 1 .. Depth : memory_stack'[i] = memory_stack[i]
                                      /\ fi'[memory_stack[i]] = fi[memory_stack[i]]
             /\ f \in Nested => Visible' = Visible \cup {Depth + 1}
<1>1. PICK c \in PoolCell : Push(c, f) /\ c \notin OnStack
  BY OpenPushes DEF MemInv, Open
<1>2. /\ PoolTypeOK /\ Depth \in Nat /\ Depth >= 1 /\ c \in Cell /\ c \notin allocated_envs
      /\ \A i \in 1 .. Depth : memory_stack[i] \in OnStack /\ memory_stack[i] \in Cell
  BY <1>1, CellsInUse, HeapAssumption DEF MemInv, PoolInv, PoolTypeOK, Cell
<1>3. /\ Len(memory_stack') = Depth + 1
      /\ \A i \in 1 .. Depth : memory_stack'[i] = memory_stack[i]
      /\ memory_stack'[Depth + 1] = c
  BY <1>1, <1>2, PushAppends DEF Push
<1>4. fi' = [fi EXCEPT ![c] = f] /\ fi \in [Cell -> Function \cup {NULL}]
  BY <1>1, <1>2 DEF Push, PoolTypeOK
<1>5. fi'[c] = f /\ \A i \in 1 .. Depth : fi'[memory_stack[i]] = fi[memory_stack[i]]
  BY <1>1, <1>2, <1>4
<1>6. ASSUME f \in Nested PROVE Visible' = Visible \cup {Depth + 1}
  <2>1. Depth' = Depth + 1
    BY <1>3 DEF Depth
  <2>2. \A j \in 1 .. Depth + 1 : IsNested(memory_stack[j])' <=>
          (j = Depth + 1 \/ (j \in 1 .. Depth /\ IsNested(memory_stack[j])))
    BY <1>2, <1>3, <1>5, <1>6 DEF IsNested
  <2>3. Visible' = {i \in 1 .. Depth + 1 :
                      \A j \in (i + 1) .. (Depth + 1) : IsNested(memory_stack[j])'}
    BY <2>1 DEF Visible
  <2>4. ASSUME NEW i \in 1 .. Depth + 1
        PROVE  (\A j \in (i + 1) .. (Depth + 1) : IsNested(memory_stack[j])')
                  <=> (i = Depth + 1 \/ i \in Visible)
    <3>1. CASE i = Depth + 1
      BY <1>2, <3>1
    <3>2. CASE i \in 1 .. Depth
      <4>1. \A j \in (i + 1) .. (Depth + 1) :
               j \in 1 .. Depth + 1 /\ (j = Depth + 1 \/ j \in (i + 1) .. Depth)
        BY <1>2, <3>2
      <4>2. \A j \in (i + 1) .. Depth : j \in (i + 1) .. (Depth + 1) /\ j \in 1 .. Depth
                                       /\ j # Depth + 1
        BY <1>2, <3>2
      <4>3. (\A j \in (i + 1) .. (Depth + 1) : IsNested(memory_stack[j])')
              <=> (\A j \in (i + 1) .. Depth : IsNested(memory_stack[j]))
        BY <2>2, <4>1, <4>2, Zenon
      <4>4. i \in Visible <=> (\A j \in (i + 1) .. Depth : IsNested(memory_stack[j]))
        BY <3>2 DEF Visible
      <4> QED BY <1>2, <3>2, <4>3, <4>4
    <3> QED BY <1>2, <3>1, <3>2
  <2>5. Visible \subseteq 1 .. Depth
    BY DEF Visible
  <2>6. \A i \in Visible : i \in 1 .. Depth + 1
    BY <1>2, <2>5
  <2>7. Depth + 1 \in 1 .. Depth + 1
    BY <1>2
  <2> QED BY <2>3, <2>4, <2>6, <2>7
<1> QED BY <1>1, <1>2, <1>3, <1>5, <1>6 DEF InUse, Depth

\* Opening the scope of a nested function changes no lookup.
LEMMA OpenInherits ==
    ASSUME MemInv, NEW f \in Nested, Open(f), Depth' > Depth,
           NEW v \in Var, persistent[f][v] = NOTHING
    PROVE  GetValue(v)' = GetValue(v)
<1>1. f \in Function /\ PoolTypeOK /\ PoolTypeOK' /\ Depth \in Nat
  BY NestedAssumption, MemStepIsPoolStep, StepPreserves, CellsInUse
  DEF MemInv, PoolInv, MemNext
<1>2. PICK c \in Cell \ InUse :
         /\ memory_stack'[Depth + 1] = c /\ fi'[c] = f /\ Depth' = Depth + 1
         /\ \A i \in 1 .. Depth : memory_stack'[i] = memory_stack[i]
                                  /\ fi'[memory_stack[i]] = fi[memory_stack[i]]
         /\ f \in Nested => Visible' = Visible \cup {Depth + 1}
  BY <1>1, OpenShows
<1>3. UNCHANGED contentVars /\ Visible \subseteq 1 .. Depth
  BY DEF Open, Visible
<1>4. Seen(v)'[Depth + 1] = NOTHING
  <2>1. scope[c] = Vacant /\ global_names[c] = {}
    BY DEF MemInv, UnusedScopesClean, InUse
  <2>2. Value(c, v)' = NOTHING
    BY <1>2, <1>3, <2>1 DEF Value, IsPersistent, contentVars, Vacant
  <2> QED BY <1>2, <2>2 DEF Seen
<1>5. \A i \in Visible : Seen(v)'[i] = Seen(v)[i]
  BY <1>2, <1>3 DEF Seen, Value, GlobalValue, IsPersistent, contentVars
<1>6. GetValue(v)' = First(Visible', Seen(v)') /\ GetValue(v) = First(Visible, Seen(v))
  BY <1>1, LookupIsFirst, LookupIsFirstNext
<1>7. First(Visible \cup {Depth + 1}, Seen(v)') = First(Visible, Seen(v))
  <2> DEFINE now == Seen(v)
             next == Seen(v)'
             I == Visible
             n == Depth + 1
  <2>1. I \in SUBSET Nat /\ n \in Nat /\ (\A i \in I : i < n /\ next[i] = now[i])
        /\ next[n] = NOTHING
    BY <1>1, <1>3, <1>4, <1>5
  <2> HIDE DEF now, next, I, n
  <2>2. First(I \cup {n}, next) = First(I, now)
    BY <2>1, FirstUnder
  <2> QED BY <2>2 DEF now, next, I, n
<1> QED BY <1>2, <1>6, <1>7

\* A nested function starts out seeing exactly what its caller saw, its own
\* persistents aside: its scope adds nothing, and what its caller sees is searched
\* through the same scopes.
THEOREM NestedSeesCaller == MemSpec => NestedInherits
<1>1. MemInv /\ [MemNext]_memVars =>
        [\A f \in Nested : Open(f) /\ Depth' > Depth =>
            \A v \in Var : persistent[f][v] = NOTHING => GetValue(v)' = GetValue(v)]_memVars
  BY OpenInherits
<1> QED BY <1>1, MemInvariant, PTL DEF MemSpec, NestedInherits

\* What a return leaves on the stack: all but the top.
LEMMA CloseLowers ==
    ASSUME MemInv, Close
    PROVE  /\ Depth > 1 /\ Depth' = Depth - 1
           /\ \A i \in 1 .. Depth - 1 : /\ memory_stack'[i] = memory_stack[i]
                                        /\ memory_stack[i] \in Cell
                                        /\ memory_stack[i] # Current
                                        /\ fi'[memory_stack[i]] = fi[memory_stack[i]]
           /\ \A d \in Cell : d # Current => fi'[d] = fi[d]
           /\ allocated_envs' = allocated_envs
<1>1. /\ Depth \in Nat /\ Depth > 1 /\ CloseDownTo(Depth - 1) /\ Depth - 1 \in 1 .. Depth
      /\ PoolTypeOK /\ CellsPartitioned /\ Current \in OnStack
      /\ allocated_envs \cap OnStack = {}
  BY CellsInUse DEF MemInv, PoolInv, Close, CloseScope
<1>2. Len(memory_stack') = Depth - 1
      /\ \A i \in 1 .. (Depth - 1) : memory_stack'[i] = memory_stack[i]
  BY <1>1, CloseLeaves DEF CloseDownTo
<1>3. Depth' = Depth - 1
  BY <1>2 DEF Depth
<1>4. \A i \in 1 .. (Depth - 1) : memory_stack[i] \in Cell /\ memory_stack[i] # Current
  <2>1. \A i \in 1 .. (Depth - 1) : i \in 1 .. Depth /\ i # Depth /\ Depth \in 1 .. Depth
    BY <1>1
  <2>2. \A i \in 1 .. Depth : memory_stack[i] \in Cell
    BY <1>1 DEF PoolTypeOK, Cell, Depth
  <2> QED BY <1>1, <2>1, <2>2 DEF CellsPartitioned, NoDup, Current, Depth
<1>5. Closed(Depth - 1) = {Current}
  BY <1>1 DEF Closed, Current
<1>6. \A d \in Cell : d # Current => fi'[d] = fi[d]
  BY <1>1, <1>5 DEF CloseDownTo
<1>7. allocated_envs' = allocated_envs
  BY <1>1, <1>5 DEF CloseDownTo, ClearEnv
<1> QED BY <1>1, <1>2, <1>3, <1>4, <1>6, <1>7

\* What a return of a nested function leaves to be searched: all but the top.
LEMMA CloseShows ==
    ASSUME MemInv, Close, IsNested(Current)
    PROVE  /\ Visible = Visible' \cup {Depth} /\ Visible' \subseteq 1 .. Depth - 1
           /\ Depth - 1 \in Visible'
<1>1. Depth \in Nat
  BY CellsInUse DEF MemInv
<1>2. /\ Depth > 1 /\ Depth' = Depth - 1
      /\ \A i \in 1 .. (Depth - 1) : /\ memory_stack'[i] = memory_stack[i]
                                     /\ fi'[memory_stack[i]] = fi[memory_stack[i]]
  BY CloseLowers
<1>6. \A i \in 1 .. (Depth - 1) : IsNested(memory_stack[i])' <=> IsNested(memory_stack[i])
  BY <1>2 DEF IsNested
<1>7. Visible' = {i \in 1 .. (Depth - 1) :
                    \A j \in (i + 1) .. (Depth - 1) : IsNested(memory_stack[j])'}
  BY <1>2 DEF Visible
<1>8. ASSUME NEW i \in 1 .. (Depth - 1)
      PROVE  (\A j \in (i + 1) .. (Depth - 1) : IsNested(memory_stack[j])') <=> i \in Visible
  <2>1. \A j \in (i + 1) .. (Depth - 1) : j \in 1 .. (Depth - 1) /\ j \in (i + 1) .. Depth
    BY <1>1
  <2>2. \A j \in (i + 1) .. Depth : j \in (i + 1) .. (Depth - 1) \/ j = Depth
    BY <1>1
  <2>3. IsNested(memory_stack[Depth])
    BY DEF Current
  <2>4. (\A j \in (i + 1) .. (Depth - 1) : IsNested(memory_stack[j])')
          <=> (\A j \in (i + 1) .. Depth : IsNested(memory_stack[j]))
    BY <1>6, <2>1, <2>2, <2>3, Zenon
  <2>5. i \in Visible <=> (\A j \in (i + 1) .. Depth : IsNested(memory_stack[j]))
    BY <1>1, <1>2 DEF Visible
  <2> QED BY <2>4, <2>5
<1>9. Visible' \subseteq 1 .. (Depth - 1) /\ \A i \in 1 .. (Depth - 1) : i \in Visible' <=> i \in Visible
  BY <1>7, <1>8
<1>10. Depth \in Visible /\ Depth - 1 \in Visible' /\ Visible \subseteq 1 .. Depth
  <2>1. Depth \in Visible /\ Visible \subseteq 1 .. Depth
    BY <1>1, <1>2 DEF Visible
  <2>2. Depth - 1 \in Visible'
    BY <1>1, <1>2, <1>7
  <2> QED BY <2>1, <2>2
<1>11. \A i \in 1 .. Depth : i \in 1 .. (Depth - 1) \/ i = Depth
  BY <1>1
<1>12. Visible = Visible' \cup {Depth}
  BY <1>9, <1>10, <1>11
<1> QED BY <1>9, <1>10, <1>12

\* The top offset is found first if it has a value.
LEMMA FirstAtTop ==
    ASSUME NEW I \in SUBSET Nat, NEW val, NEW n \in I,
           \A i \in I : i <= n, val[n] # NOTHING
    PROVE  First(I, val) = val[n]
<1>1. IsTop(I, val, n)
  BY DEF IsTop
<1>2. \A i \in I : IsTop(I, val, i) => i = n
  BY <1>1 DEF IsTop
<1>3. (CHOOSE i \in I : IsTop(I, val, i)) = n
  BY <1>1, <1>2
<1> QED BY <1>1, <1>3 DEF First

\* What the caller reads after a return is what the nested function read before it.
LEMMA CloseShares ==
    ASSUME MemInv, Close, IsNested(Current), fi[memory_stack[Depth - 1]] \notin {NULL, fi[Current]},
           NEW v \in Refs[fi[memory_stack[Depth - 1]]] \ (Params[fi[Current]] \cup Returns[fi[Current]]),
           v \in Var, v \notin global_names[Current], ~IsPersistent(Current, v)
    PROVE  GetValue(v)' = GetValue(v)
<1>c. PICK c : c = Current
  OBVIOUS
<1>p. PICK p : p = memory_stack[Depth - 1]
  OBVIOUS
<1> DEFINE vals == [u \in HandedBack(c, p) |-> scope[c][u]]
           now == Seen(v)
           next == Seen(v)'
           I == Visible'
           m == Depth - 1
<1>1. /\ PoolTypeOK /\ PoolTypeOK' /\ ContentTypes /\ Depth \in Nat
      /\ c \in Cell /\ p \in Cell /\ p # c
  <2>1. PoolTypeOK'
    BY MemStepIsPoolStep, StepPreserves DEF MemInv, PoolInv, MemNext
  <2> QED BY <2>1, <1>c, <1>p, CellsInUse, CloseLowers DEF MemInv, PoolInv
<1>2. /\ globals' = GlobalsWith(p, vals) /\ persistent' = PersistentWith(p, vals)
      /\ scope' = [scope EXCEPT ![p] = LocalsWith(p, vals), ![c] = Vacant]
      /\ global_names' = [global_names EXCEPT ![c] = {}]
  BY <1>c, <1>p DEF Close, ForgetNames
<1>3. /\ Depth > 1
      /\ \A i \in I : /\ i \in 1 .. m /\ memory_stack'[i] = memory_stack[i]
                      /\ memory_stack[i] \in Cell /\ memory_stack[i] # c
                      /\ fi'[memory_stack[i]] = fi[memory_stack[i]]
      /\ Visible = I \cup {Depth} /\ m \in I
  BY <1>c, CloseLowers, CloseShows
<1>4. I \in SUBSET Nat /\ m \in Nat /\ Depth = m + 1 /\ \A i \in I : i < Depth /\ i <= m
  BY <1>1, <1>3
<1>5. GetValue(v)' = First(I, next) /\ GetValue(v) = First(I \cup {Depth}, now)
  BY <1>1, <1>3, LookupIsFirst, LookupIsFirstNext
<1>6. now[Depth] = scope[c][v]
  <2>1. Depth \in Visible
    BY <1>3
  <2>2. now[Depth] = Value(c, v)
    BY <2>1, <1>c DEF Seen, Current
  <2> QED BY <1>c, <2>2 DEF Value
<1>7. v \in HandedBack(c, p) <=> scope[c][v] # NOTHING
  BY <1>c, <1>p DEF HandedBack
<1>8. fi'[p] = fi[p] /\ next[m] = Value(p, v)'
  BY <1>3, <1>p DEF Seen
<1>9. CASE scope[c][v] # NOTHING
  <2>1. v \in DOMAIN vals /\ vals[v] = scope[c][v]
    BY <1>7, <1>9
  <2> HIDE DEF vals, now, next, I, m
  <2>2. global_names'[p] = global_names[p] /\ scope'[p] = LocalsWith(p, vals)
    BY <1>1, <1>2 DEF ContentTypes
  <2>3. Value(p, v)' = vals[v]
    <3>1. CASE v \in global_names[p]
      <4>1. globals'[v] = vals[v]
        BY <1>2, <2>1, <3>1 DEF GlobalsWith
      <4> QED BY <1>9, <2>1, <2>2, <3>1, <4>1 DEF Value, GlobalValue
    <3>2. CASE v \notin global_names[p] /\ IsPersistent(p, v)
      <4>1. fi[p] \in Function
        BY <1>1, <3>2 DEF IsPersistent, PoolTypeOK
      <4>2. persistent'[fi[p]][v] = vals[v]
        BY <1>2, <2>1, <3>2, <4>1 DEF PersistentWith
      <4> QED BY <1>8, <1>9, <2>1, <2>2, <3>2, <4>1, <4>2, FunctionAssumption
              DEF Value, IsPersistent
    <3>3. CASE v \notin global_names[p] /\ ~IsPersistent(p, v)
      <4>1. scope'[p][v] = vals[v]
        BY <2>1, <2>2, <3>3 DEF LocalsWith
      <4>2. fi[p] # NULL => fi[p] \in Function
        BY <1>1 DEF PoolTypeOK
      <4>3. fi[p] # NULL => persistent'[fi[p]][v] = persistent[fi[p]][v]
        BY <1>2, <3>3, <4>2 DEF PersistentWith
      <4> QED BY <1>8, <2>2, <3>3, <4>1, <4>3 DEF Value, IsPersistent
    <3> QED BY <3>1, <3>2, <3>3
  <2>4. First(I, next) = vals[v]
    BY <1>3, <1>4, <1>8, <1>9, <2>1, <2>3, FirstAtTop
  <2>5. First(I \cup {Depth}, now) = scope[c][v]
    <3>1. Depth \in I \cup {Depth} /\ I \cup {Depth} \in SUBSET Nat
          /\ \A i \in I \cup {Depth} : i <= Depth
      BY <1>1, <1>4
    <3> QED BY <1>6, <1>9, <3>1, FirstAtTop
  <2> QED BY <1>5, <2>1, <2>4, <2>5
<1>10. CASE scope[c][v] = NOTHING
  <2>1. v \notin DOMAIN vals
    BY <1>7, <1>10
  <2>2. \A i \in I : now[i] = Value(memory_stack[i], v) /\ next[i] = Value(memory_stack[i], v)'
    BY <1>3 DEF Seen
  <2> HIDE DEF vals, now, next, I, m
  <2>3. globals'[v] = globals[v] /\ \A f \in Function : persistent'[f][v] = persistent[f][v]
    BY <1>2, <2>1 DEF GlobalsWith, PersistentWith
  <2>4. ASSUME NEW i \in I PROVE now[i] = next[i]
    <3>d. PICK d : d = memory_stack[i]
      OBVIOUS
    <3>1. d \in Cell /\ d # c /\ fi'[d] = fi[d]
      BY <1>3, <3>d
    <3>2. scope'[d][v] = scope[d][v] /\ global_names'[d] = global_names[d]
      BY <1>1, <1>2, <2>1, <3>1 DEF ContentTypes, LocalsWith
    <3>3. fi[d] # NULL => fi[d] \in Function
      BY <1>1, <3>1 DEF PoolTypeOK
    <3>4. Value(d, v)' = Value(d, v)
      BY <2>3, <3>1, <3>2, <3>3 DEF Value, GlobalValue, IsPersistent
    <3> QED BY <1>3, <2>2, <3>4, <3>d
  <2>5. First(I \cup {Depth}, now) = First(I, next)
    BY <1>1, <1>4, <1>6, <1>10, <2>4, FirstUnder
  <2> QED BY <1>5, <2>5
<1> QED BY <1>9, <1>10

\* Only a return makes the stack shorter.
LEMMA OnlyCloseShrinks ==
    ASSUME MemInv, [MemNext]_memVars, Depth' < Depth PROVE Close
<1>1. Depth \in Nat
  BY CellsInUse DEF MemInv
<1>2. ASSUME NEW f \in Function, Open(f) PROVE FALSE
  BY <1>1, <1>2, OpenShows
<1>3. ASSUME UNCHANGED memory_stack PROVE FALSE
  BY <1>1, <1>3 DEF Depth
<1> QED
  BY <1>2, <1>3
  DEF MemNext, NameEnv, GetBaseEnvHandle, GetCurrentEnvHandle, NewEnv, GetNewEnvHandle, DropEnv,
      DeleteEnv, ImportEnv, Read, AddGlobalReference, AddPersistentReference, FailElement,
      ClearName, ClearGlobalName, SetValue, SetParentValue, AssignElement, GetEnvValue,
      RemoveEnvValue, SetEnvValue, RemovePattern, ClearGlobalPattern, ClearPattern,
      ClearGlobals, ClearEverything, Store, memVars, poolVars, stackVars

\* A nested function and its caller share what the caller mentions: the lookup up the
\* stack before the return and CloseScope's copy down agree, also where a global or a
\* persistent of the caller takes the copy.
THEOREM NestedSharesWithCaller == MemSpec => NestedShares
<1> DEFINE Shares ==
             Depth' < Depth /\ IsNested(Current) =>
                 LET c == Current
                     p == memory_stack[Depth - 1]
                 IN  fi[p] \notin {NULL, fi[c]} =>
                       \A v \in Refs[fi[p]] \ (Params[fi[c]] \cup Returns[fi[c]]) :
                           v \notin global_names[c] /\ ~IsPersistent(c, v)
                               => GetValue(v)' = GetValue(v)
<1>1. ASSUME MemInv, [MemNext]_memVars, Depth' < Depth
      PROVE  fi[memory_stack[Depth - 1]] # NULL =>
                Refs[fi[memory_stack[Depth - 1]]] \subseteq Var
  <2>1. Close
    BY <1>1, OnlyCloseShrinks
  <2>2. Depth - 1 \in 1 .. Depth /\ PoolTypeOK
    BY <1>1, <2>1, CellsInUse DEF MemInv, PoolInv, Close, CloseScope
  <2>3. fi[memory_stack[Depth - 1]] \in Function \cup {NULL}
    BY <2>2 DEF PoolTypeOK, Depth, Cell
  <2> QED BY <2>3, NamesAssumption
<1>2. MemInv /\ [MemNext]_memVars => [Shares]_memVars
  BY <1>1, OnlyCloseShrinks, CloseShares
<1> QED BY <1>2, MemInvariant, PTL DEF MemSpec, NestedShares

------------------------------------------------------------------------------
(* Recycled scopes implement frames. *)

Stack == [i \in 1 .. Depth |-> FrameOf(memory_stack[i])]
Loose == [c \in allocated_envs |-> FrameOf(c)]

\* The frames are as many as the open scopes.
LEMMA StackLength == PoolTypeOK => Len(Stack) = Depth
BY DepthPositive DEF Stack

LEMMA StackLengthNext == PoolTypeOK' => Len(Stack') = Depth'
<1>1. (PoolTypeOK => Len(Stack) = Depth)'
  BY StackLength, PTL
<1> QED BY <1>1

\* The first frame is that of the base workspace.
LEMMA FramesBegin == MemInit => Frames!Init
<1> SUFFICES ASSUME MemInit PROVE Frames!Init
  OBVIOUS
<1>1. memory_stack = <<0>> /\ Depth = 1 /\ allocated_envs = {}
  BY DEF MemInit, PoolInit, Depth
<1>2. 0 \in Cell
  BY SizeAssumption DEF Cell, PoolCell
<1>3. FrameOf(0) = Frames!Fresh(NULL)
  BY <1>2 DEF MemInit, PoolInit, FrameOf, Frames!Fresh, Vacant, Frames!Vacant
<1>4. Stack = <<Frames!Fresh(NULL)>>
  <2>1. Stack = [i \in 1 .. 1 |-> Frames!Fresh(NULL)]
    BY <1>1, <1>3 DEF Stack
  <2> QED BY <2>1
<1>5. Loose = [d \in {} |-> Frames!Fresh(NULL)]
  BY <1>1 DEF Loose
<1>6. globals = Frames!Vacant /\ persistent = [f \in Function |-> Frames!Vacant]
  BY DEF MemInit, Vacant, Frames!Vacant
<1> QED BY <1>4, <1>5, <1>6 DEF Frames!Init, Stack, Loose

\* A declared global that was cleared comes back through a scope in use.
LEMMA ReadBringsBack ==
    ASSUME MemInv, NEW cs \in SUBSET InUse, NEW V, NEW v \in Var,
           GlobalsRead(cs, V)[v] # globals[v]
    PROVE  Frames!MayComeBack(v)
<1>1. globals[v] = NOTHING /\ \E c \in cs : v \in global_names[c]
  BY DEF GlobalsRead, GlobalValue
<1>2. PICK c \in cs : v \in global_names[c]
  BY <1>1
<1>3. c \in OnStack
  BY <1>2 DEF InUse, MemInv, HeapScopesPlain
<1>4. PICK i \in 1 .. Depth : memory_stack[i] = c
  BY <1>3 DEF OnStack
<1>5. Len(Stack) = Depth /\ Stack[i].declared = global_names[c]
  BY <1>4, StackLength DEF Stack, FrameOf, MemInv, PoolInv
<1> QED BY <1>1, <1>2, <1>5 DEF Frames!MayComeBack, Stack

\* A lookup up the stack ends on the stack.
LEMMA FoundOnStack ==
    ASSUME NEW v \in Var
    PROVE  FoundIn(Visible, v) \subseteq OnStack /\ FoundIn(VisibleByName, v) \subseteq OnStack
BY DEF FoundIn, Visible, VisibleByName, OnStack

\* A step that touches one scope of the stack is a step of its frame.
LEMMA UseRefines ==
    ASSUME MemInv, UNCHANGED poolVars, NEW i \in 1 .. Depth,
           \A d \in Cell : d # memory_stack[i] =>
               scope'[d] = scope[d] /\ global_names'[d] = global_names[d],
           \A v \in Var : globals'[v] # globals[v] =>
               v \in global_names[memory_stack[i]] \cup global_names'[memory_stack[i]]
                 \/ Frames!MayComeBack(v),
           \A f \in Function, v \in Var : persistent'[f][v] # persistent[f][v] =>
               f = fi[memory_stack[i]] /\ persistent'[f][v] # NOTHING
    PROVE  Frames!Use(i) /\ i \in 1 .. Len(Stack)
<1>1. /\ PoolTypeOK /\ Depth \in Nat /\ CellsPartitioned
      /\ \A j \in 1 .. Depth : memory_stack[j] \in OnStack /\ memory_stack[j] \in Cell
      /\ allocated_envs \cap OnStack = {} /\ allocated_envs \subseteq Cell
  BY CellsInUse DEF MemInv, PoolInv
<1>2. /\ memory_stack' = memory_stack /\ Depth' = Depth /\ fi' = fi
      /\ allocated_envs' = allocated_envs
  BY DEF poolVars, stackVars, envVars, Depth
<1>3. Len(Stack) = Depth /\ Len(Stack') = Depth
  BY <1>1, <1>2, StackLength, StackLengthNext DEF PoolTypeOK, poolVars, stackVars, envVars
<1>4. ASSUME NEW j \in 1 .. Depth
      PROVE  /\ Stack[j] = [fn |-> fi[memory_stack[j]], locals |-> scope[memory_stack[j]],
                            declared |-> global_names[memory_stack[j]]]
             /\ Stack'[j] = [fn |-> fi[memory_stack[j]], locals |-> scope'[memory_stack[j]],
                             declared |-> global_names'[memory_stack[j]]]
  BY <1>2 DEF Stack, FrameOf
<1>5. \A j \in 1 .. Depth : j # i => memory_stack[j] # memory_stack[i]
  BY <1>1 DEF CellsPartitioned, NoDup, Depth
<1>6. ASSUME NEW j \in 1 .. Depth, j # i PROVE Stack'[j] = Stack[j]
  <2>1. scope'[memory_stack[j]] = scope[memory_stack[j]]
        /\ global_names'[memory_stack[j]] = global_names[memory_stack[j]]
    BY <1>1, <1>5, <1>6
  <2> QED BY <1>4, <2>1
<1>7. Loose' = Loose
  <2>1. \A c \in allocated_envs : c \in Cell /\ c # memory_stack[i]
    BY <1>1
  <2>2. \A c \in allocated_envs : FrameOf(c)' = FrameOf(c)
    BY <1>2, <2>1 DEF FrameOf
  <2> QED BY <1>2, <2>2 DEF Loose
<1>a. /\ Stack[i].fn = fi[memory_stack[i]] /\ Stack[i].declared = global_names[memory_stack[i]]
      /\ Stack'[i].fn = fi[memory_stack[i]] /\ Stack'[i].declared = global_names'[memory_stack[i]]
  BY <1>2 DEF Stack, FrameOf
<1>8. Frames!OnlyThrough(Stack[i], Stack[i].declared \cup Stack'[i].declared)
  BY <1>a DEF Frames!OnlyThrough
<1>9. Stack'[i].fn = Stack[i].fn
  BY <1>a
<1> QED BY <1>3, <1>6, <1>7, <1>8, <1>9 DEF Frames!Use, Stack, Loose

\* A step that touches one scope of the heap is a step of that frame.
LEMMA LooseRefines ==
    ASSUME MemInv, UNCHANGED stackVars, NEW e \in allocated_envs,
           allocated_envs' \in {allocated_envs, allocated_envs \ {e}},
           \A d \in Cell : d # e => scope'[d] = scope[d],
           UNCHANGED <<global_names, persistent>>,
           \A v \in Var : globals'[v] # globals[v] => Frames!MayComeBack(v)
    PROVE  Frames!UseDetached
<1>1. /\ allocated_envs \cap OnStack = {} /\ allocated_envs \subseteq Cell
      /\ \A j \in 1 .. Depth : memory_stack[j] \in OnStack /\ memory_stack[j] \in Cell
  BY CellsInUse DEF MemInv
<1>2. memory_stack' = memory_stack /\ Depth' = Depth /\ fi' = fi
  BY DEF stackVars, Depth
<1>3. Stack' = Stack
  <2>1. \A j \in 1 .. Depth : FrameOf(memory_stack[j])' = FrameOf(memory_stack[j])
    BY <1>1, <1>2 DEF FrameOf
  <2> QED BY <1>2, <2>1 DEF Stack
<1>4. /\ DOMAIN Loose = allocated_envs /\ DOMAIN Loose' = allocated_envs'
      /\ \A d \in allocated_envs \ {e} : Loose'[d] = Loose[d]
      /\ \A d \in allocated_envs' : Loose'[d].declared = {} /\ Loose'[d].fn = NULL
  <2>1. \A d \in allocated_envs : fi'[d] = NULL /\ global_names'[d] = {}
    BY <1>2 DEF MemInv, HeapScopesPlain
  <2>2. \A d \in allocated_envs' : d \in allocated_envs
                                   /\ Loose'[d] = [fn |-> fi'[d], locals |-> scope'[d],
                                                   declared |-> global_names'[d]]
    BY DEF Loose, FrameOf
  <2>3. \A d \in allocated_envs : Loose[d] = [fn |-> fi[d], locals |-> scope[d],
                                              declared |-> global_names[d]]
    BY DEF Loose, FrameOf
  <2>4. \A d \in allocated_envs \ {e} : d \in allocated_envs' /\ scope'[d] = scope[d]
    BY <1>1
  <2> QED BY <1>2, <2>1, <2>2, <2>3, <2>4 DEF Loose
<1> QED BY <1>3, <1>4 DEF Frames!UseDetached, Stack, Loose

\* A store of values in a scope of the stack.
LEMMA StoreRefines ==
    ASSUME MemInv, NEW i \in 1 .. Depth, NEW vals, Store(memory_stack[i], vals),
           \A v \in DOMAIN vals : vals[v] # NOTHING
    PROVE  Frames!Next
<1>1. UNCHANGED <<poolVars, global_names>>
  BY DEF Store
<1>2. \A d \in Cell : d # memory_stack[i] =>
          scope'[d] = scope[d] /\ global_names'[d] = global_names[d]
  BY DEF Store, MemInv, ContentTypes
<1>3. \A v \in Var : globals'[v] # globals[v] => v \in global_names[memory_stack[i]]
  BY DEF Store, GlobalsWith
<1>4. \A f \in Function, v \in Var : persistent'[f][v] # persistent[f][v] =>
          f = fi[memory_stack[i]] /\ persistent'[f][v] # NOTHING
  BY DEF Store, PersistentWith
<1>5. Frames!Use(i) /\ i \in 1 .. Len(Stack)
  BY <1>1, <1>2, <1>3, <1>4, UseRefines
<1> QED BY <1>5 DEF Frames!Next, Stack

\* A store of values in a scope of the heap: it declares nothing and runs nothing.
LEMMA LooseStoreRefines ==
    ASSUME MemInv, NEW e \in allocated_envs, NEW vals, Store(e, vals)
    PROVE  Frames!Next
<1>1. fi[e] = NULL /\ global_names[e] = {} /\ e \in Cell
  BY CellsInUse DEF MemInv, HeapScopesPlain
<1>2. globals' = globals /\ persistent' = persistent
  <2>1. GlobalsWith(e, vals) = [v \in Var |-> globals[v]]
    BY <1>1 DEF GlobalsWith
  <2>2. PersistentWith(e, vals) = [f \in Function |-> [v \in Var |-> persistent[f][v]]]
    BY <1>1, FunctionAssumption DEF PersistentWith, IsPersistent
  <2> QED BY <2>1, <2>2 DEF Store, MemInv, ContentTypes
<1>3. /\ UNCHANGED <<stackVars, allocated_envs, global_names>>
      /\ \A d \in Cell : d # e => scope'[d] = scope[d]
  BY DEF Store, poolVars, envVars, MemInv, ContentTypes
<1>4. Frames!UseDetached
  BY <1>2, <1>3, LooseRefines
<1> QED BY <1>4 DEF Frames!Next

\* A variable is read: Read, and the value of a handle.
LEMMA ReadRefines ==
    ASSUME MemInv, UNCHANGED <<poolVars, scope, global_names, persistent>>,
           \A v \in Var : globals'[v] # globals[v] => Frames!MayComeBack(v)
    PROVE  Frames!Read
<1>1. Stack' = Stack /\ Loose' = Loose
  BY DEF poolVars, stackVars, envVars, Stack, Loose, FrameOf, Depth
<1> QED BY <1>1 DEF Frames!Read, Stack, Loose

\* The globals are cleared: no scope but the running one loses locals.
LEMMA ClearRefines ==
    ASSUME MemInv, UNCHANGED <<poolVars, persistent>>,
           \A v \in Var : globals'[v] # globals[v] => globals'[v] = NOTHING,
           \A d \in Cell : d # Current => scope'[d] = scope[d],
           \A d \in Cell : global_names'[d] \subseteq global_names[d],
           \A d \in Cell \ OnStack : global_names'[d] = global_names[d]
    PROVE  Frames!Next
<1>1. /\ PoolTypeOK /\ Depth \in Nat /\ CellsPartitioned
      /\ \A j \in 1 .. Depth : memory_stack[j] \in OnStack /\ memory_stack[j] \in Cell
      /\ allocated_envs \cap OnStack = {} /\ allocated_envs \subseteq Cell /\ Current \in OnStack
  BY CellsInUse DEF MemInv, PoolInv
<1>2. /\ memory_stack' = memory_stack /\ Depth' = Depth /\ fi' = fi
      /\ allocated_envs' = allocated_envs /\ PoolTypeOK'
  BY <1>1 DEF poolVars, stackVars, envVars, Depth, PoolTypeOK
<1>3. Len(Stack) = Depth /\ Len(Stack') = Depth
  BY <1>1, <1>2, StackLength, StackLengthNext
<1>4. ASSUME NEW j \in 1 .. Depth
      PROVE  /\ Stack'[j].fn = Stack[j].fn
             /\ Stack'[j].declared \subseteq Stack[j].declared
             /\ j < Depth => Stack'[j].locals = Stack[j].locals
  <2>1. /\ Stack[j].fn = fi[memory_stack[j]] /\ Stack[j].locals = scope[memory_stack[j]]
        /\ Stack[j].declared = global_names[memory_stack[j]]
        /\ Stack'[j].fn = fi[memory_stack[j]] /\ Stack'[j].locals = scope'[memory_stack[j]]
        /\ Stack'[j].declared = global_names'[memory_stack[j]]
    BY <1>2 DEF Stack, FrameOf
  <2>2. j < Depth => memory_stack[j] # Current
    BY <1>1 DEF CellsPartitioned, NoDup, Current, Depth
  <2> QED BY <1>1, <2>1, <2>2
<1>5. Loose' = Loose
  <2>1. \A c \in allocated_envs : c \in Cell /\ c \notin OnStack /\ c # Current
    BY <1>1
  <2>2. \A c \in allocated_envs : FrameOf(c)' = FrameOf(c)
    BY <1>2, <2>1 DEF FrameOf
  <2> QED BY <1>2, <2>2 DEF Loose
<1>6. Frames!ClearGlobals
  BY <1>3, <1>4, <1>5 DEF Frames!ClearGlobals, Stack, Loose
<1> QED BY <1>6 DEF Frames!Next

\* Calls: the frame pushed is a fresh one, since the scope taken was clean.
LEMMA OpenRefines ==
    ASSUME MemInv, NEW f \in Function, Open(f)
    PROVE  Frames!Next
<1>1. PICK c \in Cell \ InUse :
         /\ memory_stack'[Depth + 1] = c /\ fi'[c] = f /\ Depth' = Depth + 1
         /\ \A i \in 1 .. Depth : memory_stack'[i] = memory_stack[i]
                                  /\ fi'[memory_stack[i]] = fi[memory_stack[i]]
  BY OpenShows
<1>2. /\ Depth \in Nat /\ scope[c] = Vacant /\ global_names[c] = {}
      /\ UNCHANGED <<contentVars, allocated_envs>>
      /\ allocated_envs \subseteq Cell /\ PoolTypeOK /\ PoolTypeOK'
  <2>1. PoolTypeOK'
    BY MemStepIsPoolStep, StepPreserves DEF MemInv, PoolInv, MemNext
  <2> QED BY <2>1, CellsInUse
          DEF MemInv, PoolInv, UnusedScopesClean, InUse, Open, OpenScope, envVars
<1>3. Stack'[Depth + 1] = Frames!Fresh(f)
  <2>1. Depth + 1 \in 1 .. Depth'
    BY <1>1, <1>2
  <2>2. Stack'[Depth + 1] = [fn |-> fi'[c], locals |-> scope'[c], declared |-> global_names'[c]]
    BY <1>1, <2>1 DEF Stack, FrameOf
  <2>3. fi'[c] = f /\ scope'[c] = Vacant /\ global_names'[c] = {}
    BY <1>1, <1>2 DEF contentVars
  <2> QED BY <2>2, <2>3 DEF Frames!Fresh, Frames!Vacant, Vacant
<1>4. \A i \in 1 .. Depth : Stack'[i] = Stack[i]
  BY <1>1, <1>2 DEF Stack, FrameOf, contentVars
<1>5. Stack' = Append(Stack, Frames!Fresh(f))
  <2> DEFINE S == {Stack[i] : i \in 1 .. Depth} \cup {Frames!Fresh(f)}
             n == Depth + 1
  <2>1. Len(Stack) = Depth /\ Len(Stack') = n
    BY <1>1, <1>2, StackLength, StackLengthNext
  <2>2. Stack \in Seq(S)
    BY <1>2 DEF Stack
  <2>3. /\ Append(Stack, Frames!Fresh(f)) \in Seq(S)
        /\ Len(Append(Stack, Frames!Fresh(f))) = n
        /\ \A i \in 1 .. Depth : Append(Stack, Frames!Fresh(f))[i] = Stack[i]
        /\ Append(Stack, Frames!Fresh(f))[n] = Frames!Fresh(f)
    BY <2>1, <2>2, AppendProperties
  <2>4. Stack' \in Seq(S)
    <3>1. Stack' = [i \in 1 .. n |-> Stack'[i]]
      BY <1>1 DEF Stack
    <3>2. \A i \in 1 .. n : Stack'[i] \in S
      BY <1>2, <1>3, <1>4
    <3> QED BY <1>2, <3>1, <3>2
  <2>5. \A i \in 1 .. n : Stack'[i] = Append(Stack, Frames!Fresh(f))[i]
    BY <1>2, <1>3, <1>4, <2>3
  <2> QED BY <2>1, <2>3, <2>4, <2>5, SeqEqual
<1>6. Loose' = Loose
  <2>1. \A d \in allocated_envs : fi'[d] = fi[d]
    <3>1. PICK b \in PoolCell : Push(b, f)
      BY OpenPushes DEF MemInv, Open
    <3>2. \A d \in allocated_envs : d \in Cell /\ d # b
      BY <1>2, HeapAssumption DEF PoolTypeOK
    <3> QED BY <1>2, <3>1, <3>2 DEF Push, PoolTypeOK
  <2> QED BY <1>2, <2>1 DEF Loose, FrameOf, contentVars
<1>7. Frames!Call(f)
  BY <1>2, <1>5, <1>6 DEF Frames!Call, Stack, Loose, contentVars
<1> QED BY <1>7 DEF Frames!Next

\* Returns: the frame below keeps its variables but for what a nested function hands
\* back to it.
LEMMA CloseRefines ==
    ASSUME MemInv, Close
    PROVE  Frames!Next
<1>c. PICK c : c = Current
  OBVIOUS
<1>p. PICK p : p = memory_stack[Depth - 1]
  OBVIOUS
<1>n. PICK n : n = Depth - 1
  OBVIOUS
<1> DEFINE vals == [u \in HandedBack(c, p) |-> scope[c][u]]
<1>1. /\ Depth \in Nat /\ n \in Nat /\ n >= 1 /\ Depth = n + 1 /\ Depth' = n
      /\ PoolTypeOK /\ PoolTypeOK' /\ ContentTypes /\ CellsPartitioned
      /\ p \in Cell /\ p # c /\ c \in OnStack /\ c \in Cell
      /\ allocated_envs' = allocated_envs /\ allocated_envs \subseteq Cell
      /\ allocated_envs \cap OnStack = {} /\ p \in OnStack
  <2>1. PoolTypeOK'
    BY MemStepIsPoolStep, StepPreserves DEF MemInv, PoolInv, MemNext
  <2> QED BY <2>1, <1>c, <1>p, <1>n, CellsInUse, CloseLowers DEF MemInv, PoolInv
<1>2. /\ globals' = GlobalsWith(p, vals) /\ persistent' = PersistentWith(p, vals)
      /\ scope' = [scope EXCEPT ![p] = LocalsWith(p, vals), ![c] = Vacant]
      /\ global_names' = [global_names EXCEPT ![c] = {}]
  BY <1>c, <1>p DEF Close, ForgetNames
<1>3. /\ \A i \in 1 .. n : /\ memory_stack'[i] = memory_stack[i]
                           /\ memory_stack[i] \in Cell /\ memory_stack[i] # c
      /\ \A d \in Cell : d # c => fi'[d] = fi[d]
  BY <1>c, <1>n, CloseLowers
<1>4. \A v \in DOMAIN vals : vals[v] = scope[c][v] /\ vals[v] # NOTHING /\ fi[c] \in Nested
  BY DEF HandedBack, IsNested
<1>a. fi[c] \notin Nested => DOMAIN vals = {}
  BY DEF HandedBack, IsNested
<1> HIDE DEF vals
<1>5. Len(Stack) = n + 1 /\ Len(Stack') = n
  BY <1>1, StackLength, StackLengthNext
<1>6. /\ Stack[n + 1].fn = fi[c] /\ Stack[n + 1].locals = scope[c]
      /\ Stack[n].fn = fi[p] /\ Stack[n].locals = scope[p] /\ Stack[n].declared = global_names[p]
      /\ Stack'[n].fn = fi'[p] /\ Stack'[n].locals = scope'[p]
      /\ Stack'[n].declared = global_names'[p]
  <2>1. n \in 1 .. Depth /\ n + 1 \in 1 .. Depth /\ n \in 1 .. Depth' /\ n \in 1 .. n
    BY <1>1
  <2>2. memory_stack[n] = p /\ memory_stack'[n] = p /\ memory_stack[n + 1] = c
    BY <1>1, <1>3, <1>c, <1>p, <1>n, <2>1 DEF Current
  <2> QED BY <2>1, <2>2 DEF Stack, FrameOf
<1>7. fi'[p] = fi[p] /\ global_names'[p] = global_names[p] /\ scope'[p] = LocalsWith(p, vals)
  BY <1>1, <1>2, <1>3 DEF ContentTypes
<1>8. ASSUME NEW i \in 1 .. n - 1 PROVE Stack'[i] = Stack[i]
  <2>1. i \in 1 .. n /\ i \in 1 .. Depth /\ i \in 1 .. Depth' /\ i # Depth - 1
        /\ Depth - 1 \in 1 .. Depth
    BY <1>1
  <2>2. PICK d \in Cell : d = memory_stack[i]
    BY <1>3, <2>1
  <2>3. d # p /\ d # c
    BY <1>1, <1>3, <1>p, <2>1, <2>2 DEF CellsPartitioned, NoDup, Depth
  <2>4. fi'[d] = fi[d] /\ scope'[d] = scope[d] /\ global_names'[d] = global_names[d]
    BY <1>1, <1>2, <1>3, <2>3 DEF ContentTypes
  <2>5. Stack[i] = [fn |-> fi[d], locals |-> scope[d], declared |-> global_names[d]]
    BY <2>1, <2>2 DEF Stack, FrameOf
  <2>6. Stack'[i] = [fn |-> fi'[d], locals |-> scope'[d], declared |-> global_names'[d]]
    BY <1>3, <2>1, <2>2 DEF Stack, FrameOf
  <2> QED BY <2>4, <2>5, <2>6
<1>9. \A v \in Var : Stack'[n].locals[v] # Stack[n].locals[v] =>
          Stack[n + 1].fn \in Nested /\ Stack'[n].locals[v] = Stack[n + 1].locals[v]
  BY <1>4, <1>6, <1>7 DEF LocalsWith
<1>10. Frames!OnlyThrough(Stack[n], Stack[n].declared)
  <2>1. \A v \in Var : globals'[v] # globals[v] => v \in global_names[p]
    BY <1>2 DEF GlobalsWith
  <2>2. \A f \in Function, v \in Var : persistent'[f][v] # persistent[f][v] =>
            f = fi[p] /\ persistent'[f][v] # NOTHING
    BY <1>2, <1>4 DEF PersistentWith
  <2> QED BY <1>6, <2>1, <2>2 DEF Frames!OnlyThrough
<1>11. ASSUME Stack[n + 1].fn \notin Nested PROVE UNCHANGED <<globals, persistent>>
  <2>1. DOMAIN vals = {}
    BY <1>6, <1>11, <1>a
  <2>2. GlobalsWith(p, vals) = [v \in Var |-> globals[v]]
    BY <2>1 DEF GlobalsWith
  <2>3. PersistentWith(p, vals) = [f \in Function |-> [v \in Var |-> persistent[f][v]]]
    BY <2>1 DEF PersistentWith
  <2> QED BY <1>1, <1>2, <2>2, <2>3 DEF ContentTypes
<1>12. Loose' = Loose
  <2>1. ASSUME NEW d \in allocated_envs PROVE FrameOf(d)' = FrameOf(d)
    <3>1. d \in Cell /\ d # p /\ d # c
      BY <1>1
    <3>2. fi'[d] = fi[d] /\ scope'[d] = scope[d] /\ global_names'[d] = global_names[d]
      BY <1>1, <1>2, <1>3, <3>1 DEF ContentTypes
    <3> QED BY <3>2 DEF FrameOf
  <2> QED BY <1>1, <2>1 DEF Loose
<1>13. Len(Stack) - 1 = n
  BY <1>1, <1>5
<1>14. Frames!Return
  <2>1. n > 0 /\ Len(Stack') = n /\ \A i \in 1 .. (n - 1) : Stack'[i] = Stack[i]
    BY <1>1, <1>5, <1>8
  <2>2. Stack'[n].fn = Stack[n].fn /\ Stack'[n].declared = Stack[n].declared
    BY <1>6, <1>7
  <2> QED
    BY <1>9, <1>10, <1>11, <1>12, <1>13, <2>1, <2>2, Zenon DEF Frames!Return, Stack, Loose
<1> QED BY <1>14 DEF Frames!Next

\* A scope of the heap is made, and dropped.
LEMMA NewEnvRefines ==
    ASSUME MemInv, NEW c \in HeapCell, NewEnv(c)
    PROVE  Frames!Next
<1>1. /\ UNCHANGED <<stackVars, globals, persistent>>
      /\ c \notin allocated_envs /\ allocated_envs' = allocated_envs \cup {c}
      /\ scope' = [scope EXCEPT ![c] = Vacant]
      /\ global_names' = [global_names EXCEPT ![c] = {}]
  BY DEF NewEnv, GetNewEnvHandle, ForgetNames
<1>2. /\ memory_stack' = memory_stack /\ Depth' = Depth /\ fi' = fi /\ c \in Cell /\ c \notin OnStack
      /\ allocated_envs \subseteq Cell /\ fi[c] = NULL
      /\ \A j \in 1 .. Depth : memory_stack[j] \in OnStack /\ memory_stack[j] \in Cell
  <2>1. c \in Cell /\ c \notin OnStack
    BY CellsInUse, HeapAssumption DEF Cell, MemInv
  <2>2. fi[c] = NULL
    BY <1>1, <2>1 DEF MemInv, UnusedScopesClean
  <2> QED BY <1>1, <2>1, <2>2, CellsInUse DEF stackVars, Depth, MemInv
<1>3. \A d \in Cell : d # c => scope'[d] = scope[d] /\ global_names'[d] = global_names[d]
  BY <1>1 DEF MemInv, ContentTypes
<1>4. scope'[c] = Vacant /\ global_names'[c] = {}
  BY <1>1, <1>2 DEF MemInv, ContentTypes
<1>5. Stack' = Stack
  <2>1. \A j \in 1 .. Depth : FrameOf(memory_stack[j])' = FrameOf(memory_stack[j])
    BY <1>2, <1>3 DEF FrameOf
  <2> QED BY <1>2, <2>1 DEF Stack
<1>6. /\ DOMAIN Loose = allocated_envs /\ DOMAIN Loose' = allocated_envs \cup {c}
      /\ c \in DOMAIN Loose' \ DOMAIN Loose
      /\ \A e \in allocated_envs : Loose'[e] = Loose[e]
  <2>1. \A e \in allocated_envs : FrameOf(e)' = FrameOf(e)
    BY <1>1, <1>2, <1>3 DEF FrameOf
  <2> QED BY <1>1, <2>1 DEF Loose
<1>7. Loose'[c] = Frames!Fresh(NULL)
  BY <1>1, <1>2, <1>4 DEF Loose, FrameOf, Frames!Fresh, Frames!Vacant, Vacant
<1>8. Frames!Detach
  BY <1>1, <1>5, <1>6, <1>7 DEF Frames!Detach, Stack, Loose
<1> QED BY <1>8 DEF Frames!Next

\* A name for a scope is no part of a frame.
LEMMA NameEnvRefines ==
    ASSUME MemInv, NameEnv
    PROVE  UNCHANGED Frames!vars
<1>1. UNCHANGED <<stackVars, allocated_envs, contentVars>>
  BY DEF NameEnv, GetBaseEnvHandle, GetCurrentEnvHandle
<1>2. Stack' = Stack /\ Loose' = Loose
  BY <1>1 DEF stackVars, contentVars, Stack, Loose, FrameOf, Depth
<1> QED BY <1>1, <1>2 DEF Frames!vars, Stack, Loose, contentVars

LEMMA DropEnvRefines ==
    ASSUME MemInv, NEW h \in DOMAIN envs, DropEnv(h)
    PROVE  [Frames!Next]_(Frames!vars)
<1>e. PICK e : e = envs[h]
  OBVIOUS
<1>1. /\ UNCHANGED <<stackVars, global_names, globals, persistent>>
      /\ allocated_envs' \in {allocated_envs, allocated_envs \ {e}}
      /\ scope' = [scope EXCEPT ![e] = IF e \in allocated_envs THEN Vacant ELSE @]
  BY <1>e DEF DropEnv, DeleteEnv, ClearEnv
<1>2. CASE e \in allocated_envs
  <2>1. \A d \in Cell : d # e => scope'[d] = scope[d]
    BY <1>1 DEF MemInv, ContentTypes
  <2>2. Frames!UseDetached
    BY <1>1, <1>2, <2>1, LooseRefines
  <2> QED BY <2>2 DEF Frames!Next
<1>3. CASE e \notin allocated_envs
  <2>1. UNCHANGED <<allocated_envs, contentVars>>
    BY <1>1, <1>3 DEF MemInv, ContentTypes, contentVars
  <2>2. Stack' = Stack /\ Loose' = Loose
    BY <1>1, <2>1 DEF stackVars, contentVars, Stack, Loose, FrameOf, Depth
  <2> QED BY <2>1, <2>2 DEF Frames!vars, Stack, Loose, contentVars
<1> QED BY <1>2, <1>3

\* The fenv functions reach a frame of the stack or one of the heap.
LEMMA HandleRefines ==
    ASSUME MemInv,
           \/ \E s, d \in DOMAIN envs : ImportEnv(s, d)
           \/ \E h \in DOMAIN envs, v \in Var :
                 \/ GetEnvValue(h, v)
                 \/ RemoveEnvValue(h, v)
                 \/ \E x \in Val : SetEnvValue(h, v, x)
    PROVE  Frames!Next
<1>1. /\ \A h \in DOMAIN envs : envs[h] \in InUse /\ envs[h] \in Cell
      /\ PoolTypeOK /\ ContentTypes
      /\ \A c \in OnStack : \E i \in 1 .. Depth : memory_stack[i] = c
  BY CellsInUse DEF MemInv, PoolInv, InUse, OnStack
<1>2. ASSUME NEW s \in DOMAIN envs, NEW d \in DOMAIN envs, ImportEnv(s, d)
      PROVE  Frames!Next
  <2>a. PICK from \in InUse : from = envs[s] /\ from \in Cell
    BY <1>1
  <2>b. PICK to \in InUse : to = envs[d] /\ to \in Cell
    BY <1>1
  <2> DEFINE names == {v \in Var : scope[from][v] # NOTHING}
             vals == [v \in names |-> Value(from, v)]
  <2>1. /\ globals' = [v \in Var |-> IF v \in names \cap global_names[to] THEN vals[v]
                                     ELSE GlobalsRead({from}, names)[v]]
        /\ persistent' = PersistentWith(to, vals)
        /\ scope' = [scope EXCEPT ![to] = LocalsWith(to, vals)]
        /\ UNCHANGED <<poolVars, global_names>>
    BY <1>2, <2>a, <2>b DEF ImportEnv
  <2>2. \A v \in DOMAIN vals : vals[v] # NOTHING
    BY NothingAssumption DEF Value, GlobalValue, IsPersistent, Empty, Val
  <2>3. {from} \in SUBSET InUse
    BY <2>a
  <2> HIDE DEF vals, names
  <2>4. \A v \in Var : globals'[v] # globals[v] =>
            v \in global_names[to] \/ Frames!MayComeBack(v)
    BY <2>1, <2>3, ReadBringsBack
  <2>5. \A c \in Cell : c # to => scope'[c] = scope[c] /\ global_names'[c] = global_names[c]
    BY <1>1, <2>1 DEF ContentTypes
  <2>6. CASE to \in OnStack
    <3>1. PICK i \in 1 .. Depth : memory_stack[i] = to
      BY <1>1, <2>6
    <3>2. \A f \in Function, v \in Var : persistent'[f][v] # persistent[f][v] =>
              f = fi[to] /\ persistent'[f][v] # NOTHING
      BY <2>1, <2>2 DEF PersistentWith
    <3>3. UNCHANGED poolVars
      BY <2>1
    <3>4. Frames!Use(i) /\ i \in 1 .. Len(Stack)
      BY <2>4, <2>5, <3>1, <3>2, <3>3, UseRefines
    <3> QED BY <3>4 DEF Frames!Next, Stack
  <2>7. CASE to \in allocated_envs
    <3>1. fi[to] = NULL /\ global_names[to] = {}
      BY <2>7 DEF MemInv, HeapScopesPlain
    <3>2. PersistentWith(to, vals) = [f \in Function |-> [v \in Var |-> persistent[f][v]]]
      BY <3>1, FunctionAssumption DEF PersistentWith, IsPersistent
    <3>3. persistent' = persistent
      BY <1>1, <2>1, <3>2 DEF ContentTypes
    <3>4. UNCHANGED <<stackVars, allocated_envs, global_names, persistent>>
      BY <2>1, <3>3 DEF poolVars, envVars
    <3>5. \A v \in Var : globals'[v] # globals[v] => Frames!MayComeBack(v)
      BY <2>4, <3>1
    <3>6. Frames!UseDetached
      BY <2>5, <2>7, <3>4, <3>5, LooseRefines
    <3> QED BY <3>6 DEF Frames!Next
  <2> QED BY <2>6, <2>7 DEF InUse
<1>3. ASSUME NEW h \in DOMAIN envs, NEW v \in Var, GetEnvValue(h, v)
      PROVE  Frames!Next
  <2>1. globals' = GlobalsRead({envs[h]}, {v})
        /\ UNCHANGED <<poolVars, scope, global_names, persistent>>
    BY <1>3 DEF GetEnvValue
  <2>2. {envs[h]} \in SUBSET InUse
    BY <1>1
  <2>3. \A u \in Var : globals'[u] # globals[u] => Frames!MayComeBack(u)
    BY <2>1, <2>2, ReadBringsBack
  <2>4. Frames!Read
    BY <2>1, <2>3, ReadRefines
  <2> QED BY <2>4 DEF Frames!Next
<1>4. ASSUME NEW h \in DOMAIN envs, NEW v \in Var, RemoveEnvValue(h, v)
      PROVE  Frames!Next
  <2>1. /\ UNCHANGED <<poolVars, global_names, globals, persistent>>
        /\ UNCHANGED <<stackVars, allocated_envs>>
        /\ \A c \in Cell : c # envs[h] => scope'[c] = scope[c]
    BY <1>1, <1>4 DEF RemoveEnvValue, poolVars, envVars, ContentTypes
  <2>2. CASE envs[h] \in OnStack
    <3>1. PICK i \in 1 .. Depth : memory_stack[i] = envs[h]
      BY <1>1, <2>2
    <3>2. Frames!Use(i) /\ i \in 1 .. Len(Stack)
      BY <2>1, <3>1, UseRefines
    <3> QED BY <3>2 DEF Frames!Next, Stack
  <2>3. CASE envs[h] \in allocated_envs
    <3>1. Frames!UseDetached
      BY <2>1, <2>3, LooseRefines
    <3> QED BY <3>1 DEF Frames!Next
  <2> QED BY <1>1, <2>2, <2>3 DEF InUse
<1>5. ASSUME NEW h \in DOMAIN envs, NEW v \in Var, NEW x \in Val, SetEnvValue(h, v, x)
      PROVE  Frames!Next
  <2>1. Store(envs[h], [u \in {v} |-> x]) /\ x # NOTHING
    BY <1>5, NothingAssumption DEF SetEnvValue
  <2>2. \A u \in DOMAIN [w \in {v} |-> x] : [w \in {v} |-> x][u] # NOTHING
    BY <2>1
  <2>3. CASE envs[h] \in OnStack
    <3>1. PICK i \in 1 .. Depth : memory_stack[i] = envs[h]
      BY <1>1, <2>3
    <3> QED BY <2>1, <2>2, <3>1, StoreRefines
  <2>4. CASE envs[h] \in allocated_envs
    BY <2>1, <2>4, LooseStoreRefines
  <2> QED BY <1>1, <2>3, <2>4 DEF InUse
<1> QED BY <1>2, <1>3, <1>4, <1>5

\* Statements run in the top frame; outputs are stored in the one below it.
LEMMA StatementRefines ==
    ASSUME MemInv, NEW v \in Var,
           \/ Read(v) \/ AddGlobalReference(v) \/ AddPersistentReference(v) \/ FailElement(v)
           \/ \E x \in Val : SetValue(v, x) \/ SetParentValue(v, x)
           \/ \E e \in Elem : AssignElement(v, e)
    PROVE  Frames!Next
<1>1. /\ ContentTypes /\ PoolTypeOK /\ Current \in Cell
      /\ Depth \in 1 .. Depth /\ Current = memory_stack[Depth]
  BY CellsInUse DEF MemInv, PoolInv, Current
<1>2. NOTHING \notin Val /\ Empty \in Val /\ Empty # NOTHING
  BY NothingAssumption DEF Empty, Val
<1>3. ASSUME NEW i \in 1 .. Depth, NEW x, x # NOTHING,
             Store(memory_stack[i], [u \in {v} |-> x])
      PROVE  Frames!Next
  <2>1. \A u \in DOMAIN [w \in {v} |-> x] : [w \in {v} |-> x][u] # NOTHING
    BY <1>3
  <2> QED BY <1>3, <2>1, StoreRefines
<1>4. ASSUME Read(v) PROVE Frames!Next
  <2>1. PICK I \in {Visible, VisibleByName} : globals' = GlobalsRead(FoundIn(I, v), {v})
    BY <1>4 DEF Read
  <2>2. FoundIn(I, v) \in SUBSET InUse
    BY <2>1, FoundOnStack DEF InUse
  <2>3. \A u \in Var : globals'[u] # globals[u] => Frames!MayComeBack(u)
    BY <2>1, <2>2, ReadBringsBack
  <2>4. Frames!Read
    BY <1>4, <2>3, ReadRefines DEF Read
  <2> QED BY <2>4 DEF Frames!Next
<1>5. ASSUME AddGlobalReference(v) PROVE Frames!Next
  <2>1. /\ UNCHANGED <<poolVars, scope, persistent>>
        /\ global_names' = [global_names EXCEPT ![Current] = @ \cup {v}]
        /\ globals' = [globals EXCEPT ![v] = GlobalValue(v)]
    BY <1>5 DEF AddGlobalReference
  <2>2. \A d \in Cell : d # Current => scope'[d] = scope[d] /\ global_names'[d] = global_names[d]
    BY <1>1, <2>1 DEF ContentTypes
  <2>3. \A u \in Var : globals'[u] # globals[u] => u \in global_names'[Current]
    BY <1>1, <2>1 DEF ContentTypes
  <2>4. Frames!Use(Depth) /\ Depth \in 1 .. Len(Stack)
    BY <1>1, <2>1, <2>2, <2>3, UseRefines
  <2> QED BY <2>4 DEF Frames!Next, Stack
<1>6. ASSUME AddPersistentReference(v) PROVE Frames!Next
  <2>1. /\ UNCHANGED <<poolVars, scope, global_names, globals>>
        /\ persistent' = [persistent EXCEPT ![fi[Current]][v] = Empty]
    BY <1>6 DEF AddPersistentReference
  <2>2. \A f \in Function, u \in Var : persistent'[f][u] # persistent[f][u] =>
            f = fi[Current] /\ persistent'[f][u] # NOTHING
    BY <1>1, <1>2, <2>1 DEF ContentTypes
  <2>3. Frames!Use(Depth) /\ Depth \in 1 .. Len(Stack)
    BY <1>1, <2>1, <2>2, UseRefines
  <2> QED BY <2>3 DEF Frames!Next, Stack
<1>7. MutableValue(v) # NOTHING
  BY <1>2 DEF MutableValue
<1>8. ASSUME FailElement(v) PROVE Frames!Next
  BY <1>1, <1>3, <1>7, <1>8 DEF FailElement
<1>9. ASSUME NEW x \in Val, SetValue(v, x) PROVE Frames!Next
  BY <1>1, <1>2, <1>3, <1>9 DEF SetValue
<1>10. ASSUME NEW x \in Val, SetParentValue(v, x) PROVE Frames!Next
  <2>1. Depth - 1 \in 1 .. Depth
    BY <1>10, CellsInUse DEF SetParentValue, MemInv
  <2> QED BY <1>2, <1>3, <1>10, <2>1 DEF SetParentValue
<1>11. ASSUME NEW e \in Elem, AssignElement(v, e) PROVE Frames!Next
  <2>1. MutableValue(v) \cup {e} # NOTHING
    <3>1. MutableValue(v) \in Val
      BY <1>1, <1>2, <1>7, ValueType DEF MutableValue, Held
    <3> QED BY <1>2, <3>1 DEF Val
  <2> QED BY <1>1, <1>3, <1>11, <2>1 DEF AssignElement
<1> QED BY <1>4, <1>5, <1>6, <1>8, <1>9, <1>10, <1>11

\* The clear commands take locals from the top frame, or globals and declarations.
LEMMA ClearsRefine ==
    ASSUME MemInv,
           \/ \E v \in Var : ClearName(v) \/ ClearGlobalName(v)
           \/ \E P \in SUBSET Var : RemovePattern(P) \/ ClearGlobalPattern(P) \/ ClearPattern(P)
           \/ ClearGlobals
           \/ ClearEverything
    PROVE  Frames!Next
<1>1. /\ ContentTypes /\ Current \in Cell /\ Current \in OnStack
      /\ Depth \in 1 .. Depth /\ Current = memory_stack[Depth]
  BY CellsInUse DEF MemInv, Current
<1>2. ASSUME NEW P, scope' = WithoutLocals(P)
      PROVE  \A d \in Cell : d # Current => scope'[d] = scope[d]
  BY <1>2 DEF WithoutLocals, ContentTypes, MemInv
<1>3. ASSUME NEW v \in Var, ClearName(v) PROVE Frames!Next
  <2>1. /\ UNCHANGED <<poolVars, persistent>> /\ scope' = WithoutLocals({v})
        /\ global_names' = [global_names EXCEPT ![Current] = @ \ {v}]
        /\ globals' = GlobalsRead(FoundIn(VisibleByName, v), {v})
    BY <1>3 DEF ClearName
  <2>2. FoundIn(VisibleByName, v) \in SUBSET InUse
    BY FoundOnStack DEF InUse
  <2>3. \A u \in Var : globals'[u] # globals[u] => Frames!MayComeBack(u)
    BY <2>1, <2>2, ReadBringsBack
  <2>4. \A d \in Cell : d # Current => scope'[d] = scope[d] /\ global_names'[d] = global_names[d]
    BY <1>1, <1>2, <2>1 DEF ContentTypes
  <2>5. Frames!Use(Depth) /\ Depth \in 1 .. Len(Stack)
    BY <1>1, <2>1, <2>3, <2>4, UseRefines
  <2> QED BY <2>5 DEF Frames!Next, Stack
<1>4. ASSUME NEW v \in Var, ClearGlobalName(v) PROVE Frames!Next
  <2>1. /\ UNCHANGED <<poolVars, scope, persistent>>
        /\ globals' = [globals EXCEPT ![v] = NOTHING]
        /\ global_names' = [c \in Cell |-> global_names[c] \ (IF c \in OnStack THEN {v} ELSE {})]
    BY <1>4 DEF ClearGlobalName
  <2>2. \A u \in Var : globals'[u] # globals[u] => globals'[u] = NOTHING
    BY <1>1, <2>1 DEF ContentTypes
  <2>3. \A d \in Cell : global_names'[d] \subseteq global_names[d]
    BY <2>1
  <2>4. \A d \in Cell \ OnStack : global_names'[d] = global_names[d]
    BY <2>1, <1>1 DEF ContentTypes
  <2> QED BY <2>1, <2>2, <2>3, <2>4, ClearRefines
<1>5. ASSUME NEW P \in SUBSET Var, RemovePattern(P) PROVE Frames!Next
  <2>1. UNCHANGED <<poolVars, global_names, globals, persistent>> /\ scope' = WithoutLocals(P)
    BY <1>5 DEF RemovePattern
  <2>2. \A d \in Cell : d # Current => scope'[d] = scope[d]
    BY <1>2, <2>1
  <2>3. Frames!Use(Depth) /\ Depth \in 1 .. Len(Stack)
    BY <1>1, <2>1, <2>2, UseRefines
  <2> QED BY <2>3 DEF Frames!Next, Stack
<1>6. ASSUME NEW P \in SUBSET Var, ClearGlobalPattern(P) PROVE Frames!Next
  <2>1. /\ UNCHANGED <<poolVars, scope, persistent>>
        /\ globals' = [v \in Var |-> IF v \in P THEN NOTHING ELSE globals[v]]
        /\ global_names' = [global_names EXCEPT ![Current] =
                                {v \in @ : v \in P => globals[v] = NOTHING}]
    BY <1>6 DEF ClearGlobalPattern
  <2>2. \A u \in Var : globals'[u] # globals[u] => globals'[u] = NOTHING
    BY <2>1
  <2>3. /\ \A d \in Cell : global_names'[d] \subseteq global_names[d]
        /\ \A d \in Cell \ OnStack : global_names'[d] = global_names[d]
    BY <1>1, <2>1 DEF ContentTypes
  <2> QED BY <2>1, <2>2, <2>3, ClearRefines
<1>7. ASSUME NEW P \in SUBSET Var, ClearPattern(P) PROVE Frames!Next
  BY <1>5, <1>6, <1>7 DEF ClearPattern
<1>8. ASSUME ClearAllGlobals
      PROVE  /\ \A u \in Var : globals'[u] # globals[u] => globals'[u] = NOTHING
             /\ \A d \in Cell : global_names'[d] \subseteq global_names[d]
             /\ \A d \in Cell \ OnStack : global_names'[d] = global_names[d]
  BY <1>8 DEF ClearAllGlobals, Vacant
<1>9. ASSUME ClearGlobals PROVE Frames!Next
  <2>1. UNCHANGED <<poolVars, scope, persistent>> /\ ClearAllGlobals
    BY <1>9 DEF ClearGlobals
  <2> QED BY <1>8, <2>1, ClearRefines
<1>10. ASSUME ClearEverything PROVE Frames!Next
  <2>1. UNCHANGED <<poolVars, persistent>> /\ ClearAllGlobals /\ scope' = WithoutLocals(Var)
    BY <1>10 DEF ClearEverything
  <2>2. \A d \in Cell : d # Current => scope'[d] = scope[d]
    BY <1>2, <2>1
  <2> QED BY <1>8, <2>1, <2>2, ClearRefines
<1> QED BY <1>3, <1>4, <1>5, <1>6, <1>7, <1>9, <1>10

\* Every step is a step of the frames or leaves them alone.
LEMMA StepRefines == MemInv /\ [MemNext]_memVars => [Frames!Next]_(Frames!vars)
<1> SUFFICES ASSUME MemInv, [MemNext]_memVars PROVE [Frames!Next]_(Frames!vars)
  OBVIOUS
<1>1. CASE UNCHANGED memVars
  <2>1. UNCHANGED <<stackVars, allocated_envs, contentVars>>
    BY <1>1 DEF memVars, poolVars, envVars
  <2>2. Stack' = Stack /\ Loose' = Loose
    BY <2>1 DEF stackVars, contentVars, Stack, Loose, FrameOf, Depth
  <2> QED BY <2>1, <2>2 DEF Frames!vars, Stack, Loose, contentVars
<1>2. CASE MemNext
  BY <1>2, OpenRefines, CloseRefines, NameEnvRefines, NewEnvRefines, DropEnvRefines,
     HandleRefines, StatementRefines, ClearsRefine
  DEF MemNext
<1> QED BY <1>1, <1>2

\* The recycled scopes, their handles, globals and persistents implement the frames
\* of CallFrames: a call's variables change only while it runs, through a handle, or
\* when the nested function it called returns, and nobody sees that scopes are reused.
THEOREM FramesImplemented == MemSpec => ImplementsFrames
<1>1. MemInit => Frames!Init
  BY FramesBegin
<1>2. MemInv /\ [MemNext]_memVars => [Frames!Next]_(Frames!vars)
  BY StepRefines
<1> QED BY <1>1, <1>2, MemInvariant, PTL DEF MemSpec, ImplementsFrames, Frames!Spec

==============================================================================
