------------------------------ MODULE ScopePool ------------------------------
(***************************************************************************)
(* The control of MemoryScopeManager (src/src/oml/Runtime/MemoryScope.cpp): *)
(* the stack of scopes of one interpreter, the pool the scopes come from,  *)
(* and the environment handles (fenv functions) that name scopes.  What a  *)
(* scope holds is left out here and added by module MemoryScope, which     *)
(* EXTENDS this one.                                                       *)
(*                                                                         *)
(* A scope is identified by its address, a Cell: the cells of stack_pool   *)
(* are 0 .. PoolSize-1, and GetNewEnvHandle allocates cells of the heap.   *)
(* Closed pool cells are handed out again, so an address outlives the      *)
(* function call it stood for: everything that still names a closed cell   *)
(* would silently name somebody else's variables.                          *)
(***************************************************************************)
EXTENDS Integers, Sequences, FiniteSets

CONSTANTS
    Function,   \* the user functions (FunctionInfo objects)
    NULL,       \* the FunctionInfo* of the base scope
    PoolSize,   \* length of stack_pool (128 in the code)
    MaxDepth,   \* MAX_VAL of OpenScope (100, 50 in a debug build)
    HeapCell,   \* addresses `new MemoryScope` may return
    MaxCounter  \* bound on _env_counter (an int in the code)

PoolCell == 0 .. (PoolSize - 1)
Cell == PoolCell \cup HeapCell

ASSUME FunctionAssumption == NULL \notin Function
ASSUME SizeAssumption == PoolSize \in Nat /\ MaxDepth \in Nat \ {0} /\ MaxDepth < PoolSize
ASSUME HeapAssumption == HeapCell \cap PoolCell = {}
ASSUME CounterAssumption == MaxCounter \in Nat

VARIABLES
    memory_stack,            \* sequence of cells, the base scope first
    unused_scopes,           \* closed cells waiting for reuse
    pool_in_use,             \* cells of stack_pool handed out so far
    fi,                      \* the function a cell runs
    first_scope_with_nested, \* -1, or an offset into memory_stack
    registered,              \* history: open cells that registered a nested function
    envs,                    \* _envs: handle -> cell
    rev_envs,                \* _rev_envs: cell -> handle
    allocated_envs,          \* heap cells owned by the manager
    env_counter

stackVars == <<memory_stack, unused_scopes, pool_in_use, fi,
               first_scope_with_nested, registered>>
envVars == <<envs, rev_envs, allocated_envs, env_counter>>
poolVars == <<stackVars, envVars>>

Depth == Len(memory_stack)
Base == memory_stack[1]
Current == memory_stack[Depth]
OnStack == {memory_stack[i] : i \in 1 .. Depth}

\* The manager right after the interpreter's constructor opened the base scope.
PoolInit ==
    /\ memory_stack = <<0>>
    /\ unused_scopes = <<>>
    /\ pool_in_use = 1
    /\ fi = [c \in Cell |-> NULL]
    /\ first_scope_with_nested = -1
    /\ registered = {}
    /\ envs = [h \in {} |-> 0]
    /\ rev_envs = [c \in {} |-> 0]
    /\ allocated_envs = {}
    /\ env_counter = 0

------------------------------------------------------------------------------
(* Scopes *)

\* MemoryScope::Initialize on cell c for function f, and the push.
Push(c, f) ==
    /\ memory_stack' = Append(memory_stack, c)
    /\ fi' = [fi EXCEPT ![c] = f]

\* A scope for a call of f: the most recently closed cell first, else the next
\* one of the pool.  The last cell of the pool is never handed out: reaching it
\* is the "Maximum scope depth reached" error, raised after the counter moved.
OpenScope(f) ==
    /\ Depth # MaxDepth
    /\ IF unused_scopes # <<>>
         THEN /\ Push(unused_scopes[Len(unused_scopes)], f)
              /\ unused_scopes' = SubSeq(unused_scopes, 1, Len(unused_scopes) - 1)
              /\ UNCHANGED pool_in_use
         ELSE /\ pool_in_use' = pool_in_use + 1
              /\ IF pool_in_use + 1 = PoolSize
                   THEN UNCHANGED <<memory_stack, fi>>
                   ELSE Push(pool_in_use, f)
              /\ UNCHANGED unused_scopes
    /\ UNCHANGED <<first_scope_with_nested, registered, envVars>>

\* (mutant) A closed scope keeps its handle.
EnvsKept(cs) == envs

\* The env maps after ClearEnv(MemoryScope*) on every cell of cs: the reverse map
\* says which handle goes.
EnvsWithout(cs) ==
    [h \in DOMAIN envs \ {rev_envs[c] : c \in cs \cap DOMAIN rev_envs} |-> envs[h]]
RevEnvsWithout(cs) == [c \in DOMAIN rev_envs \ cs |-> rev_envs[c]]

ClearEnv(cs) ==
    /\ envs' = EnvsWithout(cs)
    /\ rev_envs' = RevEnvsWithout(cs)
    /\ allocated_envs' = allocated_envs \ (cs \cap DOMAIN rev_envs)

Closed(n) == {memory_stack[i] : i \in (n + 1) .. Depth}

\* (mutants) Closed scopes are not reused; the top of the stack is queued every time.
RecycledNothing(n) == <<>>
RecycledTop(n) == [i \in 1 .. (Depth - n) |-> Current]

\* The closed cells in the order they are pushed back, the top of the stack first.
Recycled(n) == [i \in 1 .. (Depth - n) |-> memory_stack[Depth + 1 - i]]

\* CloseScope repeated until n scopes are left: handles of the closed cells are
\* cleared, the cells reset and queued for reuse, and the mark of the outermost
\* scope with nested functions dropped when that scope goes.
CloseDownTo(n) ==
    /\ ClearEnv(Closed(n))
    /\ fi' = [c \in Cell |-> IF c \in Closed(n) THEN NULL ELSE fi[c]]
    /\ unused_scopes' = unused_scopes \o Recycled(n)
    /\ memory_stack' = SubSeq(memory_stack, 1, n)
    /\ first_scope_with_nested' = IF first_scope_with_nested \in n .. (Depth - 1)
                                    THEN -1 ELSE first_scope_with_nested
    /\ registered' = registered \ Closed(n)
    /\ UNCHANGED <<pool_in_use, env_counter>>

\* (mutant) Returning from the base scope closes it too.
CloseAnyScope == Depth > 0 /\ CloseDownTo(Depth - 1)

\* A function returned.  The base scope stays until the interpreter is destroyed.
CloseScope == Depth > 1 /\ CloseDownTo(Depth - 1)

\* An error unwound to the scope of the handler's mark, offset n from the base.
CloseTo(n) == n \in 1 .. (Depth - 1) /\ CloseDownTo(n)

\* (mutant) The mark follows the last scope that registered a nested function.
RegisterMovesMark ==
    /\ fi[Current] # NULL
    /\ first_scope_with_nested' = Depth - 1
    /\ registered' = registered \cup {Current}
    /\ UNCHANGED <<memory_stack, unused_scopes, pool_in_use, fi, envVars>>

\* A nested function definition runs; FunctionDefinition lets only a scope that
\* runs a function get here.
RegisterNestedFunction ==
    /\ fi[Current] # NULL
    /\ first_scope_with_nested' = IF first_scope_with_nested = -1
                                    THEN Depth - 1 ELSE first_scope_with_nested
    /\ registered' = registered \cup {Current}
    /\ UNCHANGED <<memory_stack, unused_scopes, pool_in_use, fi, envVars>>

------------------------------------------------------------------------------
(* Environment handles *)

Bind(f, x, y) == [z \in DOMAIN f \cup {x} |-> IF z = x THEN y ELSE f[z]]

\* The base scope becomes handle 0, whatever handle it had.
GetBaseEnvHandle ==
    /\ envs' = Bind(envs, 0, Base)
    /\ rev_envs' = Bind(rev_envs, Base, 0)
    /\ UNCHANGED <<stackVars, allocated_envs, env_counter>>

\* (mutant) The counter does not move.
GetCurrentEnvHandleUncounted ==
    /\ Current \notin DOMAIN rev_envs
    /\ envs' = Bind(envs, env_counter, Current)
    /\ rev_envs' = Bind(rev_envs, Current, env_counter)
    /\ UNCHANGED <<stackVars, allocated_envs, env_counter>>

\* The counter moves even when the current scope already has a handle.
GetCurrentEnvHandle ==
    /\ env_counter < MaxCounter
    /\ env_counter' = env_counter + 1
    /\ IF Current \in DOMAIN rev_envs
         THEN UNCHANGED <<envs, rev_envs>>
         ELSE /\ envs' = Bind(envs, env_counter', Current)
              /\ rev_envs' = Bind(rev_envs, Current, env_counter')
    /\ UNCHANGED <<stackVars, allocated_envs>>

\* (mutant) The reverse map gets the handle without its sign.
GetNewEnvHandleUnsigned(c) ==
    /\ env_counter < MaxCounter
    /\ c \in HeapCell \ allocated_envs
    /\ env_counter' = env_counter + 1
    /\ envs' = Bind(envs, -env_counter', c)
    /\ rev_envs' = Bind(rev_envs, c, env_counter')
    /\ allocated_envs' = allocated_envs \cup {c}
    /\ UNCHANGED stackVars

\* A scope of its own on the heap, under a negative handle.
GetNewEnvHandle(c) ==
    /\ env_counter < MaxCounter
    /\ c \in HeapCell \ allocated_envs
    /\ env_counter' = env_counter + 1
    /\ envs' = Bind(envs, -env_counter', c)
    /\ rev_envs' = Bind(rev_envs, c, -env_counter')
    /\ allocated_envs' = allocated_envs \cup {c}
    /\ UNCHANGED stackVars

\* ClearEnv(int): the cell is looked up by handle, the handle to erase by cell.
DeleteEnv(h) ==
    /\ h \in DOMAIN envs
    /\ ClearEnv({envs[h]})
    /\ UNCHANGED <<stackVars, env_counter>>

------------------------------------------------------------------------------
PoolNext ==
    \/ \E f \in Function : OpenScope(f)
    \/ CloseScope
    \/ \E n \in 1 .. (Depth - 1) : CloseTo(n)
    \/ RegisterNestedFunction
    \/ GetBaseEnvHandle
    \/ GetCurrentEnvHandle
    \/ \E c \in HeapCell : GetNewEnvHandle(c)
    \/ \E h \in DOMAIN envs : DeleteEnv(h)

PoolSpec == PoolInit /\ [][PoolNext]_poolVars

------------------------------------------------------------------------------
(* Properties *)

PoolTypeOK ==
    /\ memory_stack \in Seq(PoolCell)
    /\ memory_stack # <<>>
    /\ unused_scopes \in Seq(PoolCell)
    /\ pool_in_use \in Nat
    /\ fi \in [Cell -> Function \cup {NULL}]
    /\ first_scope_with_nested \in Nat \cup {-1}
    /\ registered \subseteq Cell
    /\ DOMAIN envs \subseteq Int
    /\ envs \in [DOMAIN envs -> Cell]
    /\ DOMAIN rev_envs \subseteq Cell
    /\ rev_envs \in [DOMAIN rev_envs -> Int]
    /\ allocated_envs \subseteq HeapCell
    /\ env_counter \in Nat

NoDup(s) == \A i, j \in 1 .. Len(s) : s[i] = s[j] => i = j

\* Every cell the pool handed out is in exactly one place, once: open on the stack
\* or waiting in unused_scopes.  No two open calls ever share a MemoryScope, which
\* OpenScope's reuse and CloseScope's push have to guarantee together.
CellsPartitioned ==
    /\ NoDup(memory_stack)
    /\ NoDup(unused_scopes)
    /\ \A i \in 1 .. Depth, j \in 1 .. Len(unused_scopes) : memory_stack[i] # unused_scopes[j]
    /\ \A i \in 1 .. Depth : memory_stack[i] < pool_in_use
    /\ \A j \in 1 .. Len(unused_scopes) : unused_scopes[j] < pool_in_use
    /\ Depth + Len(unused_scopes) = pool_in_use

\* The pool never runs out: MAX_VAL is hit first, so "Maximum scope depth reached"
\* of OpenScope is dead code and stack_pool is never indexed past its end, however
\* many calls were opened, closed and unwound before.
PoolNeverExhausted == pool_in_use <= MaxDepth

\* A handle of _envs names a scope that is still open or one the manager owns on
\* the heap, never a closed cell that a later call may be using.
HandlesNeverDangle ==
    \A h \in DOMAIN envs : envs[h] \in OnStack \cup allocated_envs

\* The two env maps agree: what the reverse map says of a cell is in _envs (ClearEnv
\* erases that entry without looking whether find() succeeded), and any scope but
\* the base has one handle only, the one closing the scope will clear.
EnvMapsAgree ==
    /\ \A c \in DOMAIN rev_envs : rev_envs[c] \in DOMAIN envs /\ envs[rev_envs[c]] = c
    /\ \A h \in DOMAIN envs : envs[h] # Base =>
          envs[h] \in DOMAIN rev_envs /\ rev_envs[envs[h]] = h

\* GetNestedFunction searches the scopes from first_scope_with_nested up: no open
\* scope that registered a nested function lies outside that range, and the range
\* never starts above the stack.
NestedSearchCovers ==
    /\ first_scope_with_nested < Depth
    /\ \A i \in 1 .. Depth : memory_stack[i] \in registered =>
          first_scope_with_nested \in 0 .. (i - 1)

\* A handle means the same scope from the step that issued it until it is cleared;
\* a number is never issued a second time for another scope while it is in use.
HandlesStable ==
    [][\A h \in DOMAIN envs \cap DOMAIN envs' : envs'[h] = envs[h]]_poolVars

==============================================================================
