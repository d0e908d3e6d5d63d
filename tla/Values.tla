------------------------------- MODULE Values -------------------------------
(***************************************************************************)
(* Copy on write, as Currency.cpp and the assignments of Evaluator.cpp do  *)
(* it.  A variable or an element holds a number or the address of a block: *)
(* a matrix, a cell array or an array of structs with one field, which     *)
(* counts the Currency objects that hold it.  A write into a block that    *)
(* others hold copies it first, except where the code does not look:       *)
(*   - a block in ignore_cow_pointers, where parfor puts what its body     *)
(*     slices: it is not counted and not copied until a loop ends well;    *)
(*   - [s.f] = c{:}, which writes into the struct array it finds.          *)
(* Elements are numbers and matrices: a container in a container is left   *)
(* out.  x = y stands for binding a parameter and returning a value, too.  *)
(***************************************************************************)
EXTENDS Naturals, FiniteSets

CONSTANTS
  Var, Number, NOTHING,
  Slot, Item,  \* the indices of containers; those of matrices
  MaxBlocks,   \* bound on the blocks in memory
  MaxStray,    \* bound on the blocks failed loops leave behind
  NumThreads,  \* threads of a parfor loop
  Careful      \* programs slice only what they alone hold, and do not copy
               \* what a failed loop sliced

(* The values of matrices and containers, which are no numbers. *)
MatrixValue    == [kind : {"matrix"}, elems : [Item -> Number]]
ContainerValue == [kind : {"cells", "struct"}, elems : [Slot -> Number \cup MatrixValue]]

ASSUME ValuesAssumption ==
  /\ MaxBlocks \in Nat /\ MaxStray \in Nat /\ NumThreads \in Nat \ {0} /\ Careful \in BOOLEAN
  /\ NOTHING \notin Number
  /\ (Number \cup {NOTHING}) \cap ((1 .. MaxBlocks) \cup MatrixValue \cup ContainerValue) = {}
  /\ IsFiniteSet(Var) /\ IsFiniteSet(Slot) /\ IsFiniteSet(Item)

Block == 1 .. MaxBlocks
Kind == {"matrix", "cells", "struct"}

VARIABLES
  ref,                  \* what each variable holds: a number, a block or NOTHING
  heap,                 \* the blocks: their kind, reference count and elements
  ignore_cow_pointers,  \* blocks that are neither counted nor copied
  loop,                 \* the parfor loop that runs: its sliced block, what it reads
  stray                 \* blocks a failed loop left counted too high (history)

valueVars == <<ref, heap, ignore_cow_pointers, loop, stray>>

FREE == [kind |-> "free", m_refCount |-> 0, elems |-> <<>>]
Index(kind) == IF kind = "matrix" THEN Item ELSE Slot
NoLoop == [x |-> NOTHING, reads |-> NOTHING]

ValuesInit ==
  /\ ref = [x \in Var |-> NOTHING]
  /\ heap = [b \in Block |-> FREE]
  /\ ignore_cow_pointers = {}
  /\ loop = NoLoop
  /\ stray = {}

-----------------------------------------------------------------------------
(* Counting.  h is a heap, v a number, a block or NOTHING. *)

IgnoreCoW(v) == v \in ignore_cow_pointers
Counted(v) == v \in Block /\ ~IgnoreCoW(v)

Times(elems, b) == Cardinality({i \in DOMAIN elems : elems[i] = b})

(* Copy, the counting of the new value. *)
Incr(h, v) == IF Counted(v) THEN [h EXCEPT ![v].m_refCount = @ + 1] ELSE h

IncrAll(h, elems) ==
  [b \in Block |-> IF Counted(b)
                   THEN [h[b] EXCEPT !.m_refCount = @ + Times(elems, b)] ELSE h[b]]

(* The destructors of n holders of one block each. *)
Less(block, n) ==
  IF block.m_refCount > n THEN [block EXCEPT !.m_refCount = @ - n] ELSE FREE

DropAll(h, elems) ==
  [b \in Block |-> IF Counted(b) /\ Times(elems, b) > 0
                   THEN Less(h[b], Times(elems, b)) ELSE h[b]]

(* DeleteMatrix, DeleteCells, DeleteStruct: the last holder deletes the block,
   and with it what its elements hold. *)
Release(h, b) ==
  IF h[b].m_refCount # 1 THEN [h EXCEPT ![b].m_refCount = @ - 1]
  ELSE DropAll([h EXCEPT ![b] = FREE], h[b].elems)

Drop(h, v) == IF Counted(v) THEN Release(h, v) ELSE h

-----------------------------------------------------------------------------
(* Blocks. *)

FreeBlocks(h) == {b \in Block : h[b] = FREE}
Room(n) == Cardinality(FreeBlocks(heap)) >= n
Fresh(h) == CHOOSE b \in FreeBlocks(h) : TRUE

Allocate(h, kind, elems) ==
  [IncrAll(h, elems) EXCEPT ![Fresh(h)] = [kind |-> kind, m_refCount |-> 1, elems |-> elems]]

Is(v, kind) == v \in Block /\ heap[v].kind = kind
IsContainer(v) == Is(v, "cells") \/ Is(v, "struct")

(* (mutants) shared only when more than two hold it; copies take the elements
   as they are *)
SharedByThree(h, b) == ~IgnoreCoW(b) /\ h[b].m_refCount > 2
OwnUncounted(h, b) ==
  IF IgnoreCoW(b) \/ h[b].m_refCount = 1 THEN h
  ELSE Drop([h EXCEPT ![Fresh(h)] = [h[b] EXCEPT !.m_refCount = 1]], b)

Shared(h, b) == ~IgnoreCoW(b) /\ h[b].m_refCount # 1

(* The block a write into b goes to, and the heap with that block in it. *)
Target(h, b) == IF Shared(h, b) THEN Fresh(h) ELSE b
Own(h, b) == IF Shared(h, b) THEN Drop(Allocate(h, h[b].kind, h[b].elems), b) ELSE h

(* An element becomes v: Currency's assignment. *)
Store(h, b, i, v) ==
  Drop([Incr(h, v) EXCEPT ![b].elems[i] = v], h[b].elems[i])

-----------------------------------------------------------------------------
(* Statements. *)

(* (mutant) what x held goes first *)
AssignDropFirst(x, v) ==
  /\ heap' = Incr(Drop(heap, ref[x]), v)
  /\ ref' = [ref EXCEPT ![x] = v]

(* The variable x takes v, a number or a block somebody holds. *)
Assign(x, v) ==
  /\ heap' = Drop(Incr(heap, v), ref[x])
  /\ ref' = [ref EXCEPT ![x] = v]

Unlooped == loop = NoLoop /\ UNCHANGED <<ignore_cow_pointers, loop, stray>>

Sound(v) == Careful => ~IgnoreCoW(v)

(* x = [n n], x = {n, n}, x = struct("f", {n, n}) *)
Create(x, kind, n) ==
  /\ Room(1)
  /\ heap' = Drop(Allocate(heap, kind, [i \in Index(kind) |-> n]), ref[x])
  /\ ref' = [ref EXCEPT ![x] = Fresh(heap)]
  /\ Unlooped

CreateNumber(x, n) == Assign(x, n) /\ Unlooped

Clear(x) == Assign(x, NOTHING) /\ Unlooped

Copy(x, y) == Sound(ref[y]) /\ Assign(x, ref[y]) /\ Unlooped

(* x = y{i}, x = y(i).f *)
Take(x, y, i) ==
  /\ IsContainer(ref[y])
  /\ Assign(x, heap[ref[y]].elems[i])
  /\ Unlooped

(* x(i) = n *)
AssignElement(x, i, n) ==
  LET b == ref[x] IN
  /\ Is(b, "matrix") /\ Room(1)
  /\ heap' = [Own(heap, b) EXCEPT ![Target(heap, b)].elems[i] = n]
  /\ ref' = [ref EXCEPT ![x] = Target(heap, b)]
  /\ Unlooped

(* x{i} = v, x(i).f = v *)
AssignCell(x, i, v) ==
  LET b == ref[x] IN
  /\ IsContainer(b) /\ Room(1)
  /\ \/ v \in Number
     \/ Is(v, "matrix") /\ Sound(v)
  /\ heap' = Store(Own(heap, b), Target(heap, b), i, v)
  /\ ref' = [ref EXCEPT ![x] = Target(heap, b)]
  /\ Unlooped

(* x{i}(j) = n, x(i).f(j) = n: the container is made x's own, then the matrix
   the container's. *)
AssignInner(x, i, j, n) ==
  LET b == ref[x]
      h == Own(heap, b)
      m == heap[b].elems[i]
  IN
  /\ IsContainer(b) /\ Is(m, "matrix") /\ Room(2)
  /\ heap' = [Own(h, m) EXCEPT ![Target(heap, b)].elems[i] = Target(h, m),
                               ![Target(h, m)].elems[j] = n]
  /\ ref' = [ref EXCEPT ![x] = Target(heap, b)]
  /\ Unlooped

(* [x.f] = y{:} *)
CellExtraction(x, y) ==
  LET b == ref[x]
      new == heap[ref[y]].elems
  IN
  /\ Is(b, "struct") /\ Is(ref[y], "cells")
  /\ Careful => heap[b].m_refCount = 1
  /\ heap' = DropAll([IncrAll(heap, new) EXCEPT ![b].elems = new], heap[b].elems)
  /\ UNCHANGED ref
  /\ Unlooped

-----------------------------------------------------------------------------
(* parfor j = ..., x(j) = n; or x{j} = y *)

(* The variable `sliced` holds what x holds, the threads hold what y holds. *)
StartParfor(x, y) ==
  LET b == ref[x] IN
  /\ loop = NoLoop
  /\ \/ Is(b, "matrix") /\ ref[y] \in Number
     \/ Is(b, "cells") /\ ref[y] \in Number
     \/ Is(b, "cells") /\ Is(ref[y], "matrix") /\ Sound(ref[y])
  /\ Careful => heap[b].m_refCount = 1 \/ IgnoreCoW(b)
  /\ heap' = [c \in Block |->
       IF ~Counted(c) THEN heap[c]
       ELSE IF c = b THEN [heap[c] EXCEPT !.m_refCount = @ + 1]
       ELSE IF c = ref[y] THEN [heap[c] EXCEPT !.m_refCount = @ + NumThreads]
       ELSE heap[c]]
  /\ ignore_cow_pointers' = ignore_cow_pointers \cup {b}
  /\ loop' = [x |-> b, reads |-> ref[y]]
  /\ UNCHANGED <<ref, stray>>

(* An iteration, in one of the threads. *)
Iterate(i) ==
  /\ loop # NoLoop /\ i \in DOMAIN heap[loop.x].elems
  /\ heap' = Store(heap, loop.x, i, loop.reads)
  /\ UNCHANGED <<ref, ignore_cow_pointers, loop, stray>>

(* The evaluators go, then ignore_cow_pointers is cleared, then `sliced`
   goes. *)
EndParfor ==
  /\ loop # NoLoop
  /\ heap' = Release([c \in Block |-> IF c = loop.reads /\ Counted(c)
                                     THEN Less(heap[c], NumThreads) ELSE heap[c]], loop.x)
  /\ ignore_cow_pointers' = {}
  /\ loop' = NoLoop
  /\ UNCHANGED <<ref, stray>>

(* An iteration failed: the evaluators stay, `sliced` goes uncounted, and the
   set keeps its block. *)
FailParfor ==
  /\ loop # NoLoop
  /\ loop' = NoLoop
  /\ stray' = stray \cup ({loop.x, loop.reads} \cap Block)
  /\ Cardinality(stray') <= MaxStray
  /\ UNCHANGED <<ref, heap, ignore_cow_pointers>>

ValuesNext ==
  \/ \E x \in Var :
       \/ Clear(x)
       \/ \E n \in Number : \/ CreateNumber(x, n)
                           \/ \E kind \in Kind : Create(x, kind, n)
       \/ \E y \in Var :
            \/ Copy(x, y) \/ CellExtraction(x, y) \/ StartParfor(x, y)
            \/ \E i \in Slot : Take(x, y, i) \/ AssignCell(x, i, ref[y])
       \/ \E n \in Number :
            \/ \E j \in Item : AssignElement(x, j, n)
            \/ \E i \in Slot : \/ AssignCell(x, i, n)
                             \/ \E j \in Item : AssignInner(x, i, j, n)
  \/ \E i \in Slot \cup Item : Iterate(i)
  \/ EndParfor \/ FailParfor

ValuesSpec == ValuesInit /\ [][ValuesNext]_valueVars

-----------------------------------------------------------------------------
(* Properties. *)

(* The state keeps its types: a variable holds a number or a block in use, an
   element of a container a number or a matrix. *)
ValueTypeOK ==
  /\ ref \in [Var -> Number \cup Block \cup {NOTHING}]
  /\ \A b \in Block :
       \/ heap[b] = FREE
       \/ /\ heap[b] \in [kind : Kind, m_refCount : Nat \ {0}, elems : UNION {[Index(k) -> Number \cup Block] : k \in Kind}]
          /\ DOMAIN heap[b].elems = Index(heap[b].kind)
          /\ \A i \in Index(heap[b].kind) :
               \/ heap[b].elems[i] \in Number
               \/ heap[b].kind # "matrix" /\ Is(heap[b].elems[i], "matrix")
  /\ ignore_cow_pointers \subseteq Block
  /\ loop = NoLoop \/ loop.x \in ignore_cow_pointers
  /\ stray \subseteq Block

(* What holds a block: variables, elements, a loop's `sliced` and its threads. *)
Holders(b) ==
  Cardinality({x \in Var : ref[x] = b})
  + Cardinality({p \in Block \X (Slot \cup Item) :
                   p[2] \in DOMAIN heap[p[1]].elems /\ heap[p[1]].elems[p[2]] = b})
  + (IF loop.x = b THEN 1 ELSE 0) + (IF loop.reads = b THEN NumThreads ELSE 0)

(* A block counts its holders: it is freed when the last one lets go of it, not
   before and not never.  A failed parfor loop leaves a count too high. *)
CountsMatch ==
  \A b \in Block :
    IF b \in stray THEN heap[b].m_refCount >= Holders(b)
    ELSE heap[b].m_refCount = Holders(b)

(* What a number or a block stands for. *)
MatrixOf(v) ==
  IF v \in Block THEN [kind |-> heap[v].kind, elems |-> heap[v].elems] ELSE v
ValueOf(v) ==
  IF v \in Block
  THEN [kind |-> heap[v].kind, elems |-> [i \in DOMAIN heap[v].elems |-> MatrixOf(heap[v].elems[i])]]
  ELSE v

(* The abstract specification, of the values that ref and heap stand for. *)
Semantics == INSTANCE ValueSemantics WITH val <- [x \in Var |-> ValueOf(ref[x])]

(* Nobody can tell that values share memory: variables behave as if each held
   a value of its own. *)
ImplementsSemantics == Semantics!SemSpec

(* A statement changes the value of one variable at most. *)
ChangesOne ==
  [][\A x, y \in Var : x # y =>
       ValueOf(ref[x])' = ValueOf(ref[x]) \/ ValueOf(ref[y])' = ValueOf(ref[y])]_valueVars
=============================================================================
