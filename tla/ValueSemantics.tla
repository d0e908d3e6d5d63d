--------------------------- MODULE ValueSemantics ---------------------------
(***************************************************************************)
(* What the language promises of its variables: each holds a value of its  *)
(* own: a number, a matrix of numbers, or a cell array or array of structs *)
(* whose elements are numbers and matrices.  A statement changes one       *)
(* variable, and what it assigns is what the right side was worth before.  *)
(* Module Values implements it with shared blocks and reference counts.    *)
(***************************************************************************)
CONSTANTS Var, Number, NOTHING, Slot, Item

VARIABLE val  \* the value of each variable, NOTHING if it has none

Kind == {"matrix", "cells", "struct"}
Index(kind) == IF kind = "matrix" THEN Item ELSE Slot

SemInit == val = [x \in Var |-> NOTHING]

IsMatrix(v)    == v \notin Number \cup {NOTHING} /\ v.kind = "matrix"
IsContainer(v) == v \notin Number \cup {NOTHING} /\ v.kind # "matrix"
Fill(kind, n)  == [kind |-> kind, elems |-> [i \in Index(kind) |-> n]]

(* x = y{i} *)
Take(v, y) == IsContainer(val[y]) /\ \E i \in Slot : v = val[y].elems[i]

(* x{i} = w *)
Put(v, x, w) == IsContainer(val[x]) /\ ~IsContainer(w) /\ w # NOTHING
                /\ \E i \in Slot : v = [val[x] EXCEPT !.elems[i] = w]

(* x(j) = n; x{i}(j) = n *)
PutNumber(v, x, n) ==
  IsMatrix(val[x]) /\ \E j \in Item : v = [val[x] EXCEPT !.elems[j] = n]
PutInner(v, x, n) ==
  /\ IsContainer(val[x])
  /\ \E i \in Slot, j \in Item : /\ IsMatrix(val[x].elems[i])
                                 /\ v = [val[x] EXCEPT !.elems[i].elems[j] = n]

(* [x.f] = y{:} *)
PutAll(v, x, y) == /\ IsContainer(val[x]) /\ IsContainer(val[y])
                   /\ v = [val[x] EXCEPT !.elems = val[y].elems]

(* v is what a statement that assigns x may leave in it. *)
Assigned(x, v) ==
  \/ v = NOTHING
  \/ \E n \in Number : \/ v = n \/ \E kind \in Kind : v = Fill(kind, n)
                       \/ Put(v, x, n) \/ PutNumber(v, x, n) \/ PutInner(v, x, n)
  \/ \E y \in Var : v = val[y] \/ Take(v, y) \/ Put(v, x, val[y]) \/ PutAll(v, x, y)

SemNext ==
  \E x \in Var : /\ val' = [val EXCEPT ![x] = val'[x]]
                 /\ Assigned(x, val'[x])

SemSpec == SemInit /\ [][SemNext]_val
=============================================================================
