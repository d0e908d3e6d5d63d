--------------------------- MODULE MCMemoryScope ---------------------------
(* Instance of MemoryScope for TLC: a function and one nested in it.         *)
EXTENDS MemoryScope

CONSTANTS outer, inner, x

EnclosingOne == [f \in {inner} |-> outer]

NoNames == [f \in Function |-> {}]
AllNames == [f \in Function |-> Var]
=============================================================================
