------------------------------ MODULE MCParfor ------------------------------
(* Instances of Parfor for TLC. *)
EXTENDS Parfor

\* Reductions that begin with the operator's identity, as the examples of the help do.
Reductions == {[op |-> "PLUS", value |-> 0], [op |-> "TIMES", value |-> 1]}
=============================================================================
