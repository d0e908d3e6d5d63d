------------------------------ MODULE MCValues ------------------------------
(* An instance of Values: two variables, two numbers, containers of two elements. *)
EXTENDS Values, TLC

CONSTANTS v1, v2, n0, n1
MCVar == {v1, v2}
MCNumber == {n0, n1}
MCSlot == {1, 2}
MCItem == {1}
Swaps == Permutations(MCVar) \cup Permutations(MCNumber)
=============================================================================
