---------------------------- MODULE MCUnwinding ----------------------------
(* Instances of Unwinding for TLC. *)
EXTENDS Unwinding

CONSTANTS f
=============================================================================
