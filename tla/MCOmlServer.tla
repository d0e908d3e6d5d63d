---------------------------- MODULE MCOmlServer ----------------------------
(* Instances of OmlServer for TLC. *)
EXTENDS OmlServer
=============================================================================
