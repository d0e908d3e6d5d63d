----------------------------- MODULE MCConsole -----------------------------
(* Instances of Console for TLC: arguments on the command line, then commands *)
(* with a few results of a few pages, and up to three Ctrl-C.                 *)
EXTENDS Console
============================================================================
