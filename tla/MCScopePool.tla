---------------------------- MODULE MCScopePool ----------------------------
(* Instance of ScopePool for TLC: two functions, the base scope and at most  *)
(* three calls over a pool of five cells, two heap scopes, four handles.     *)
EXTENDS ScopePool
============================================================================
