-------------------------- MODULE MCFunctionLookup --------------------------
(* An instance of FunctionLookup: a function f that may have any kind of file,
   a script s. *)
EXTENDS FunctionLookup, TLC

MCNames == {"f", "s"}
MCScripts == {"s"}
CONSTANTS d1, d2
MCDirs == {d1, d2}
MCFiles == {<<"oml", "f">>, <<"m", "f">>, <<"omlp", "f">>, <<"enc", "f">>, <<"oml", "s">>}
\* A file of each kind in one directory; in the other a source file, which an edit may
\* take away, or nothing, to which an edit may add any.
MCDisks ==
  {[d \in MCDirs |-> CASE d = d1 -> {<<kind, "f">>, <<"oml", "s">>}
                       [] d = d2 -> IF kind = "enc" THEN {} ELSE {<<"oml", "f">>}] :
     kind \in Kinds}
MCPath == <<>>
=============================================================================
