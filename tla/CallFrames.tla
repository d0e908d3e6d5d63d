----------------------------- MODULE CallFrames -----------------------------
(***************************************************************************)
(* What the memory of an interpreter promises to the functions it runs: a  *)
(* call has a frame of its own, empty when the call starts and gone when   *)
(* it returns; a frame's variables change only while that frame runs, when *)
(* an environment handle reaches it, or when the nested function it called *)
(* returns; a global changes only through a frame that declares it, or is  *)
(* cleared; a persistent belongs to its function and is never lost.        *)
(*                                                                         *)
(* There are no addresses here, no pool and no reuse: module MemoryScope   *)
(* implements this specification with recycled MemoryScope objects.        *)
(***************************************************************************)
EXTENDS Integers, Sequences

CONSTANTS Function, NULL, Nested, Var, NOTHING

VARIABLES
    frames,     \* sequence of [fn, locals, declared], the base workspace first
    detached,   \* frames of their own, outside the stack: id -> frame
    globals,
    persistent
vars == <<frames, detached, globals, persistent>>

Vacant == [v \in Var |-> NOTHING]
Fresh(f) == [fn |-> f, locals |-> Vacant, declared |-> {}]

Init ==
    /\ frames = <<Fresh(NULL)>>
    /\ detached = [d \in {} |-> Fresh(NULL)]
    /\ globals = Vacant
    /\ persistent = [f \in Function |-> Vacant]

\* A declared global that somebody cleared comes back, empty, when it is read.
MayComeBack(v) ==
    globals[v] = NOTHING /\ \E i \in 1 .. Len(frames) : v \in frames[i].declared

\* The globals and persistents that code running in frame fr, which declares the
\* names of `declared` by the end of the step, may have changed.
OnlyThrough(fr, declared) ==
    /\ \A v \in Var : globals'[v] # globals[v] => v \in declared \/ MayComeBack(v)
    /\ \A f \in Function, v \in Var : persistent'[f][v] # persistent[f][v] =>
          f = fr.fn /\ persistent'[f][v] # NOTHING

Call(f) ==
    /\ frames' = Append(frames, Fresh(f))
    /\ UNCHANGED <<detached, globals, persistent>>

\* The top frame goes.  Only a nested function leaves something behind, and only in
\* the frame below: locals, or what that frame's declarations give access to.
Return ==
    LET n == Len(frames) - 1
        top == frames[n + 1]
    IN  /\ n > 0
        /\ Len(frames') = n
        /\ \A i \in 1 .. (n - 1) : frames'[i] = frames[i]
        /\ frames'[n].fn = frames[n].fn
        /\ frames'[n].declared = frames[n].declared
        /\ \A v \in Var : frames'[n].locals[v] # frames[n].locals[v] =>
              top.fn \in Nested /\ frames'[n].locals[v] = top.locals[v]
        /\ OnlyThrough(frames[n], frames[n].declared)
        /\ top.fn \notin Nested => UNCHANGED <<globals, persistent>>
        /\ UNCHANGED detached

\* Frame i runs a statement, or a handle reaches it.
Use(i) ==
    /\ Len(frames') = Len(frames)
    /\ \A j \in 1 .. Len(frames) : j # i => frames'[j] = frames[j]
    /\ frames'[i].fn = frames[i].fn
    /\ OnlyThrough(frames[i], frames[i].declared \cup frames'[i].declared)
    /\ UNCHANGED detached

\* A variable is read.
Read ==
    /\ \A v \in Var : globals'[v] # globals[v] => MayComeBack(v)
    /\ UNCHANGED <<frames, detached, persistent>>

\* Globals are cleared: nobody's locals change, nothing new is declared.
ClearGlobals ==
    /\ \A v \in Var : globals'[v] # globals[v] => globals'[v] = NOTHING
    /\ Len(frames') = Len(frames)
    /\ \A i \in 1 .. Len(frames) :
          /\ frames'[i].fn = frames[i].fn
          /\ frames'[i].declared \subseteq frames[i].declared
          /\ i < Len(frames) => frames'[i].locals = frames[i].locals
    /\ UNCHANGED <<detached, persistent>>

\* A frame outside the stack is made, written, read from, or dropped.
Detach ==
    /\ \E d \in DOMAIN detached' \ DOMAIN detached :
          /\ DOMAIN detached' = DOMAIN detached \cup {d}
          /\ detached'[d] = Fresh(NULL)
          /\ \A e \in DOMAIN detached : detached'[e] = detached[e]
    /\ UNCHANGED <<frames, globals, persistent>>

UseDetached ==
    /\ \E d \in DOMAIN detached :
          /\ DOMAIN detached' \in {DOMAIN detached, DOMAIN detached \ {d}}
          /\ \A e \in DOMAIN detached \ {d} : detached'[e] = detached[e]
          /\ \A e \in DOMAIN detached' : detached'[e].declared = {} /\ detached'[e].fn = NULL
    /\ \A v \in Var : globals'[v] # globals[v] => MayComeBack(v)
    /\ UNCHANGED <<frames, persistent>>

Next ==
    \/ \E i \in 1 .. Len(frames) : Use(i)
    \/ \E f \in Function : Call(f)
    \/ Return
    \/ Read
    \/ ClearGlobals
    \/ Detach
    \/ UseDetached

Spec == Init /\ [][Next]_vars
=============================================================================
