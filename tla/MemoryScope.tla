----------------------------- MODULE MemoryScope -----------------------------
(***************************************************************************)
(* What the scopes of ScopePool hold, and how a variable is found: the     *)
(* locals of a scope, the names it declared global, the globals all scopes *)
(* share, the persistents of each function, and the locals of the callers  *)
(* a nested function sees and writes back to.                              *)
(* (src/src/oml/Runtime/MemoryScope.cpp, and the clear functions of        *)
(* Evaluator.cpp.)                                                         *)
(*                                                                         *)
(* A value is the set of the elements that were written to it: the empty   *)
(* matrix is {}, and x(e) = ... adds e.  A wildcard or regular expression  *)
(* is the set of names it matches.                                         *)
(***************************************************************************)
EXTENDS ScopePool

CONSTANTS
    Var,        \* variable names
    Elem,       \* element positions of a matrix
    NOTHING,    \* TYPE_NOTHING: what a lookup that fails returns
    Enclosing,  \* nested function -> the function it is written in
    Params, Returns,  \* function -> its parameters, its return values
    Refs        \* function -> names its statements mention (IsReferenced)

Val == {V : V \in SUBSET Elem}
Empty == {}
Nested == DOMAIN Enclosing

ASSUME NothingAssumption == NOTHING \notin Val
ASSUME NestedAssumption == Nested \subseteq Function /\ Enclosing \in [Nested -> Function]
ASSUME NamesAssumption ==
    Params \in [Function -> SUBSET Var] /\ Returns \in [Function -> SUBSET Var]
    /\ Refs \in [Function -> SUBSET Var]

VARIABLES
    scope,        \* cell -> its locals
    global_names, \* cell -> the names it declared global
    globals,      \* MemoryScope::globals, static
    persistent    \* function -> the scope of its persistents

contentVars == <<scope, global_names, globals, persistent>>
memVars == <<poolVars, contentVars>>

\* (mutant) An unset variable is a null pointer, not a Currency of type nothing.
VacantNull == [v \in Var |-> NULL]

Vacant == [v \in Var |-> NOTHING]

MemInit ==
    /\ PoolInit
    /\ scope = [c \in Cell |-> Vacant]
    /\ global_names = [c \in Cell |-> {}]
    /\ globals = Vacant
    /\ persistent = [f \in Function |-> Vacant]

IsNested(c) == fi[c] \in Nested
IsPersistent(c, v) == fi[c] # NULL /\ persistent[fi[c]][v] # NOTHING

------------------------------------------------------------------------------
(* Reading *)

\* globals[name] of a std::map makes an empty entry for a name that has none.
GlobalValue(v) == IF globals[v] = NOTHING THEN Empty ELSE globals[v]

\* MemoryScope::GetValue: global, then persistent, then local.
Value(c, v) ==
    IF v \in global_names[c] THEN GlobalValue(v)
    ELSE IF IsPersistent(c, v) THEN persistent[fi[c]][v]
    ELSE scope[c][v]

\* (mutant) The lookup stops at the first caller that is nested.
VisibleToNested ==
    {i \in 1 .. Depth : i < Depth =>
        IsNested(Current) /\ \A j \in (i + 1) .. (Depth - 1) : ~IsNested(memory_stack[j])}

\* The offsets MemoryScopeManager::GetValue looks at, from the top down: the callers
\* of a nested function up to and including the first that is not nested.
Visible == {i \in 1 .. Depth : \A j \in (i + 1) .. Depth : IsNested(memory_stack[j])}

\* The same for the overload that takes a std::string, which stops at the first
\* caller that IS nested.
VisibleByName ==
    {i \in 1 .. Depth : i < Depth =>
        IsNested(Current) /\ \A j \in (i + 1) .. (Depth - 1) : ~IsNested(memory_stack[j])}

\* The scope among the offsets I that a lookup of v ends in, as a set of at most one.
FoundIn(I, v) ==
    {memory_stack[i] : i \in {k \in I : Value(memory_stack[k], v) # NOTHING
                            /\ \A j \in I : j > k => Value(memory_stack[j], v) = NOTHING}}

Lookup(I, v) ==
    IF FoundIn(I, v) = {} THEN NOTHING ELSE Value(CHOOSE c \in FoundIn(I, v) : TRUE, v)

GetValue(v) == Lookup(Visible, v)
GetValueByName(v) == Lookup(VisibleByName, v)

\* The globals after v was read through the scopes of cs.
GlobalsRead(cs, V) ==
    [v \in Var |-> IF v \in V /\ \E c \in cs : v \in global_names[c]
                     THEN GlobalValue(v) ELSE globals[v]]

Read(v) ==
    /\ globals' \in {GlobalsRead(FoundIn(I, v), {v}) : I \in {Visible, VisibleByName}}
    /\ UNCHANGED <<poolVars, scope, global_names, persistent>>

------------------------------------------------------------------------------
(* Writing *)

\* MemoryScope::SetValue on scope c of every variable of vals: where each one goes.
GlobalsWith(c, vals) ==
    [v \in Var |-> IF v \in DOMAIN vals \cap global_names[c] THEN vals[v] ELSE globals[v]]

PersistentWith(c, vals) ==
    [f \in Function |-> [v \in Var |->
        IF f = fi[c] /\ v \in DOMAIN vals \ global_names[c] /\ IsPersistent(c, v)
          THEN vals[v] ELSE persistent[f][v]]]

LocalsWith(c, vals) ==
    [v \in Var |-> IF v \in DOMAIN vals \ global_names[c] /\ ~IsPersistent(c, v)
                     THEN vals[v] ELSE scope[c][v]]

Store(c, vals) ==
    /\ globals' = GlobalsWith(c, vals)
    /\ persistent' = PersistentWith(c, vals)
    /\ scope' = [scope EXCEPT ![c] = LocalsWith(c, vals)]
    /\ UNCHANGED <<poolVars, global_names>>

SetValue(v, x) == Store(Current, [u \in {v} |-> x])

\* The outputs of [a, b] = f(...) are stored before f's scope is closed.
SetParentValue(v, x) == Depth > 1 /\ Store(memory_stack[Depth - 1], [u \in {v} |-> x])

\* GetMutablePointer looks in the running scope only, and makes an empty local of a
\* name it does not find there.
MutableValue(v) ==
    IF Value(Current, v) = NOTHING THEN Empty ELSE Value(Current, v)

\* x(e) = ...
AssignElement(v, e) == Store(Current, [u \in {v} |-> MutableValue(v) \cup {e}])

\* x(...) = ... raised an error while it evaluated the index, when GetMutablePointer
\* had made its entry already.
FailElement(v) == Store(Current, [u \in {v} |-> MutableValue(v)])

AddGlobalReference(v) ==
    /\ v \notin global_names[Current]
    /\ global_names' = [global_names EXCEPT ![Current] = @ \cup {v}]
    /\ globals' = [globals EXCEPT ![v] = GlobalValue(v)]
    /\ UNCHANGED <<poolVars, scope, persistent>>

AddPersistentReference(v) ==
    /\ fi[Current] # NULL
    /\ ~IsPersistent(Current, v)
    /\ persistent' = [persistent EXCEPT ![fi[Current]][v] = Empty]
    /\ UNCHANGED <<poolVars, scope, global_names, globals>>

------------------------------------------------------------------------------
(* Clearing *)

\* The locals of the running scope but those of P go; P is a set of names.
WithoutLocals(P) ==
    [scope EXCEPT ![Current] = [v \in Var |-> IF v \in P THEN NOTHING ELSE @[v]]]

\* clear -v, clearvars, with a pattern or -except.
RemovePattern(P) ==
    /\ scope' = WithoutLocals(P)
    /\ UNCHANGED <<poolVars, global_names, globals, persistent>>

ClearAllGlobals ==
    /\ globals' = Vacant
    /\ global_names' = [c \in Cell |-> IF c \in OnStack THEN {} ELSE global_names[c]]

\* clear global
ClearGlobals == ClearAllGlobals /\ UNCHANGED <<poolVars, scope, persistent>>

\* clear, clear all
ClearEverything ==
    ClearAllGlobals /\ scope' = WithoutLocals(Var) /\ UNCHANGED <<poolVars, persistent>>

\* clear name: a name the lookup finds, wherever it finds it, leaves the running scope.
ClearName(v) ==
    /\ GetValueByName(v) # NOTHING
    /\ scope' = WithoutLocals({v})
    /\ global_names' = [global_names EXCEPT ![Current] = @ \ {v}]
    /\ globals' = GlobalsRead(FoundIn(VisibleByName, v), {v})
    /\ UNCHANGED <<poolVars, persistent>>

\* clear -g name
ClearGlobalName(v) ==
    /\ v \in global_names[Current]
    /\ globals' = [globals EXCEPT ![v] = NOTHING]
    /\ global_names' = [c \in Cell |-> global_names[c] \ (IF c \in OnStack THEN {v} ELSE {})]
    /\ UNCHANGED <<poolVars, scope, persistent>>

\* clear -g pattern, clearvars -global with a pattern or -except: only the running
\* scope forgets the names.
ClearGlobalPattern(P) ==
    /\ globals' = [v \in Var |-> IF v \in P THEN NOTHING ELSE globals[v]]
    /\ global_names' = [global_names EXCEPT ![Current] =
                            {v \in @ : v \in P => globals[v] = NOTHING}]
    /\ UNCHANGED <<poolVars, scope, persistent>>

\* clear pattern: the globals are looked at only if no local matched.
ClearPattern(P) ==
    IF \E v \in P : scope[Current][v] # NOTHING
      THEN RemovePattern(P) ELSE ClearGlobalPattern(P)

------------------------------------------------------------------------------
(* Scopes *)

\* (mutant) Reset forgets to clear the declared names.
RememberNames(c) == global_names' = global_names

ForgetNames(c) == global_names' = [global_names EXCEPT ![c] = {}]

\* Initialize sets the function and relies on Reset for the rest.
Open(f) == OpenScope(f) /\ UNCHANGED contentVars

\* (mutants) Only variables the caller has already are handed back; every function
\* hands its variables back.
HandedBackKnown(c, p) ==
    IF IsNested(c) /\ fi[p] \notin {NULL, fi[c]}
      THEN {v \in Refs[fi[p]] \ (Params[fi[c]] \cup Returns[fi[c]]) :
                scope[c][v] # NOTHING /\ scope[p][v] # NOTHING}
      ELSE {}
HandedBackAlways(c, p) ==
    IF fi[p] \notin {NULL, fi[c]}
      THEN {v \in Refs[fi[p]] \ (Params[fi[c]] \cup Returns[fi[c]]) : scope[c][v] # NOTHING}
      ELSE {}

\* What a nested function hands to the scope below it on the stack, whatever function
\* that one runs.
HandedBack(c, p) ==
    IF IsNested(c) /\ fi[p] \notin {NULL, fi[c]}
      THEN {v \in Refs[fi[p]] \ (Params[fi[c]] \cup Returns[fi[c]]) : scope[c][v] # NOTHING}
      ELSE {}

\* CloseTo is this, repeated.
Close ==
    /\ CloseScope
    /\ LET c == Current
           p == memory_stack[Depth - 1]
           vals == [v \in HandedBack(c, p) |-> scope[c][v]]
       IN  /\ globals' = GlobalsWith(p, vals)
           /\ persistent' = PersistentWith(p, vals)
           /\ scope' = [scope EXCEPT ![p] = LocalsWith(p, vals), ![c] = Vacant]
           /\ ForgetNames(c)

------------------------------------------------------------------------------
(* Environments *)

NewEnv(c) ==
    /\ GetNewEnvHandle(c)
    /\ scope' = [scope EXCEPT ![c] = Vacant]
    /\ ForgetNames(c)
    /\ UNCHANGED <<globals, persistent>>

NameEnv == (GetBaseEnvHandle \/ GetCurrentEnvHandle) /\ UNCHANGED contentVars

\* A scope on the stack keeps its variables; one of the heap is deleted.
DropEnv(h) ==
    /\ DeleteEnv(h)
    /\ scope' = [scope EXCEPT ![envs[h]] = IF envs[h] \in allocated_envs THEN Vacant ELSE @]
    /\ UNCHANGED <<global_names, globals, persistent>>

GetEnvValue(h, v) ==
    /\ globals' = GlobalsRead({envs[h]}, {v})
    /\ UNCHANGED <<poolVars, scope, global_names, persistent>>

SetEnvValue(h, v, x) == Store(envs[h], [u \in {v} |-> x])

RemoveEnvValue(h, v) ==
    /\ scope' = [scope EXCEPT ![envs[h]][v] = NOTHING]
    /\ UNCHANGED <<poolVars, global_names, globals, persistent>>

\* Every local of the source is set in the destination, to what the source says its
\* value is: that of the global or persistent that hides it, if one does.
ImportEnv(source, dest) ==
    LET from == envs[source]
        to == envs[dest]
        names == {v \in Var : scope[from][v] # NOTHING}
        vals == [v \in names |-> Value(from, v)]
    IN  /\ globals' = [v \in Var |-> IF v \in names \cap global_names[to] THEN vals[v]
                                     ELSE GlobalsRead({from}, names)[v]]
        /\ persistent' = PersistentWith(to, vals)
        /\ scope' = [scope EXCEPT ![to] = LocalsWith(to, vals)]
        /\ UNCHANGED <<poolVars, global_names>>

------------------------------------------------------------------------------
MemNext ==
    \/ \E f \in Function : Open(f)
    \/ Close
    \/ NameEnv
    \/ \E c \in HeapCell : NewEnv(c)
    \/ \E h \in DOMAIN envs : DropEnv(h)
    \/ \E s, d \in DOMAIN envs : ImportEnv(s, d)
    \/ \E v \in Var :
          \/ Read(v)
          \/ AddGlobalReference(v)
          \/ AddPersistentReference(v)
          \/ FailElement(v)
          \/ ClearName(v)
          \/ ClearGlobalName(v)
          \/ \E x \in Val : SetValue(v, x) \/ SetParentValue(v, x)
          \/ \E e \in Elem : AssignElement(v, e)
          \/ \E h \in DOMAIN envs :
                \/ GetEnvValue(h, v)
                \/ RemoveEnvValue(h, v)
                \/ \E x \in Val : SetEnvValue(h, v, x)
    \/ \E P \in SUBSET Var : RemovePattern(P) \/ ClearGlobalPattern(P) \/ ClearPattern(P)
    \/ ClearGlobals
    \/ ClearEverything

MemSpec == MemInit /\ [][MemNext]_memVars

------------------------------------------------------------------------------
(* Properties *)

MemTypeOK ==
    /\ PoolTypeOK
    /\ scope \in [Cell -> [Var -> Val \cup {NOTHING}]]
    /\ global_names \in [Cell -> SUBSET Var]
    /\ globals \in [Var -> Val \cup {NOTHING}]
    /\ persistent \in [Function -> [Var -> Val \cup {NOTHING}]]

\* A MemoryScope that is neither on the stack nor owned by a handle is clean:
\* OpenScope does not clear the scope it takes out of unused_scopes, so a call starts
\* with an empty workspace only because every way of giving a scope up empties it.
UnusedScopesClean ==
    \A c \in Cell \ (OnStack \cup allocated_envs) :
        scope[c] = Vacant /\ global_names[c] = {} /\ fi[c] = NULL

\* A nested function starts out seeing exactly what its caller saw: opening its scope
\* changes no lookup, but for its own persistents ("They can use variables defined in
\* the function that they are within").
NestedInherits ==
    [][\A f \in Nested : Open(f) /\ Depth' > Depth =>
          \A v \in Var : persistent[f][v] = NOTHING => GetValue(v)' = GetValue(v)]_memVars

\* What a nested function shares with the function that called it does not change
\* when it returns: a name the caller mentions, that is no parameter or output of the
\* nested function and that it did not declare, reads the same in the caller
\* afterwards as in the nested function before.  A lookup (up the stack) and
\* CloseScope's copy (down one) have to agree for that.
NestedShares ==
    [][Depth' < Depth /\ IsNested(Current) =>
          LET c == Current
              p == memory_stack[Depth - 1]
          IN  fi[p] \notin {NULL, fi[c]} =>
                \A v \in Refs[fi[p]] \ (Params[fi[c]] \cup Returns[fi[c]]) :
                    v \notin global_names[c] /\ ~IsPersistent(c, v)
                        => GetValue(v)' = GetValue(v)]_memVars

\* The recycled scopes implement frames that know nothing of recycling: a cell on the
\* stack is the frame at its offset, an allocated cell a frame outside the stack.
FrameOf(c) == [fn |-> fi[c], locals |-> scope[c], declared |-> global_names[c]]

Frames == INSTANCE CallFrames WITH
    frames <- [i \in 1 .. Depth |-> FrameOf(memory_stack[i])],
    detached <- [c \in allocated_envs |-> FrameOf(c)]

ImplementsFrames == Frames!Spec

==============================================================================
