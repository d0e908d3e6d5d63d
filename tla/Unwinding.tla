------------------------------ MODULE Unwinding ------------------------------
(***************************************************************************)
(* How the interpreter gets back to a handler after an error: the marks    *)
(* (Mark, Unmark, Restore of Evaluator.cpp), the stack of argument counts  *)
(* behind nargin and nargout, and user_func_calls, over the scope stack of *)
(* ScopePool.                                                              *)
(*                                                                         *)
(* calls is the C++ call stack: one frame per entry of the interpreter,    *)
(* function call, try block or callback of a builtin.  An error is a C++   *)
(* exception: it drops the frames above the handler and undoes nothing     *)
(* else, so everything those frames pushed is for Restore to take back.    *)
(* A frame records what the interpreter's own stacks held when it began;   *)
(* the properties compare that with what they hold later.                  *)
(***************************************************************************)
EXTENDS ScopePool, SequencesExt

CONSTANTS
    Argc,       \* numbers of arguments a call may have
    Callbacks,  \* the ways programs run code that may fail, see Kind
    MaxCalls,   \* bound on the depth of calls
    MaxEntries  \* bound on marks, nargin_values and user_func_calls

\* run: DoString, DoFile.  host: InterpreterImpl::CallFunction.  guarded: a callback
\* that restores after an error (cellfun with an ErrorHandler, the solvers of
\* omlOptimization).  unguarded: cellfun without one.  catch: what follows a restore.
Kind == {"run", "host", "user", "builtin", "try", "guarded", "unguarded", "catch"}
Handler == {"run", "host", "try", "guarded"}

ASSUME ArgcAssumption == Argc \subseteq Nat
ASSUME CallbackAssumption == Callbacks \subseteq {"try", "guarded", "unguarded"}
ASSUME BoundAssumption == MaxCalls \in Nat /\ MaxEntries \in Nat

VARIABLES
    calls,
    marks,           \* the scopes that were current at each Mark
    mark_narg_size,  \* one number: the size of nargin_values at the latest Mark
    nargin_values,   \* nargout_values moves with it
    user_func_calls

unwindVars == <<calls, marks, mark_narg_size, nargin_values, user_func_calls>>
allVars == <<poolVars, unwindVars>>

UnwindInit ==
    /\ PoolInit
    /\ calls = <<>>
    /\ marks = <<>>
    /\ mark_narg_size = 0
    /\ nargin_values = <<>>
    /\ user_func_calls = <<>>

Idle == calls = <<>>
Top == Last(calls)

\* Code runs; with every scope closed, the base one too, the next access is a crash.
Running == ~Idle /\ Depth > 0

Popped(s) == IF s = <<>> THEN s ELSE Front(s)

------------------------------------------------------------------------------
(* Entering *)

\* A frame of its own on the C++ stack, begun with the interpreter's stacks as they
\* are at the end of the step.
PushCall(kind, f, n) ==
    /\ Len(calls) < MaxCalls
    /\ calls' = Append(calls, [kind |-> kind, fn |-> f, argc |-> n,
                               cell |-> memory_stack'[Len(memory_stack')],
                               depth |-> Len(memory_stack'),
                               entries |-> Len(nargin_values'),
                               names |-> Len(user_func_calls'),
                               mark |-> Len(marks')])

\* (mutant) Only the first mark records the size.
MarkOnce ==
    /\ Len(marks) < MaxEntries
    /\ marks' = Append(marks, Current)
    /\ mark_narg_size' = IF marks = <<>> THEN Len(nargin_values) ELSE mark_narg_size

Mark ==
    /\ Len(marks) < MaxEntries
    /\ marks' = Append(marks, Current)
    /\ mark_narg_size' = Len(nargin_values)

Enter(kind) ==
    /\ Mark
    /\ UNCHANGED <<poolVars, nargin_values, user_func_calls>>
    /\ PushCall(kind, NULL, 0)

\* The console, the server or the host program hands the interpreter something to do.
Run == Idle /\ Depth > 0 /\ Enter("run")
HostCall == Idle /\ Depth > 0 /\ Len(marks) + 1 < MaxEntries /\ Enter("host")

\* A try block begins, or a builtin calls back.
Attempt(kind) == Running /\ (kind = "try" <=> Top.kind # "builtin") /\ Enter(kind)

CallUser(f, n) ==
    /\ Running
    /\ OpenScope(f) /\ Depth' > Depth
    /\ Len(user_func_calls) < MaxEntries /\ Len(nargin_values) < MaxEntries
    /\ nargin_values' = Append(nargin_values, n)
    /\ user_func_calls' = Append(user_func_calls, f)
    /\ UNCHANGED <<marks, mark_narg_size>>
    /\ PushCall("user", f, n)

CallBuiltin(n) ==
    /\ Running
    /\ Len(nargin_values) < MaxEntries
    /\ nargin_values' = Append(nargin_values, n)
    /\ UNCHANGED <<poolVars, marks, mark_narg_size, user_func_calls>>
    /\ PushCall("builtin", NULL, n)

------------------------------------------------------------------------------
(* Leaving *)

PopCall == calls' = Front(calls)

ReturnUser ==
    /\ Running /\ Top.kind = "user"
    /\ user_func_calls' = Popped(user_func_calls)
    /\ nargin_values' = Popped(nargin_values)
    /\ CloseDownTo(Depth - 1)
    /\ PopCall
    /\ UNCHANGED <<marks, mark_narg_size>>

ReturnBuiltin ==
    /\ Running /\ Top.kind = "builtin"
    /\ nargin_values' = Popped(nargin_values)
    /\ PopCall
    /\ UNCHANGED <<poolVars, marks, mark_narg_size, user_func_calls>>

\* (mutant) The mark of a try block that raised no error stays.
CompleteMarked ==
    /\ Running /\ Top.kind \in {"run", "try", "guarded", "unguarded"}
    /\ marks' = IF Top.kind = "try" THEN marks ELSE Popped(marks)
    /\ PopCall
    /\ UNCHANGED <<poolVars, mark_narg_size, nargin_values, user_func_calls>>

\* What was marked ended without an error: Unmark.
Complete ==
    /\ Running /\ Top.kind \in {"run", "try", "guarded", "unguarded"}
    /\ marks' = Popped(marks)
    /\ PopCall
    /\ UNCHANGED <<poolVars, mark_narg_size, nargin_values, user_func_calls>>

\* CallFunction returns without Unmark; a catch block has no mark.
CompleteUnmarked ==
    /\ Running /\ Top.kind \in {"host", "catch"}
    /\ PopCall
    /\ UNCHANGED <<poolVars, marks, mark_narg_size, nargin_values, user_func_calls>>

------------------------------------------------------------------------------
(* Errors *)

\* The number of scopes CloseTo(c) leaves: all of them go if c is not on the stack.
KeptBy(c) ==
    CHOOSE n \in 0 .. Depth :
        /\ n > 0 => memory_stack[n] = c
        /\ \A i \in (n + 1) .. Depth : memory_stack[i] # c

\* (mutants) Restore closes the marked scope too; it keeps the mark.
RestoreBelow ==
    /\ IF marks = <<>> THEN UNCHANGED <<poolVars, marks>>
       ELSE /\ CloseDownTo(KeptBy(Last(marks)) - 1)
            /\ marks' = Front(marks)
    /\ nargin_values' = SubSeq(nargin_values, 1, Min({Len(nargin_values), mark_narg_size}))
RestoreMarked ==
    /\ IF marks = <<>> THEN UNCHANGED poolVars
       ELSE CloseDownTo(KeptBy(Last(marks)))
    /\ UNCHANGED marks
    /\ nargin_values' = SubSeq(nargin_values, 1, Min({Len(nargin_values), mark_narg_size}))

Restore ==
    /\ IF marks = <<>> THEN UNCHANGED <<poolVars, marks>>
       ELSE /\ CloseDownTo(KeptBy(Last(marks)))
            /\ marks' = Front(marks)
    /\ nargin_values' = SubSeq(nargin_values, 1, Min({Len(nargin_values), mark_narg_size}))

\* The innermost frame that catches.
Catches(h) ==
    /\ calls[h].kind \in Handler
    /\ \A i \in (h + 1) .. Len(calls) : calls[i].kind \notin Handler

\* Any running code may fail, OpenScope at the depth limit among it; so does a catch
\* block, for the next handler out.
Throw ==
    /\ Running
    /\ Restore
    /\ \E h \in 1 .. Len(calls) :
          /\ Catches(h)
          /\ calls' = IF calls[h].kind \in {"run", "host"} THEN SubSeq(calls, 1, h - 1)
                      ELSE Append(SubSeq(calls, 1, h - 1),
                                  [calls[h] EXCEPT !.kind = "catch", !.mark = @ - 1])
    /\ UNCHANGED <<mark_narg_size, user_func_calls>>

------------------------------------------------------------------------------
UnwindNext ==
    \/ Run
    \/ HostCall
    \/ \E kind \in Callbacks : Attempt(kind)
    \/ \E n \in Argc : CallBuiltin(n) \/ \E f \in Function : CallUser(f, n)
    \/ ReturnUser
    \/ ReturnBuiltin
    \/ Complete
    \/ CompleteUnmarked
    \/ Throw

UnwindSpec == UnwindInit /\ [][UnwindNext]_allVars

------------------------------------------------------------------------------
(* Properties *)

Frame == [kind : Kind, fn : Function \cup {NULL}, argc : Nat, cell : PoolCell,
          depth : Nat, entries : Nat, names : Nat, mark : Nat]

UnwindTypeOK ==
    /\ PoolTypeOK
    /\ calls \in Seq(Frame)
    /\ marks \in Seq(PoolCell)
    /\ mark_narg_size \in Nat
    /\ nargin_values \in Seq(Argc)
    /\ user_func_calls \in Seq(Function)

\* Whatever was called, returned, failed and was caught before, the statement that
\* runs next runs in the scope its function opened, and every function further down
\* still has its own scope at its own place of the stack.
RunsInOwnScope ==
    /\ ~Idle => Depth = Top.depth
    /\ \A i \in 1 .. Len(calls) :
          calls[i].depth \in 1 .. Depth /\ memory_stack[calls[i].depth] = calls[i].cell

\* Between two commands the base workspace is the only scope.
IdleAtBase == Idle => Depth = 1 /\ Base = 0

\* A handler's mark is the latest one when its error arrives, and names the scope the
\* handler runs in: marks are matched by counting pushes and pops that sit in
\* different functions and on different paths.
MarksMatchHandlers ==
    /\ ~Idle => Len(marks) = Top.mark
    /\ \A i \in 1 .. Len(calls) : calls[i].kind \in Handler =>
          calls[i].mark \in 1 .. Len(marks) /\ marks[calls[i].mark] = calls[i].cell

\* Nothing that is still running loses its argument count or its name: Restore never
\* pops below the frame it returns to, although mark_narg_size is one number for all
\* the marks.
EntriesKept ==
    \A i \in 1 .. Len(calls) :
        /\ calls[i].entries <= Len(nargin_values) /\ calls[i].names <= Len(user_func_calls)
        /\ calls[i].kind \in {"user", "builtin"} =>
              nargin_values[calls[i].entries] = calls[i].argc
        /\ calls[i].kind = "user" => user_func_calls[calls[i].names] = calls[i].fn
=============================================================================
