# OpenMatrix, specified

TLA+ specifications of the control of the OpenMatrix interpreter: its scopes,
how it unwinds from errors, how it shares values, how it finds functions, its
parfor loops, its console and the server the editor talks to, with proofs of
most of what the runs check. Paths below are relative to the repository's root;
`Runtime/` is `src/oml/Runtime/`, `Console/` is `src/oml/Console/`, `lib/` is
`Atom_OpenMatrix_Package/oml-package/lib/`.

## 1. The system

OpenMatrix is an interpreter for a Matlab-like language. A parser builds a
tree, `ExprTreeEvaluator` walks it, variables live in scopes, values are
reference-counted `Currency` objects. A console, a socket server and host
programs drive it through `Interpreter`. Most of the half million lines are
numeric libraries, toolboxes and tests; what keeps state with rules of its own
is listed here.

| component | state | operations | who else touches it | what makes it correct |
|---|---|---|---|---|
| Scopes (`Runtime/MemoryScope`) | a stack of scopes, the pool they come from, environment handles, locals, globals | open, close, close to a mark, lookup, assignment, global, persistent, clear, handles | every statement; errors close scopes from far away | a call's workspace is its own, starts empty, and is gone when it returns; a handle never names somebody else's scope |
| Function descriptors (`Runtime/FunctionInfo`) | parameters, references, persistents | queries, set persistent | scopes | a persistent is never lost |
| Evaluator, calls and errors (`Runtime/Evaluator`) | `marks`, `nargin_values`, `user_func_calls`, flags | call, return, Mark, Unmark, Restore, try | builtins that call back, hosts, the interrupt flag | after an error, code runs in the scope of its own function |
| Evaluator, parfor | chunks, thread evaluators, an error string | spawn, join, reduce | its threads; values they share | every iteration once, no thread left, `for`'s results |
| Values (`Runtime/Currency`, the assignments of `Runtime/Evaluator`) | matrices, cell arrays, structs and their reference counts, `ignore_cow_pointers` | copy, write, delete | everything, parfor's threads without a lock | a write is seen through one variable only; the last holder frees, nobody earlier |
| Interpreter facade (`Runtime/Interpreter`) | none | DoString, DoFile, CallFunction, TriggerInterrupt | console, server, hosts | between commands the base scope is current |
| Socket server (`Console/OmlServer`, `ServerWrapper`) | a socket, worker threads | recv loop, one thread per command, status messages, input() | the client; one evaluator for all workers | the client learns when a command is over; an interrupt hits what it was aimed at |
| Atom package (`lib/`) | what it believes of the interpreter | run, enter, interrupt, data events | the server | it gets the interpreter back |
| Console (`Console/BetterCalc`, `ConsoleWrapper`, `SignalHandler`) | count of Ctrl-C, display stack, results that wait | read, run, print, page, input() | the signal handler, between any two steps | results in order and complete; the prompt comes back; Ctrl-C stops a program |
| User files | slots of open files | fopen, fclose | programs | a number names one file |
| Path and function lookup (`Runtime/Evaluator`) | path, directories as last read, cached negatives, loaded functions and locks | call, find, addpath, rmpath, path, cd, clear, rehash, mlock | every call; other programs that edit files | a cache never hides a function that exists; a lock holds |
| Classes, parser glue, display, builtins, toolboxes, plot, Python bridge, numeric libraries | little or none of their own | | | left aside, see section 7 |

The hard behaviours: errors are C++ exceptions which undo nothing by
themselves; scopes are recycled without being cleared when they are taken
again; nested functions share variables by copying; parfor threads share
matrices, reference counts and an error string without a lock; the server
starts a thread per command on one evaluator and its protocol has no message
boundaries; a negative is remembered until some command happens to forget it;
Ctrl-C arrives between any two steps of a console that is printing pages.
`PROJECT.json` lists the hazards, each at its line.

## 2. The modules

Every definition that stands for code is in `map` of `PROJECT.json` with its
lines. Definitions marked `(mutant)` are wrong on purpose: each is a bug one
could make in the definition after it, and the run of the property it is
listed for finds it.

**ScopePool** is the control of `MemoryScopeManager`: `memory_stack`,
`unused_scopes`, `pool_in_use`, the handle maps `_envs`, `_rev_envs`,
`_allocated_envs`, and `first_scope_with_nested`. A scope is its address, a
cell, because recycling makes addresses outlive calls. Actions: `OpenScope`,
`CloseScope`, `CloseTo` (Restore's), `RegisterNestedFunction`,
`GetBaseEnvHandle`, `GetCurrentEnvHandle`, `GetNewEnvHandle`, `DeleteEnv`.

**MemoryScope** EXTENDS it with what scopes hold: locals, declared globals,
persistents; lookups by both overloads of `GetValue`, assignments of values
and of elements, declarations, the clear commands, the environment functions,
and `CloseScope`'s copy of a nested function's locals into the scope below. A
value is the set of its written elements, a pattern the set of names it
matches.

**CallFrames** is the abstract specification: frames that are private to their
call, with no addresses and no reuse. MemoryScope implements it
(`ImplementsFrames`): a cell on the stack is the frame at its offset.

**Unwinding** EXTENDS ScopePool with `marks`, `mark_narg_size`,
`nargin_values`, `user_func_calls` and the C++ call stack (`calls`). A frame of
`calls` records what the interpreter's stacks held when it began, which is what
the properties compare. `Throw` is an exception: it goes to the innermost frame
that `Catches`, drops the frames above, and `Restore` does the rest, or does
not.

**OmlServer** composes the editor's client, the server thread, its worker
threads and the interrupt flag over two channels. `Recv(n)` takes n messages in
one recv, which the server reads as one command with an argument that nobody
wrote (`Argument`): no file has its name, but where a newline or a comment ends
the first text, `DoString` may parse it, and it runs, loops or asks like any; `Receive(n)` takes n replies in
one data event. Workers go through `Begin`, `Finish`, `Stop`, `AskUser`,
`GetLine`, `End`, `SendReady`, the places where `RunScript`, `DoString` and
`DoFile` touch what is shared.

**Parfor** is `ParforLoop` and `threadCallback`: `Spawn`, `Join`, `Raise`,
`Reduce` on the interpreter's thread; `RunBody`, `FailBody`, `WriteError`,
`EndThread`, and a load and a store for each change of a reference count, on the
others. Two threads that write the error string at once leave one message or a
mixture (`-1`), since they race.

**FunctionLookup** is the search of `ExprTreeEvaluator`: `FindFunction`,
`FindPrecompiledFunction`, `FindEncryptedFunction`, `CheckForFunctionInAST` and
`FindFunctionByName` over the search path, `cached_path_contents` and
`not_found_functions`. A call splits by what it finds: `CallLoaded`,
`CallLater`, `CallPrecompiled`, `CallScript`, `CallFile`, `CallEncrypted`,
`CallUnfound`; `LookUp...` are the same for handles and calls with several
results, whose order is another. Around them stand the commands that change what
a search sees (addpath, rmpath, path, restorepath, cd, rehash), what is loaded
(definitions, clear, mlock, munlock, running a file) and `EditFile`, another
program at work on the files. `misjudged` is a history variable: names filed as
not found although a file has them, by the ways section 4 lists. Unless a name
is in it, `DiskPlace` - a search of the disk without any memory - is what
lookups are compared with.

**Values** is copy on write: variables hold numbers or addresses of blocks
(matrices, cell arrays, struct arrays), and a block counts the `Currency`
objects that hold it. Creation, copies, taking elements out, the assignments to
elements of matrices, of containers and of matrices in containers, and
`[s.f] = c{:}` are actions; so are a parfor loop's start (its sliced value goes
into `ignore_cow_pointers`), its iterations, its end, and its failure, after
which the set keeps the value. **ValueSemantics** is the abstract
specification: each variable has a value of its own and nothing is shared.
Values implements it (`ImplementsSemantics`) when programs are `Careful`: they
slice only what one variable holds and do not copy what a failed loop sliced.

**Console** is one thread (`pc`) and a signal handler. The prompt (`Proceed`
to `ReadLine`), a command and its statements (`Start`, `NextStatement`,
`PrintResult`, `CallInput`, ...), and the pager (`Paginate`, `Forward`,
`ShowPending`, ...) are cut where the code looks at the interrupt flag or at
`g_numUserInterrupts`; `ControlC` fits between any two. A page is a number of
windows still to show. A result is its number in the command, and a string with
a line break (`strings`) or something else: (q)uit and the keys without a meaning
first erase what is chained to the display, one result per step (`PressQuit`,
`DeleteChained`, `Quit`), and any two such strings are. `cleared` and `quit` are
history variables, by which the properties tell a result that was cleared or
lost to a quit from one that vanished. A Ctrl-C between the pager's look at the flag and a
waiting result makes `PrintResult` clear the vector that is being iterated:
undefined, so the step ends in `"crashed"`, of which no property speaks.

**ScopePoolProofs**, **MemoryScopeProofs**, **UnwindingProofs**,
**ParforProofs**, **FunctionLookupProofs**, **ValuesProofs**,
**OmlServerProofs** and **ConsoleProofs** hold the theorems of the module they are named for.
**MC...** modules define the constants of the runs.

## 3. The runs

| run | instance | shows |
|---|---|---|
| `scope_pool` | 5 pool cells, depth 4, 2 functions, 2 heap cells, 4 handles | every cell is in one place; the depth limit comes before the end of the pool; handles never dangle, keep their meaning, and the two maps agree; the search for nested functions covers every scope that registered one |
| `memory_scope` | a function and one nested in it, pool 4, depth 3, 1 variable, one heap cell, one handle | recycled scopes are clean; a nested function sees what its caller saw, and the caller what it left; the whole, with handles that reach into scopes while calls come and go, implements CallFrames |
| `unwinding` | 1 function, depth 3, 5 frames, 3 marks, argument counts 1 and 2; try, guarded callbacks, host calls | code runs in its own function's scope, between commands the base scope is the only one, marks match handlers, no running call loses its counts |
| `server` | programs that loop and that ask, 3 messages, 2 per recv, 1 line of input | the client never waits for nothing, no interrupt stops a later command, `busy` ends |
| `parfor` | ranges empty, backward, and of 1, 3 and 4 values; 1 to 3 threads; sums and products; with and without a broadcast matrix | each iteration once, none left out, no thread left, the result of `for`, the loop ends, under fairness and, step by step, under any schedule |
| `function_lookup` | a function that may have a file of each kind, a script, 2 directories, at first one kind in one directory and a source or nothing in the other, calls one deep, 1 edit of a file | what is remembered never shows: a negative is true, a lookup finds what a search of the disk finds; a lock holds |
| `values` | 2 variables, 2 numbers, containers of 2, matrices of 1, 4 blocks, 2 threads, 1 block left behind by a failed loop; careful programs | counts equal holders; values that share memory behave as if they did not |
| `console` | 2 arguments on the command line, 3 Ctrl-C, 3 results of up to 2 more pages | results in order; none lost but by a clearing, or a string behind a string that was quit; none waits at a prompt; the prompt comes back; a set flag ends the command |
| `cellfun` (violation) | as `unwinding`, with callbacks that neither unmark nor restore | the console is left inside a function |
| `hidden_function` (violation) | as `function_lookup` | a cached negative hides a file |
| `aliased_values` (violation) | as `values`, any program | a write through one variable changes another |
| `interrupt_hang` (violation) | an interactive console, 1 Ctrl-C, 1 result of 2 pages | input() goes round for ever |

Why the bounds are enough. A scope is recycled as soon as two calls follow each
other, and depth 3 has an outer function, a nested one and one under it; pool
size, depth, handles and heap cells are all hit in the runs, where the code's
128, 100 and the range of int only take longer. Three marks allow a handler
inside a callback inside a command. Three messages to the server allow two
commands and an interrupt, in each order and merged. Three threads with 0 to 4
iterations have chunks of 2, of 1 and of none. In `function_lookup` the working
directory and the path may be the same directory, different ones, or empty; one
edit makes a file appear or vanish, and one call below the command is what a
file that runs and looks for itself needs. In `values` two variables
and four blocks are a container and a copy of it with an element that both and
a variable share, and one free block for the copy a write makes; a second stray
block adds states and no case. Three Ctrl-C are the first, one that counts only,
and one after the count starts again; three results are one on display and two
that wait, and two more pages make turning a page and turning the last one
different. The bounds `MaxCalls`, `MaxEntries`, `MaxCounter`, `MaxWrites`,
`MaxLines`, `MaxDepth` and `MaxEdits` of FunctionLookup, `MaxBlocks`,
`MaxStray`, `MaxInterrupts`, `MaxResults` and `MaxPages` stand in guards and are
named there; at `MaxWrites` the client stops reading. Variables and numbers of
Values are interchangeable, so its run of invariants and of the refinement uses
symmetry; no liveness is checked there.

Inputs are those programs can produce: nested functions are called by the
function that holds them, or through handles; the base scope is never closed by
a return.

Deadlock is checked except in `server`, where the system may be idle for ever
with the bound on messages used up, in `parfor`, where the model ends with the
loop, and in the runs of Console, which may exit. The others can always go on.

Fairness. In `server`, threads are scheduled by the operating system and TCP
delivers, so the server thread, each worker and the client's data events are
weakly fair; the user is not: nobody has to press a key, answer a question or
interrupt a loop. In `parfor` every thread is scheduled and each iteration
ends: the interpreter's thread and each worker are weakly fair. In `console`
the one thread is scheduled, and a statement ends: it is weakly fair as long as
it does not wait for the user, which turning a page does in interactive mode.
`BusyEnds` excuses a program that loops, while it runs, and one that asks, while
it waits for its line; after the interrupt or the line it has no excuse, also
for a text that two merged messages made; `LoopEnds` has no
excuse; `PromptComesBack` ends where the user can answer; `InterruptStops`
leaves out a command with pages on display, which is where `interrupt_hang`
begins. The other specifications state no fairness and no liveness.

## 4. What the code does that its texts deny

The four violation runs; `findings` quotes the texts.

* `cellfun` without an error handler leaves its mark behind when the callback
  fails, so the command's `Restore` stops short.
* A name once filed under `not_found_functions` hides files and definitions: a
  handle's lookup files it before precompiled files are searched, a file that
  runs and looks for itself does, `rehash` reads directories again and keeps the
  names, and definitions further on in the command are skipped for a name in it.
* `ignore_cow_pointers` is cleared by a parfor loop that ends well only, and is
  used on values others hold; `[s.f] = c{:}` writes without a look at the count.
  Either way one variable's write changes another's value.
* `input()` and `pause()` call `Paginate` while a page waits, and `Paginate`
  returns at once when the interrupt flag is set.

More of the kind, each a hazard with its line, is in the models and has no run
of its own: `GetValue(const std::string&)` breaks at the first nested caller,
where its comment and the other overload go on; `CloseScope` takes the scope
below a nested function for its parent, so one called through a handle hands its
locals to a stranger; `mark_narg_size` is one number for a stack of marks, so
the argument count on top after an error may be another call's; a reduced
variable of parfor starts with its value in every thread and again in the
reduction; a matrix's reference count is a plain `int` that parfor's threads
share; an indexed assignment in a nested function makes a new variable; `clear`
with a wildcard that matches a local spares the global; `munlock` after a caught
error takes the function that failed for the current one; quitting the pages of
a string erases every string with a line break that waits, because their
displays all have the chained id 0 and equal ids are a group, while the group
the comments speak of, the lines `system()` echoes, has no displays on Linux.

So the passing properties are to be read with their limits. Those of `unwinding`
hold for try, guarded callbacks and host calls. Those of `memory_scope` hold
with the lookup that identifiers use, and ImplementsFrames with the hand-over
to whoever is below. `NotFoundIsAbsent` and `ResolvesLikeDisk` leave out the
names in `misjudged`, and those only. `OrderKept` and `AllShownAtPrompt` leave
out the strings that a quit erases (`LeftOut`), and those only. `ReducedLikeFor` holds for reductions that
begin with the identity, as those of the help do. The other properties of
`parfor` hold whatever becomes of the count: its load and its store are steps of
their own.

## 5. What is proved

`tlapm` checks eight modules, for every value of the constants under the
assumptions that the modules name.

**ScopePoolProofs.** Assumptions: the pool is longer than the depth limit, heap
addresses are not pool addresses, NULL is no function. `PoolInv` is inductive:
the properties of the run, plus two facts. *HandlesFromCounter*: handles lie
between -counter and counter, so the next is new. *RegisteredAreOpen*: only open
scopes are in the history of registrations. `PoolNeverExhausted` rests on the
count that `CellsPartitioned` carries (open plus unused cells are those handed
out), and the handle theorems on the order in which `CloseScope` clears handles
and recycles. From the invariant: `PoolTypeCorrect`, `PoolCorrect`,
`PoolLasts`, `HandlesCorrect`, `HandleMapsAgree`, `NestedSearchCorrect`, and for
steps `HandlesAreStable`.

**ParforProofs.** Assumptions: the range's ends and r's values are integers and
there is at least one thread. The properties say nothing of how far a thread is, so
`ParforInv` adds it: *Chunks* (the chunks follow one another without a gap and
stop at the end of the range), *Progress* (a thread has run what lies behind it
in its chunk, unless some error was reported), *Waiting* (which threads exist
and which were joined). That the last chunk reaches the end of the range needs
`num_threads * ThreadRange >= range`, a fact of integer division
(`ThreadRangeCovers`). From the invariant: `ParforRunsOnce`, `ParforJoins`,
`ParforTypeCorrect`.

`ParforReduces` is about folds, so it needs induction. The library's induction
theorems take an operator and cannot be used; that the natural numbers are well
founded can, as the fact that a set of them which is not empty has a least
member (`SetInduction`: the least counterexample). With it `Accumulate` is shown
to be computed step by step, and a reduction over a chunk and the next to be
one over both, r being the identity in between. *PartsReduced*, added to the
invariant, says that a thread's r is what it ran, combined. The theorem's
hypothesis is `FromIdentity`: every thread starts with r's value, so a loop that
begins with another counts it once for each thread, a hazard listed at its line.

`ParforRunsOut` is what can be proved of the loop's end: what a thread has left
(`ThreadLeft`, `CallerLeft`) is a natural number, no step of anybody adds to it,
and each step takes from one. No schedule makes the loop go on for ever, fair or
not; fairness is needed only for it to get there (`LoopEnds`).

**MemoryScopeProofs.** `MemInv` is PoolInv and what scopes hold: their types,
`UnusedScopesClean`, and *HeapScopesPlain*: a scope on the heap runs no function
and declares no global, since only the running scope declares. The latter is
needed because deleting an environment empties its scope and forgets no names.
`NestedInherits` and `NestedShares` are proved of a lookup seen as the first
value from the top of the stack down to a function that is not nested. The
refinement `FramesImplemented`: each action of MemoryScope maps to one of
CallFrames' (a statement or a handle to `Use`, opening to `Call`, closing to
`Return`, and so on) or to a stutter. Opening maps to a call with a fresh frame
only because unused scopes are clean; writing through a handle into the heap
needs HeapScopesPlain.

**UnwindingProofs.** Assumption of its theorems: no callback is unguarded, which
`cellfun` shows to be needed. Every step of Unwinding is a step of the pool, so
PoolInv is inherited. To it `UnwindInv` adds *Nested*: each frame of the C++
stack began above what the frame below it had, in scopes, marks, counts and
names; *Held*: what it pushed is still there; *AtTop*: the innermost frame is
level with the stacks. From these the innermost handler's mark is the last, and
`Restore` cuts back to the handler's scope and to no less: scopes on the stack
are distinct, so the mark is found once.

**FunctionLookupProofs.** The invariant is the types, `NotFoundIsAbsent`, and
*DefaultRead*: the directories of the default path have been read, because
`restorepath` puts them back on the path and reads nothing. The point of the
argument is that a search may read the working directory, and that this changes
what later searches see only if it was never read, when no name has been
missed. `LockedStays` goes action by action. `CachesAreTrue` compares two
searches for a minimum: the code asks for each kind of file in turn and goes
through the path for each, `DiskPlace` takes the best of all files there are.
The first directory with the first kind that any directory has is what both find
(`FirstIsBest`); the invariant adds that a name passed over for its negative has
no file of any kind.

**ValuesProofs.** The theorems are of careful programs. `CountsMatch` compares a
count with cardinalities that a statement changes at several places at once, so
the argument is about one number per block, *Outside*: its count less the
elements that hold it. Each operation on a heap has a lemma that says by how
much it changes Outside, and of which block: `Release` by one of the block
released, whatever else it frees; the copy of a shared block by one for the old
and one for the new; the assignment to an element not at all. The invariant
`VInv` then says that Outside is what variables and the loop account for
(*Balanced*); that elements are matrices in use and not ignored (*Linked*),
without which freeing a container could free what is not counted; that an
ignored block has one count more than its variables (*Ignored*), which lets a
second loop slice it uncounted; and that a variable still holds what the loop
slices and reads (*LoopHolds*), so the end of a loop frees nothing.

The refinement, `ValuesImplementSemantics`, maps a variable to what it stands
for: its number, or the contents of its block with those of the matrices it
holds (*Worth*). One more invariant is needed, *Lone*: what is ignored is held by
one variable at most, so that a write which makes no copy is seen by nobody else
(`UnsharedIsMine`). The lemmas of the counts also say which blocks a step writes
(*Alters*), and a variable keeps its value if neither its block nor one of its
elements is among them (`OthersKeep`). Then each statement, and each iteration of
a parfor loop, is one step of ValueSemantics, for the variable it assigns; the
start, the end and the failure of a loop count only, and are none.
`OneVariableChanges` follows, and is the property that `aliased_values` refutes
of programs that are not careful. Assumed of the constants: numbers are neither
addresses nor the values of matrices and containers.

**OmlServerProofs.** `BusyHasReason` and `InputHasReason` speak of what the
client will believe once what is on its way has arrived; lemmas show that taking
messages in pieces or adding one at the end changes that belief as it should,
for any number in one data event. The invariant adds *AskersAsk*: only a worker
whose program asks waits for a line. `NoStaleInterrupt` needs *AimedAtRunning*:
while the flag is set, every worker that could stop is one it was aimed at.

**ConsoleProofs.** `OrderKept` is inductive with *WaitForPages* (results wait
behind a page only, or while those that wait are being printed), *PagesKnown*
(pages are turned while there are some, lines read when there are none),
*DisplayKnown* (from the key to the end of the quit, the display that was quit is
in `quit`, with all the results there are) and *LostForGood* (a result that a
quit lost neither is on the screen nor waits, but for those that
`DeleteChainedDisplays` is just about to erase). The last is what makes
`AllShownAtPrompt` an equivalence: no string counts as lost that is shown later
after all. Erasing keeps the order, by a lemma on `RemoveAt` (`OrderRemove`).

Only model-checked: liveness (`BusyEnds`, `LoopEnds`, `PromptComesBack`,
`InterruptStops`), which the prover does not do under fairness. Every other
property of the passing runs is a theorem. Of the properties of the violation
runs, `IdleAtBase` and `ChangesOne` are theorems under the hypothesis that the
run drops.

## 6. Plan

Done: ScopePool, CallFrames and MemoryScope, Unwinding, OmlServer, Parfor,
FunctionLookup, ValueSemantics and Values, Console; proofs of all of them.
Left, in this order:

1. *More bounds without fairness*: what `ParforRunsOut` says of a loop, for the
   client that waits (`BusyEnds`) and for a command after Ctrl-C
   (`InterruptStops`).
2. *Context copies* (evalin, assignin): a manager that shares scopes with
   another, open for the length of one command.
3. *File table*: AddFile, CloseFile and the slots they recycle.
4. *The evaluator's flags* (`break_on_continue`, display suppression) that an
   error leaves behind, in Unwinding.
5. *Anonymous functions*, whose captures hold reference-counted scopes, then
   the handle tree of plots.

## 7. Not modelled

Of 249,000 lines of implementation, most are numeric libraries (`src/math`),
builtin functions (`Runtime/BuiltInFuncs.cpp` alone is 34,000), toolboxes that
wrap libraries, and display: their content is arithmetic and text, with no state
between two calls, which is why the map covers little of the code by lines. The
parser is generated. The Python bridge and plot toolbox need their external
programs to mean anything. `PROJECT.json` says of each component what is left
out; in the modelled ones:

* *Scopes*: renaming, full copies and context copies, anonymous scopes, the
  debugger's view.
* *Unwinding*: the evaluation of expressions, and the flags (`break_on_continue`,
  `_store_suppressed`) an error leaves as they are.
* *OmlServer*: what two workers do to one evaluator's scopes (a data race on
  maps, undefined), the server's stop, and a message cut in two by TCP, which
  throws in the client's handler.
* *Parfor*: the analysis of the body, ranges with an increment, cells.
* *FunctionLookup*: hidden paths, preregistered functions, classes, local and
  nested functions, aliases of libraries and locked builtins, files that define
  another name than theirs, and the deletion of a precompiled file that a cached
  directory lists.
* *Values*: containers in containers, ND and sparse matrices, growing and
  resizing, in-place operators, handles and objects.
* *Console*: the Windows build, displays within displays (strings in cells, quit
  while the cell's display is paged, included), the log, SIGHUP, the end of input
  while paging, paging that a large matrix forces, and the
  interpreter that evaluates the line `input()` reads.
