------------------------------ MODULE Console ------------------------------
(* The interactive console of BetterCalc.cpp with the printing and paging of *)
(* ConsoleWrapper.cpp, Linux build: one thread reads lines, runs commands    *)
(* and shows pages, and a Ctrl-C runs the handler OnControlKeyDown between   *)
(* any two of its steps.                                                     *)
(*                                                                           *)
(* A result is its number in the command that made it, and a string with a   *)
(* line break in it or something else.  A line of text is empty, leaves the  *)
(* expression partial or completes it.  A page is a window of the result on  *)
(* display that is still to come.                                            *)
EXTENDS Integers, SequencesExt

CONSTANTS
    Batch,         \* commands and scripts on the command line (-e, -f)
    MaxInterrupts, \* bound on g_numUserInterrupts
    MaxResults,    \* bound on the results of a command
    MaxPages       \* bound on the pages of a result after its first

ASSUME BatchAssumption == Batch \in Nat
ASSUME BoundsAssumption == {MaxInterrupts, MaxResults, MaxPages} \subseteq Nat

VARIABLES
    pc,       \* where the console's thread is
    caller,   \* who called Paginate: the prompt's loop or a program's input()
    batch,    \* arguments of the command line still to run, the running one included
    count,    \* g_numUserInterrupts
    clear,    \* ClearCommandString
    flag,     \* the evaluator's _interrupt
    text,     \* strCommand
    mode,     \* m_paginate: pages turn by themselves ("on") or on a key
    pages,    \* _displayStack: 0, or the pages left of the result on display
    pending,  \* _resultsToPrint
    produced, \* the results the command has handed to HandleOnPrintResult
    strings,  \* those of them that are strings with a line break in them
    shown,    \* those that reached the screen; the last one is on display
    cleared,  \* history: results there were when HandleOnClearResults last ran
    quit      \* history: displays the user quit, and the results there were then

inputVars == <<batch, mode, count, clear, text>>
resultVars == <<pages, pending, produced, strings, shown, cleared, quit>>
vars == <<pc, caller, flag, inputVars, resultVars>>

Place == {"top", "confirm", "prompt", "getline", "ready", "run", "statement",
          "ask", "answer", "paginate", "page", "chained", "others", "exited",
          "crashed"}
Line == {"empty", "part", "rest"}
Text == {"none", "partial", "whole"}
Mode == {"off", "on", "interactive"}

Init ==
    /\ pc = IF Batch = 0 THEN "top" ELSE "ready"
    /\ caller = "top"
    /\ batch = Batch
    /\ count = 0 /\ clear = FALSE /\ flag = FALSE
    /\ text = "none"
    /\ mode = IF Batch = 0 THEN "on" ELSE "off"
    /\ pages = 0 /\ pending = <<>>
    /\ produced = 0 /\ strings = {}
    /\ shown = <<>> /\ cleared = 0 /\ quit = {}

\* HandleOnClearResults
ClearResults ==
    /\ pages' = 0
    /\ pending' = <<>>
    /\ cleared' = produced
    /\ UNCHANGED <<produced, strings, shown, quit>>

------------------------------------------------------------------------------
(* Ctrl-C *)

\* OnControlKeyDown and SetUserInterrupt
ControlC ==
    /\ pc \notin {"exited", "crashed"}
    /\ count < MaxInterrupts
    /\ count' = count + 1
    /\ clear' = TRUE
    /\ flag' = (flag \/ count' = 1)
    /\ UNCHANGED <<pc, caller, batch, mode, text, resultVars>>

------------------------------------------------------------------------------
(* The prompt *)

\* The top of the loop: HandleUserInterrupt, then a page if one is due.
Proceed ==
    /\ pc = "top" /\ count = 0
    /\ pc' = IF pages > 0 THEN "paginate" ELSE "prompt"
    /\ caller' = "top"
    /\ UNCHANGED <<flag, inputVars, resultVars>>

DropResults ==
    /\ pc = "top" /\ count = 1
    /\ ClearResults
    /\ pc' = IF pages' > 0 THEN "paginate" ELSE "prompt"
    /\ caller' = "top"
    /\ UNCHANGED <<flag, inputVars>>

AskToExit ==
    /\ pc = "top" /\ count > 1
    /\ pc' = "confirm"
    /\ UNCHANGED <<caller, flag, inputVars, resultVars>>

\* (mutant) The results stay when the exit is cancelled.
CancelExitOnly ==
    /\ pc = "confirm"
    /\ count' = 0
    /\ pc' = IF pages > 0 THEN "paginate" ELSE "prompt"
    /\ caller' = "top"
    /\ UNCHANGED <<flag, batch, mode, clear, text, resultVars>>

CancelExit ==
    /\ pc = "confirm"
    /\ count' = 0
    /\ ClearResults
    /\ pc' = IF pages' > 0 THEN "paginate" ELSE "prompt"
    /\ caller' = "top"
    /\ UNCHANGED <<flag, batch, mode, clear, text>>

Exit ==
    /\ pc = "confirm"
    /\ pc' = "exited"
    /\ UNCHANGED <<caller, flag, inputVars, resultVars>>

\* GetInputCommand, up to getline: the text is discarded here and nowhere else.
Prompt ==
    /\ pc = "prompt"
    /\ pc' = "getline"
    /\ text' = IF clear THEN "none" ELSE text
    /\ clear' = FALSE
    /\ UNCHANGED <<caller, flag, batch, mode, count, resultVars>>

\* getline goes on waiting after a Ctrl-C.  A line that is not empty starts the count
\* again.
ReadLine(line) ==
    /\ pc = "getline"
    /\ text' = CASE line = "empty" -> text
                 [] line = "part" -> "partial"
                 [] line = "rest" -> "whole"
    /\ count' = IF line = "empty" THEN count ELSE 0
    /\ pc' = IF text' = "partial" THEN "prompt" ELSE "ready"
    /\ UNCHANGED <<caller, flag, batch, mode, clear, resultVars>>

------------------------------------------------------------------------------
(* A command *)

\* DoString or DoFile up to the first statement: a Ctrl-C since the line was read is
\* forgotten, and CommonEvaluate clears the results of the command before.
Start ==
    /\ pc = "ready"
    /\ pc' = "run"
    /\ flag' = FALSE
    /\ text' = "none"
    /\ pages' = 0 /\ pending' = <<>>
    /\ produced' = 0 /\ strings' = {}
    /\ shown' = <<>> /\ cleared' = 0 /\ quit' = {}
    /\ UNCHANGED <<caller, batch, mode, count, clear>>

\* The command ends.  DoString clears the flag, DoFile (-f) leaves it; after the last
\* argument of the command line the console exits, or prompts if told to continue.
End ==
    /\ flag' \in IF batch > 0 THEN {FALSE, flag} ELSE {FALSE}
    /\ batch' = IF batch > 0 THEN batch - 1 ELSE 0
    /\ pc' \in IF batch > 1 THEN {"ready"} ELSE IF batch = 1 THEN {"top", "exited"}
                                               ELSE {"top"}
    /\ mode' = IF batch = 1 THEN "on" ELSE mode
    /\ UNCHANGED <<caller, count, clear, text, resultVars>>

\* (mutant) The flag is not looked at between two statements.
NextStatementUnchecked ==
    /\ pc = "run"
    /\ pc' = "statement"
    /\ UNCHANGED <<caller, flag, inputVars, resultVars>>

\* The flag is looked at between two statements.
NextStatement ==
    /\ pc = "run" /\ ~flag
    /\ pc' = "statement"
    /\ UNCHANGED <<caller, flag, inputVars, resultVars>>

Interrupted == pc = "run" /\ flag /\ End

\* The last statement, or one that fails.
Finish == pc = "statement" /\ End

Silent ==
    /\ pc = "statement"
    /\ pc' = "run"
    /\ UNCHANGED <<caller, flag, inputVars, resultVars>>

\* exit
ExitCommand ==
    /\ pc = "statement"
    /\ pc' = "exited"
    /\ UNCHANGED <<caller, flag, inputVars, resultVars>>

\* omlpaginate
SetPaginate(m) ==
    /\ pc = "statement"
    /\ pc' = "run"
    /\ mode' = m
    /\ UNCHANGED <<caller, flag, batch, count, clear, text, resultVars>>

\* Whether a result can be paged: there is no window size yet while the command line
\* is run.
CanPage == batch = 0 /\ mode # "off"

\* The printing of result n while nothing is on display: all of it, or the first page
\* of one that has more.
Show(n) ==
    /\ shown' = Append(shown, n)
    /\ pages' \in IF CanPage THEN 0 .. MaxPages ELSE {0}

\* HandleOnPrintResult: behind a page that waits the result waits too; one that could
\* page finds an interrupt that came during the statement and clears everything.
PrintResult ==
    /\ pc = "statement" /\ produced < MaxResults
    /\ pc' = "run"
    /\ produced' = produced + 1
    /\ strings' \in {strings, strings \cup {produced'}}
    /\ \/ /\ pages > 0
          /\ pending' = Append(pending, produced')
          /\ UNCHANGED <<pages, shown, cleared>>
       \/ /\ pages = 0
          /\ Show(produced')
          /\ flag => pages' = 0
          /\ UNCHANGED <<pending, cleared>>
       \/ /\ pages = 0 /\ flag /\ CanPage
          /\ pages' = 0 /\ pending' = <<>> /\ cleared' = produced'
          /\ UNCHANGED shown
    /\ UNCHANGED <<caller, flag, inputVars, quit>>

\* input() and pause(): pages first, then a line.
CallInput ==
    /\ pc = "statement"
    /\ pc' = "ask"
    /\ UNCHANGED <<caller, flag, inputVars, resultVars>>

\* `while (1) { if (IsPaginating()) { Paginate(); continue; } break; }`
Ask ==
    /\ pc = "ask"
    /\ pc' = IF pages > 0 THEN "paginate" ELSE "answer"
    /\ caller' = "ask"
    /\ UNCHANGED <<flag, inputVars, resultVars>>

Answer ==
    /\ pc = "answer"
    /\ pc' = "run"
    /\ UNCHANGED <<caller, flag, inputVars, resultVars>>

------------------------------------------------------------------------------
(* Pages *)

\* The top of Paginate's loop.
Paginate ==
    /\ pc = "paginate"
    /\ pc' = IF flag THEN caller ELSE "page"
    /\ UNCHANGED <<caller, flag, inputVars, resultVars>>

\* (mutant) The last page is taken for one before the last.
ForwardPast ==
    /\ pc = "page" /\ ~flag
    /\ pages' = pages - 1
    /\ pc' = IF pages' >= 0 THEN "paginate" ELSE "others"
    /\ UNCHANGED <<caller, flag, inputVars, pending, produced, strings, shown, cleared, quit>>

\* ProcessPagination of a display in one of its modes: forward is the only one that
\* needs no key.  It looks at the flag once, before it prints.
Forward ==
    /\ pc = "page" /\ ~flag
    /\ pages' = pages - 1
    /\ pc' = IF pages' > 0 THEN "paginate" ELSE "others"
    /\ UNCHANGED <<caller, flag, inputVars, pending, produced, strings, shown, cleared, quit>>

Back ==
    /\ pc = "page" /\ ~flag /\ mode = "interactive" /\ pages < MaxPages
    /\ pages' = pages + 1
    /\ pc' = "paginate"
    /\ UNCHANGED <<caller, flag, inputVars, pending, produced, strings, shown, cleared, quit>>

\* The StringDisplay of a string with a line break has the chained id 0, whoever made
\* it: any two of them count as chained.  No other display is chained to anything.
IsChained(n) == {Last(shown), n} \subseteq strings

Chained == {i \in 1 .. Len(pending) : IsChained(pending[i])}

\* (q)uit, and every key without a meaning.
PressQuit ==
    /\ pc = "page" /\ mode = "interactive"
    /\ pc' = "chained"
    /\ quit' = quit \cup {[result |-> Last(shown), made |-> produced]}
    /\ UNCHANGED <<caller, flag, inputVars, pages, pending, produced, strings, shown, cleared>>

\* DeleteChainedDisplays erases the results that are chained to the one on display.
DeleteChained ==
    /\ pc = "chained"
    /\ \E i \in Chained :
          /\ \A j \in Chained : i <= j
          /\ pending' = RemoveAt(pending, i)
    /\ UNCHANGED <<pc, caller, flag, inputVars, pages, produced, strings, shown, cleared, quit>>

\* ProcessPagination of a display the user quit, or of any after a Ctrl-C.
Quit ==
    /\ pc = "chained" /\ Chained = {} /\ ~flag
    /\ pages' = 0
    /\ pc' = "others"
    /\ UNCHANGED <<caller, flag, inputVars, pending, produced, strings, shown, cleared, quit>>

QuitInterrupted ==
    /\ pc = "chained" /\ Chained = {} /\ flag
    /\ ClearResults
    /\ pc' = caller
    /\ UNCHANGED <<caller, flag, inputVars>>

\* (e)xit, and any key but (q)uit after a Ctrl-C: nothing more is printed, chained or not.
LeavePages ==
    /\ pc = "page" /\ (flag \/ mode = "interactive")
    /\ ClearResults
    /\ pc' = caller
    /\ UNCHANGED <<caller, flag, inputVars>>

\* (mutant) The results that wait are taken from the back.
ShowLastPending ==
    /\ pc = "others" /\ pages = 0 /\ pending # <<>>
    /\ Show(pending[Len(pending)])
    /\ flag => pages' = 0
    /\ pending' = SubSeq(pending, 1, Len(pending) - 1)
    /\ UNCHANGED <<pc, caller, flag, inputVars, produced, strings, cleared, quit>>

\* "Process all the other results", until one has pages of its own.
ShowPending ==
    /\ pc = "others" /\ pages = 0 /\ pending # <<>>
    /\ Show(Head(pending))
    /\ flag => pages' = 0
    /\ pending' = Tail(pending)
    /\ UNCHANGED <<pc, caller, flag, inputVars, produced, strings, cleared, quit>>

\* When one that could page finds an interrupt, PrintResult clears the vector this
\* loop goes through; the erase that follows destroys what is not there.
ShowPendingInterrupted ==
    /\ pc = "others" /\ pages = 0 /\ pending # <<>> /\ flag /\ CanPage
    /\ ClearResults
    /\ pc' = "crashed"
    /\ UNCHANGED <<caller, flag, inputVars>>

\* (mutant) Paginate returns after the first result, whatever still waits.
OthersForgotten ==
    /\ pc = "others"
    /\ pc' = IF pages > 0 THEN "paginate" ELSE caller
    /\ UNCHANGED <<caller, flag, inputVars, resultVars>>

OthersDone ==
    /\ pc = "others" /\ (pages > 0 \/ pending = <<>>)
    /\ pc' = IF pages > 0 THEN "paginate" ELSE caller
    /\ UNCHANGED <<caller, flag, inputVars, resultVars>>

------------------------------------------------------------------------------
User ==
    \/ ControlC
    \/ CancelExit \/ Exit
    \/ \E line \in Line : ReadLine(line)
    \/ Answer

Page == Forward \/ Back \/ PressQuit \/ LeavePages

\* What the thread does by itself: reading the flag, running statements, printing.
Console ==
    \/ Proceed \/ DropResults \/ AskToExit \/ Prompt
    \/ Start \/ NextStatement \/ Interrupted \/ Finish \/ Silent \/ PrintResult
    \/ ExitCommand
    \/ \E m \in Mode : SetPaginate(m)
    \/ CallInput \/ Ask
    \/ Paginate
    \/ DeleteChained \/ Quit \/ QuitInterrupted
    \/ ShowPending \/ ShowPendingInterrupted \/ OthersDone

Next == User \/ Console \/ Page

\* The thread goes on whenever it does not wait for the user.  Statements end.
Spec == Init /\ [][Next]_vars /\ WF_vars(Console \/ (mode # "interactive" /\ Page))

------------------------------------------------------------------------------
(* Properties *)

TypeOK ==
    /\ pc \in Place /\ caller \in {"top", "ask"}
    /\ batch \in 0 .. Batch
    /\ count \in 0 .. MaxInterrupts
    /\ {clear, flag} \subseteq BOOLEAN
    /\ text \in Text /\ mode \in Mode
    /\ pages \in 0 .. MaxPages
    /\ produced \in 0 .. MaxResults /\ cleared \in 0 .. produced
    /\ strings \subseteq 1 .. produced
    /\ shown \in Seq(1 .. produced) /\ pending \in Seq(1 .. produced)
    /\ Len(shown) + Len(pending) <= produced
    /\ quit \subseteq [result : 1 .. produced, made : 1 .. produced]

InOrder(s) == \A i, j \in 1 .. Len(s) : i < j => s[i] < s[j]

\* The strings that waited when the user quit another one.
LeftOut ==
    {n \in strings : \E q \in quit : q.result \in strings /\ q.result < n /\ n <= q.made}

\* Results reach the screen in the order the command made them, and the ones that wait
\* will: nothing overtakes a result whose pages are on display and nothing is shown
\* twice.  What is neither shown nor waits was cleared, or is a string that waited
\* when the user quit a string before it; nothing else is lost.
OrderKept ==
    /\ InOrder(shown \o pending)
    /\ \A n \in cleared + 1 .. produced : n \in ToSet(shown \o pending) \/ n \in LeftOut

\* The console asks for a line, a command's or an answer to input(), only when no page
\* is left and no result waits, and then the results since the last clearing that are
\* on the screen are all of them but the strings lost to a quit.
AllShownAtPrompt ==
    pc \in {"getline", "answer"} =>
        /\ pages = 0 /\ pending = <<>>
        /\ \A n \in cleared + 1 .. produced : n \in ToSet(shown) <=> n \notin LeftOut

Running ==
    \/ pc \in {"run", "statement", "ask", "answer"}
    \/ pc \in {"paginate", "page", "chained", "others"} /\ caller = "ask"

Waiting ==
    \/ pc \in {"getline", "confirm", "answer", "exited", "crashed"}
    \/ pc = "page" /\ mode = "interactive"

\* The prompt's loop gets to something the user can answer: it never goes round with
\* a page it may not show, because every Ctrl-C it has seen cleared the pages.
PromptComesBack == (pc = "top") ~> Waiting

\* A Ctrl-C that has set the flag ends the command, or the command waits for an answer
\* to input(), provided no result of the command has pages left.
InterruptStops == (flag /\ Running /\ pages = 0) ~> (~Running \/ pc = "answer")

\* Said by the comment in SetUserInterrupt ("First interruption will cause interpreter
\* to interrupt"): a Ctrl-C that has set the flag ends the command, or the command
\* waits for an answer of the user.
InterruptEnds ==
    (flag /\ Running) ~> (~Running \/ Waiting)
==============================================================================
