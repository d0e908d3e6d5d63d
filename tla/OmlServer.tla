------------------------------ MODULE OmlServer ------------------------------
(***************************************************************************)
(* The interpreter behind a socket: the editor's client                    *)
(* (src/Atom_OpenMatrix_Package/oml-package/lib), the server thread        *)
(* (src/src/oml/Console/OmlServer.cpp), the worker thread it starts for    *)
(* each command, and the one interrupt flag of the evaluator they share.   *)
(*                                                                         *)
(* up and down are the two directions of the TCP connection.  It keeps the *)
(* order but not the bounds of what was written: one recv may return       *)
(* several of the client's messages, and the server then reads one command *)
(* whose argument is all the rest.                                         *)
(***************************************************************************)
EXTENDS Integers, Sequences, FiniteSets

CONSTANTS
    Program,    \* kinds of programs the user evaluates, see Kind
    MaxWrites,  \* bound on the messages the client writes
    MaxMerge,   \* bound on the messages one recv or one data event returns
    MaxLines    \* bound on the lines waiting in stdin

\* A program ends by itself, loops until it is interrupted, or calls input().
Kind == {"ends", "loops", "asks"}

\* What the user types may also be the beginning of an expression.
Text == Program \cup {"partial"}

\* Nothing of these ever runs: the beginning of an expression is a syntax error for
\* DoString, and so is a text that no parser reads; DoFile finds no such file.
Unreadable == {"partial", "garbled"}

ASSUME ProgramAssumption == Program \subseteq Kind
ASSUME WritesAssumption == MaxWrites \in Nat /\ MaxLines \in Nat
ASSUME MergeAssumption == MaxMerge \in Nat \ {0}

VARIABLES
    omlInterPreterStatus, \* what the client believes
    userInputInProgress,
    awaiting,             \* texts whose ispartialexpression has no reply yet
    written,
    up, down,
    stdin,                \* lines the client wrote to the interpreter's stdin
    accepted,             \* the server thread is in its recv loop
    workers,              \* the worker threads, in the order they were created
    interrupt,            \* ExprTreeEvaluator::_interrupt
    aimed                 \* history: workers that existed when an interrupt arrived

clientVars == <<omlInterPreterStatus, userInputInProgress, awaiting, written>>
serverVars == <<accepted, workers, interrupt, aimed>>
vars == <<clientVars, serverVars, up, down, stdin>>

Init ==
    /\ omlInterPreterStatus = "notstarted"
    /\ userInputInProgress = FALSE
    /\ awaiting = <<>>
    /\ written = 0
    /\ up = <<>> /\ down = <<>> /\ stdin = 0
    /\ accepted = FALSE
    /\ workers = <<>>
    /\ interrupt = FALSE
    /\ aimed = {}

Worker == 1 .. Len(workers)
Message(type, data) == [type |-> type, data |-> data]

------------------------------------------------------------------------------
(* The client *)

Write(msgs) ==
    /\ written + Len(msgs) <= MaxWrites
    /\ written' = written + Len(msgs)
    /\ up' = up \o msgs

\* Run file and run selection, refused while the interpreter is not ready.  The
\* status only changes when the server says so.
Run(command, p) ==
    /\ omlInterPreterStatus = "ready"
    /\ Write(<<Message(command, p)>>)
    /\ UNCHANGED <<omlInterPreterStatus, userInputInProgress, awaiting, down, stdin, serverVars>>

\* Enter in the command window answers input(), or asks whether the text is complete.
PressEnter(t) ==
    /\ IF userInputInProgress
         THEN /\ stdin < MaxLines /\ stdin' = stdin + 1
              /\ UNCHANGED <<awaiting, written, up>>
         ELSE /\ awaiting' = Append(awaiting, t)
              /\ Write(<<Message("ispartialexpression", t)>>)
              /\ UNCHANGED stdin
    /\ UNCHANGED <<omlInterPreterStatus, userInputInProgress, down, serverVars>>

Interrupt ==
    /\ omlInterPreterStatus # "ready"
    /\ Write(<<Message("interrupt", "")>>)
    /\ stdin' = IF userInputInProgress THEN stdin + 1 ELSE stdin
    /\ stdin' <= MaxLines
    /\ UNCHANGED <<omlInterPreterStatus, userInputInProgress, awaiting, down, serverVars>>

\* What a variable of the client is when the messages s have been handled: the last one
\* of its type decides.
Arriving(type, s, now) ==
    LET at == {i \in 1 .. Len(s) : s[i].type = type}
    IN  IF at = {} THEN now ELSE s[CHOOSE i \in at : \A j \in at : j <= i].data

\* Every promise that waits takes the next reply for its own; its continuation runs when
\* the data handler is through, and evaluates a complete text if the interpreter is
\* ready then.  (At the bound MaxWrites the client stops reading.)
Resolve(partial) ==
    /\ awaiting' = <<>>
    /\ IF partial \/ omlInterPreterStatus' # "ready" THEN UNCHANGED <<written, up>>
       ELSE Write([i \in 1 .. Len(awaiting) |-> Message("evalstring", awaiting[i])])

\* One 'data' event brings n messages.
Receive(n) ==
    /\ n <= Len(down)
    /\ LET chunk == SubSeq(down, 1, n)
           replies == SelectSeq(chunk, LAMBDA m : m.type = "partialexpression")
       IN  /\ omlInterPreterStatus' = Arriving("status", chunk, omlInterPreterStatus)
           /\ userInputInProgress' = Arriving("userinput", chunk, userInputInProgress)
           /\ IF replies = <<>> THEN UNCHANGED <<awaiting, written, up>>
              ELSE Resolve(Head(replies).data)
    /\ down' = SubSeq(down, n + 1, Len(down))
    /\ UNCHANGED <<stdin, serverVars>>

------------------------------------------------------------------------------
(* The server thread *)

Send(type, data) == down' = Append(down, Message(type, data))

\* Start: the first client is accepted and told that the interpreter is ready.
Accept ==
    /\ ~accepted
    /\ accepted' = TRUE
    /\ Send("status", "ready")
    /\ UNCHANGED <<clientVars, up, stdin, workers, interrupt, aimed>>

\* "busy" is sent, then a worker started, whether one is running or not.
Evaluate(mode, data) ==
    /\ Send("status", "busy")
    /\ workers' = Append(workers, [pc |-> "created", mode |-> mode, program |-> data])
    /\ UNCHANGED <<interrupt, aimed>>

TriggerInterrupt ==
    /\ interrupt' = TRUE
    /\ aimed' = aimed \cup {w \in Worker : workers[w].pc # "done"}
    /\ UNCHANGED <<workers, down>>

ReplyPartial(answers) ==
    /\ \E b \in answers : Send("partialexpression", b)
    /\ UNCHANGED <<workers, interrupt, aimed>>

\* What the server reads as the argument of a command m that comes in one recv with the
\* n - 1 messages after it: one that nobody wrote if n > 1.  No file has such a name, but
\* DoString may well parse it, when the text of m ends in a newline or a comment, and
\* then it does whatever programs do.
Argument(m, n) ==
    IF n = 1 THEN {m.data}
    ELSE {"garbled"} \cup (IF m.type = "evalstring" THEN Kind ELSE {})

\* A recv returns n messages: the command of the first.
Recv(n) ==
    /\ accepted /\ n <= Len(up)
    /\ LET m == Head(up)
       IN  \/ m.type \in {"evalstring", "evalfile"}
              /\ \E data \in Argument(m, n) : Evaluate(m.type, data)
           \/ m.type = "interrupt" /\ TriggerInterrupt
           \/ m.type = "ispartialexpression"
              /\ ReplyPartial(IF n = 1 THEN {m.data = "partial"} ELSE BOOLEAN)
    /\ up' = SubSeq(up, n + 1, Len(up))
    /\ UNCHANGED <<clientVars, stdin, accepted>>

------------------------------------------------------------------------------
(* A worker thread: RunScript *)

\* Worker w is at pc `from` and goes on to `to`.
Step(w, from, to) ==
    /\ workers[w].pc = from
    /\ workers' = [workers EXCEPT ![w].pc = to]
    /\ UNCHANGED <<clientVars, up, accepted, aimed>>

\* (mutant) DoString and DoFile do not clear the flag when they start.
BeginUncleared(w) ==
    /\ Step(w, "created", "running")
    /\ UNCHANGED <<down, stdin, interrupt>>

\* DoString and DoFile clear the flag first, unless the file is not found.
Begin(w) ==
    /\ Step(w, "created", "running")
    /\ interrupt' = (interrupt /\ workers[w].mode = "evalfile" /\ workers[w].program \in Unreadable)
    /\ UNCHANGED <<down, stdin>>

Finish(w) ==
    /\ workers[w].program \notin {"loops", "asks"}
    /\ Step(w, "running", "ran")
    /\ UNCHANGED <<down, stdin, interrupt>>

\* (mutant) An interrupted program ends the thread without a word.
StopSilently(w) ==
    /\ interrupt /\ workers[w].program \notin Unreadable
    /\ Step(w, "running", "done")
    /\ UNCHANGED <<down, stdin, interrupt>>

\* StatementList and Statement look at the flag before each statement.
Stop(w) ==
    /\ interrupt /\ workers[w].program \notin Unreadable
    /\ Step(w, "running", "ran")
    /\ UNCHANGED <<down, stdin, interrupt>>

AskUser(w) ==
    /\ workers[w].program = "asks"
    /\ Step(w, "running", "asking")
    /\ Send("userinput", TRUE)
    /\ UNCHANGED <<stdin, interrupt>>

\* (mutants) A line is read before there is one; the client is not told of it.
GetLineAtOnce(w) ==
    /\ stdin' = stdin - 1
    /\ workers[w].pc = "asking"
    /\ workers' = [workers EXCEPT ![w].pc = "running", ![w].program = "ends"]
    /\ Send("userinput", FALSE)
    /\ UNCHANGED <<clientVars, up, accepted, interrupt, aimed>>
GetLineUntold(w) ==
    /\ stdin > 0
    /\ stdin' = stdin - 1
    /\ workers[w].pc = "asking"
    /\ workers' = [workers EXCEPT ![w].pc = "running", ![w].program = "ends"]
    /\ UNCHANGED <<clientVars, up, down, accepted, interrupt, aimed>>

\* std::getline blocks, interrupt or not, and takes the oldest line there is.
GetLine(w) ==
    /\ stdin > 0
    /\ stdin' = stdin - 1
    /\ workers[w].pc = "asking"
    /\ workers' = [workers EXCEPT ![w].pc = "running", ![w].program = "ends"]
    /\ Send("userinput", FALSE)
    /\ UNCHANGED <<clientVars, up, accepted, interrupt, aimed>>

\* DoString clears the flag once more when it is done, DoFile does not.
End(w) ==
    /\ Step(w, "ran", "status")
    /\ interrupt' = (interrupt /\ workers[w].mode = "evalfile")
    /\ UNCHANGED <<down, stdin>>

\* (mutant) Only evalstring reports its end.
SendReadyString(w) ==
    /\ Step(w, "status", "done")
    /\ IF workers[w].mode = "evalstring" THEN Send("status", "ready") ELSE UNCHANGED down
    /\ UNCHANGED <<stdin, interrupt>>

\* SendInterpreterState(READY); the lists of names it sends first change nothing here.
SendReady(w) ==
    /\ Step(w, "status", "done")
    /\ Send("status", "ready")
    /\ UNCHANGED <<stdin, interrupt>>

WorkerStep(w) ==
    \/ Begin(w) \/ Finish(w) \/ Stop(w) \/ AskUser(w) \/ GetLine(w)
    \/ End(w) \/ SendReady(w)

------------------------------------------------------------------------------
ClientNext ==
    \/ \E p \in Program : \E command \in {"evalstring", "evalfile"} : Run(command, p)
    \/ \E t \in Text : PressEnter(t)
    \/ Interrupt

Next ==
    \/ ClientNext
    \/ \E n \in 1 .. MaxMerge : Receive(n)
    \/ Accept
    \/ \E n \in 1 .. MaxMerge : Recv(n)
    \/ \E w \in Worker : WorkerStep(w)

\* The operating system runs every thread and TCP delivers; the user owes nothing.
Fairness ==
    /\ WF_vars(\E n \in 1 .. MaxMerge : Receive(n))
    /\ WF_vars(Accept)
    /\ WF_vars(\E n \in 1 .. MaxMerge : Recv(n))
    /\ \A w \in 1 .. MaxWrites : WF_vars(w \in Worker /\ WorkerStep(w))

Spec == Init /\ [][Next]_vars /\ Fairness

------------------------------------------------------------------------------
(* Properties *)

MessageTo(types, data) == [type : types, data : data]
Phase == {"created", "running", "asking", "ran", "status", "done"}

TypeOK ==
    /\ omlInterPreterStatus \in {"notstarted", "busy", "ready"}
    /\ userInputInProgress \in BOOLEAN
    /\ awaiting \in Seq(Text)
    /\ written \in 0 .. MaxWrites
    /\ up \in Seq(MessageTo({"evalstring", "evalfile", "ispartialexpression"}, Text)
                  \cup MessageTo({"interrupt"}, {""}))
    /\ down \in Seq(MessageTo({"status"}, {"busy", "ready"})
                    \cup MessageTo({"userinput", "partialexpression"}, BOOLEAN))
    /\ stdin \in Nat
    /\ accepted \in BOOLEAN
    /\ workers \in Seq([pc : Phase, mode : {"evalstring", "evalfile"}, program : Kind \cup Unreadable])
    /\ interrupt \in BOOLEAN
    /\ aimed \subseteq Nat

\* The client never waits for nothing: when all the server has sent has arrived and
\* the status is still "busy", some worker has yet to say "ready", however many
\* commands ran at once and however their messages were mixed.
BusyHasReason ==
    Arriving("status", down, omlInterPreterStatus) = "busy" =>
        \E w \in Worker : workers[w].pc # "done"

\* The command window goes back to commands: when all the server has sent has arrived,
\* lines are taken for input() only while some worker asks.
InputHasReason ==
    (\A w \in Worker : workers[w].pc # "asking") =>
        ~Arriving("userinput", down, userInputInProgress)

\* An interrupt stops what it was aimed at or nothing: a program never stops because
\* of one that arrived before its command did (and found nothing to stop, or only a
\* command that was at its end).
NoStaleInterrupt == [][\A w \in Worker : Stop(w) => w \in aimed]_vars

\* The client gets the interpreter back, unless a program loops or waits for the user
\* meanwhile; one that was interrupted or answered is no excuse any more.
BusyEnds ==
    omlInterPreterStatus = "busy" ~>
        \/ omlInterPreterStatus = "ready"
        \/ \E w \in Worker : \/ workers[w].pc = "running" /\ workers[w].program = "loops"
                            \/ workers[w].pc = "asking"
=============================================================================
