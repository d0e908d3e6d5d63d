-------------------------------- MODULE Parfor --------------------------------
(***************************************************************************)
(* A parfor loop of Evaluator.cpp: the interpreter's thread cuts the loop  *)
(* into chunks, starts a C++ thread with an evaluator of its own for each, *)
(* joins them and combines what they left.                                 *)
(*                                                                         *)
(* The body is  a(j) = ...; r = r op j;  possibly with a matrix b that it  *)
(* only reads: a is "sliced" (all the threads share it), r is "reduced"    *)
(* (each thread has its own), b is "broadcast" (each thread has a copy,    *)
(* which is one more reference to the same matrix).  Any iteration may     *)
(* raise an error.  The loop variable takes consecutive integers, which is *)
(* what the documentation asks for.                                        *)
(***************************************************************************)
EXTENDS Integers, FiniteSets

CONSTANTS
    First, Last, \* the loop's first values; its last values
    MaxThreads,  \* parcluster refuses a larger number
    Reduction,   \* operators and initial values of r: records [op, value]
    Broadcast    \* whether the bodies read a matrix b

ASSUME LoopAssumption == First \subseteq Int /\ Last \subseteq Int
ASSUME ThreadsAssumption == MaxThreads \in Nat \ {0}
ASSUME ReductionAssumption == Reduction \subseteq [op : {"PLUS", "TIMES"}, value : Int]
ASSUME BroadcastAssumption == Broadcast \subseteq BOOLEAN

Thread == 1 .. MaxThreads

VARIABLES
    loop,         \* this loop: its range, the number of threads and the reduction
    pc,           \* the interpreter's thread
    spawned, joined,
    thread_start, thread_end,
    helper,       \* LoopHelper of each thread: the next value and the last one
    step,         \* where each thread is
    ran,          \* history: <<t, i>> when thread t ran iteration i to its end
    reduced,      \* r, in the evaluator of each thread
    result,       \* r, in the interpreter's own scope
    thread_error, \* the thread whose message err_str holds; 0: empty, -1: garbled
    m_refCount,   \* references to the matrix of b
    loaded        \* what each thread has read of m_refCount, for m_refCount++ and --

chunkVars == <<thread_start, thread_end>>
threadVars == <<helper, step, ran, reduced, loaded>>
vars == <<loop, pc, spawned, joined, chunkVars, threadVars, result, thread_error, m_refCount>>

Iteration == loop.first .. loop.last
Combine(x, y) == IF loop.op = "PLUS" THEN x + y ELSE x * y

\* r combined with x[1], then with x[2], up to x[n].
Accumulate(r, x, n) ==
    LET acc[k \in 0 .. n] == IF k = 0 THEN r ELSE Combine(acc[k - 1], x[k])
    IN  acc[n]

Init ==
    /\ loop \in {[first |-> f, last |-> l, num_threads |-> n, op |-> r.op, value |-> r.value,
                  broadcast |-> b] :
                    f \in First, l \in Last, n \in Thread, r \in Reduction, b \in Broadcast}
    /\ pc = "spawn"
    /\ spawned = 0 /\ joined = 0
    /\ thread_start = 0 /\ thread_end = 0
    /\ helper = [t \in Thread |-> [next |-> 0, last |-> 0]]
    /\ step = [t \in Thread |-> "none"]
    /\ ran = {}
    /\ reduced = [t \in Thread |-> 0]
    /\ result = loop.value
    /\ thread_error = 0
    /\ m_refCount = 1
    /\ loaded = [t \in Thread |-> 0]

------------------------------------------------------------------------------
(* The interpreter's thread *)

\* ceil(range / num_threads): the floating-point thread_range, rounded up together with
\* an integer thread_start.
ThreadRange == (loop.last - loop.first + loop.num_threads) \div loop.num_threads

Least(x, y) == IF x <= y THEN x ELSE y

\* (mutants) The end is not capped; one thread too many.
SpawnUncapped ==
    /\ pc = "spawn" /\ spawned < loop.num_threads
    /\ spawned' = spawned + 1
    /\ thread_start' = IF spawned = 0 THEN loop.first ELSE thread_end + 1
    /\ thread_end' = thread_start' + ThreadRange - 1
    /\ helper' = [helper EXCEPT ![spawned'] = [next |-> thread_start', last |-> thread_end']]
    /\ step' = [step EXCEPT ![spawned'] = "top"]
    /\ reduced' = [reduced EXCEPT ![spawned'] = result]
    /\ UNCHANGED <<loop, pc, joined, ran, loaded, result, thread_error, m_refCount>>
SpawnOneMore ==
    /\ pc = "spawn" /\ spawned <= loop.num_threads
    /\ spawned' = spawned + 1
    /\ UNCHANGED <<loop, pc, joined, chunkVars, threadVars, result, thread_error, m_refCount>>

\* One turn of the loop that starts the threads, each with r, b and its chunk.
Spawn ==
    /\ pc = "spawn" /\ spawned < loop.num_threads
    /\ spawned' = spawned + 1
    /\ thread_start' = IF spawned = 0 THEN loop.first ELSE thread_end + 1
    /\ thread_end' = Least(thread_start' + ThreadRange - 1, loop.last)
    /\ helper' = [helper EXCEPT ![spawned'] = [next |-> thread_start', last |-> thread_end']]
    /\ step' = [step EXCEPT ![spawned'] = "top"]
    /\ reduced' = [reduced EXCEPT ![spawned'] = result]
    /\ m_refCount' = IF loop.broadcast THEN m_refCount + 1 ELSE m_refCount
    /\ UNCHANGED <<loop, pc, joined, ran, loaded, result, thread_error>>

Joining == pc = "spawn" /\ spawned = loop.num_threads

\* (mutant) An error ends the wait.
JoinUntilError ==
    /\ Joining /\ joined < loop.num_threads
    /\ step[joined + 1] = "ended" \/ thread_error # 0
    /\ joined' = IF thread_error # 0 THEN loop.num_threads ELSE joined + 1
    /\ UNCHANGED <<loop, pc, spawned, chunkVars, threadVars, result, thread_error, m_refCount>>

Join ==
    /\ Joining /\ joined < loop.num_threads
    /\ step[joined + 1] = "ended"
    /\ joined' = joined + 1
    /\ UNCHANGED <<loop, pc, spawned, chunkVars, threadVars, result, thread_error, m_refCount>>

\* The error of the threads is raised; their evaluators are left behind.
Raise ==
    /\ Joining /\ joined = loop.num_threads
    /\ thread_error # 0
    /\ pc' = "failed"
    /\ UNCHANGED <<loop, spawned, joined, chunkVars, threadVars, result, thread_error, m_refCount>>

\* (mutant) The first thread is left out.
ReduceOthers ==
    /\ Joining /\ joined = loop.num_threads
    /\ thread_error = 0
    /\ result' = Accumulate(result, [k \in 1 .. loop.num_threads - 1 |-> reduced[k + 1]],
                            loop.num_threads - 1)
    /\ pc' = "done"
    /\ UNCHANGED <<loop, spawned, joined, chunkVars, threadVars, thread_error, m_refCount>>

\* r takes what the threads have, one after the other; deleting an evaluator gives up
\* its reference to b.
Reduce ==
    /\ Joining /\ joined = loop.num_threads
    /\ thread_error = 0
    /\ result' = Accumulate(result, reduced, loop.num_threads)
    /\ m_refCount' = IF loop.broadcast THEN m_refCount - loop.num_threads ELSE m_refCount
    /\ pc' = "done"
    /\ UNCHANGED <<loop, spawned, joined, chunkVars, threadVars, thread_error>>

------------------------------------------------------------------------------
(* The threads: threadCallback *)

Done(t) == helper[t].next > helper[t].last

\* Thread t goes from one step to another.
Step(t, from, to) ==
    /\ step[t] = from
    /\ step' = [step EXCEPT ![t] = to]
    /\ UNCHANGED <<loop, pc, spawned, joined, chunkVars, result>>

\* (mutant) NextRealValue does not count.
AdvanceNever(t) == helper' = helper

\* NextRealValue counts before the body runs.
Advance(t) == helper' = [helper EXCEPT ![t].next = @ + 1]

\* One iteration that raises no error.
RunBody(t) ==
    /\ ~Done(t)
    /\ IF loop.broadcast THEN Step(t, "using", "used") ELSE Step(t, "top", "top")
    /\ Advance(t)
    /\ ran' = ran \cup {<<t, helper[t].next>>}
    /\ reduced' = [reduced EXCEPT ![t] = Combine(@, helper[t].next)]
    /\ UNCHANGED <<loaded, thread_error, m_refCount>>

\* m_refCount++ for the value of b, and m_refCount-- when it is destroyed: a load and
\* a store each, since the count is an int that no lock protects.  (What the
\* interpreter's thread does to the count is one step here, and a thread that goes on
\* with a matrix whose count fell to 0 reads what it held.)
LoadCount(t) ==
    /\ loop.broadcast /\ (step[t] = "top" => ~Done(t))
    /\ Step(t, "top", "copying") \/ Step(t, "used", "dropping")
    /\ loaded' = [loaded EXCEPT ![t] = m_refCount]
    /\ UNCHANGED <<helper, ran, reduced, thread_error, m_refCount>>

StoreCount(t) ==
    /\ \/ Step(t, "copying", "using") /\ m_refCount' = loaded[t] + 1
       \/ Step(t, "dropping", "top") /\ m_refCount' = loaded[t] - 1
    /\ UNCHANGED <<helper, ran, reduced, thread_error, loaded>>

\* An iteration raises an error: the handler looks whether err_str is empty ...
FailBody(t) ==
    /\ ~Done(t)
    /\ Step(t, "top", IF thread_error = 0 THEN "reporting" ELSE "ended")
    /\ Advance(t)
    /\ UNCHANGED <<ran, reduced, loaded, thread_error, m_refCount>>

\* (mutant) A thread waits until err_str is empty again.
WriteErrorWhenEmpty(t) ==
    /\ thread_error = 0
    /\ Step(t, "reporting", "ended")
    /\ thread_error' = t
    /\ UNCHANGED <<helper, ran, reduced, loaded, m_refCount>>

\* ... and writes to it.  Two threads that do so at once leave one message or a mixture.
WriteError(t) ==
    /\ Step(t, "reporting", "ended")
    /\ thread_error' \in {t} \cup (IF \E u \in Thread \ {t} : step[u] = "reporting"
                                   THEN {-1} ELSE {})
    /\ UNCHANGED <<helper, ran, reduced, loaded, m_refCount>>

EndThread(t) ==
    /\ Done(t)
    /\ Step(t, "top", "ended")
    /\ UNCHANGED <<helper, ran, reduced, loaded, thread_error, m_refCount>>

------------------------------------------------------------------------------
ThreadNext(t) ==
    \/ RunBody(t) \/ LoadCount(t) \/ StoreCount(t)
    \/ FailBody(t) \/ WriteError(t) \/ EndThread(t)

Next ==
    \/ Spawn \/ Join \/ Raise \/ Reduce
    \/ \E t \in Thread : ThreadNext(t)

\* Every thread is scheduled, and every iteration ends.
Fairness ==
    /\ WF_vars(Spawn \/ Join \/ Raise \/ Reduce)
    /\ \A t \in Thread : WF_vars(ThreadNext(t))

Spec == Init /\ [][Next]_vars /\ Fairness

------------------------------------------------------------------------------
(* Properties *)

TypeOK ==
    /\ loop \in [first : First, last : Last, num_threads : Thread,
                 op : {"PLUS", "TIMES"}, value : Int, broadcast : BOOLEAN]
    /\ pc \in {"spawn", "done", "failed"}
    /\ joined \in 0 .. spawned /\ spawned \in 0 .. loop.num_threads
    /\ thread_start \in Int /\ thread_end \in Int
    /\ helper \in [Thread -> [next : Int, last : Int]]
    /\ step \in [Thread -> {"none", "top", "copying", "using", "used", "dropping",
                            "reporting", "ended"}]
    /\ ran \subseteq Thread \X Int
    /\ reduced \in [Thread -> Int]
    /\ result \in Int
    /\ thread_error \in Thread \cup {0, -1}
    /\ m_refCount \in Int
    /\ loaded \in [Thread -> Int]

\* No iteration is ever run by two threads, and none outside the loop: however the
\* range divides among the threads, more threads than iterations and an empty or
\* backward range included.  Threads that share a sliced matrix rely on it.  A loop that
\* ends without an error has run them all: rounding leaves none between two chunks or
\* after the last, and no thread that failed goes unreported, whichever others report at
\* the same time.
RunOnce ==
    /\ \A r, q \in ran : r[2] = q[2] => r = q
    /\ \A r \in ran : r[2] \in Iteration
    /\ pc = "done" => \A i \in Iteration : \E t \in Thread : <<t, i>> \in ran

\* When the statement after the loop runs, no thread of it is alive: none can still
\* write to the shared matrices or to the error string on the interpreter's stack.
NoThreadLeft == pc # "spawn" => \A t \in Thread : step[t] \in {"none", "ended"}

LoopLength == IF loop.last < loop.first THEN 0 ELSE loop.last - loop.first + 1

\* What a for loop leaves in r.
Sequential == Accumulate(loop.value, [k \in 1 .. LoopLength |-> loop.first + k - 1], LoopLength)

\* r begins with the identity of its operator, as in the examples of the help: every
\* thread begins with the value that r has.
FromIdentity == \A r \in Reduction : r.value = IF r.op = "PLUS" THEN 0 ELSE 1

\* Said by the help on parfor ("Parfor loops behave similarly to regular for loops"):
\* r ends with the value the for loop computes, if it begins with the identity.
ReducedLikeFor == pc = "done" => result = Sequential

\* How many steps the interpreter's thread has yet to make at most, and how many each
\* of the others: six for an iteration it has not begun.
CallerLeft == 2 * loop.num_threads - spawned - joined + IF pc = "spawn" THEN 1 ELSE 0
Place == [used |-> 5, dropping |-> 4, top |-> 3, copying |-> 2, using |-> 1, reporting |-> 1,
          ended |-> 0]
ThreadLeft(t) ==
    IF step[t] = "none" THEN 6 * LoopLength + 4
    ELSE 6 * (IF Done(t) THEN 0 ELSE helper[t].last - helper[t].next + 1) + Place[step[t]]

\* However the threads are scheduled, each step is one the loop does not make again:
\* it brings one thread nearer to its end and sets none back, errors and races for the
\* error string and for the reference count included.
LoopRunsOut ==
    [][/\ CallerLeft' <= CallerLeft
       /\ \A t \in Thread : ThreadLeft(t)' <= ThreadLeft(t)
       /\ CallerLeft' < CallerLeft \/ \E t \in Thread : ThreadLeft(t)' < ThreadLeft(t)]_vars

\* The loop ends, with an error or without, if every iteration does.
LoopEnds == <>(pc # "spawn")
===============================================================================
