---------------------------- MODULE ConsoleProofs ----------------------------
(***************************************************************************)
(* Results are shown in order and completely, whatever the bounds are and  *)
(* whenever Ctrl-C is pressed.                                             *)
(***************************************************************************)
EXTENDS Console, SequenceTheorems, TLAPS

\* What belongs to the thread and the prompt.
PromptTyped ==
    /\ pc \in Place /\ caller \in {"top", "ask"}
    /\ batch \in 0 .. Batch
    /\ count \in 0 .. MaxInterrupts
    /\ text \in Text /\ mode \in Mode

\* What belongs to the results.
ResultsTyped ==
    /\ pages \in 0 .. MaxPages
    /\ produced \in 0 .. MaxResults /\ cleared \in 0 .. produced
    /\ strings \subseteq 1 .. produced
    /\ shown \in Seq(1 .. produced) /\ pending \in Seq(1 .. produced)
    /\ Len(shown) + Len(pending) <= produced
    /\ quit \subseteq [result : 1 .. produced, made : 1 .. produced]

FlagsTyped == clear \in BOOLEAN /\ flag \in BOOLEAN

\* Results wait behind a page only, except while the ones that wait are printed.
WaitForPages == pages = 0 /\ pc # "others" => pending = <<>>

\* Pages are turned while there are some, and lines read when there are none.
PagesKnown ==
    /\ pc \in {"paginate", "page", "chained"} => pages > 0
    /\ pc \in {"prompt", "getline", "answer"} => pages = 0

\* Pages are those of the result shown last, which is also the one being quit.
DisplayKnown ==
    /\ pages > 0 => shown # <<>>
    /\ pc = "chained" => /\ pages > 0
                         /\ [result |-> Last(shown), made |-> produced] \in quit

\* A string that waited when the user quit another one is not shown afterwards, and
\* does not wait any longer, except while the chained ones are being erased.
LostForGood ==
    /\ \A i \in 1 .. Len(shown) : shown[i] \notin LeftOut
    /\ \A i \in 1 .. Len(pending) :
          pending[i] \in LeftOut => pc = "chained" /\ IsChained(pending[i])

ResultsInv == ResultsTyped /\ OrderKept /\ DisplayKnown /\ LostForGood

Inv ==
    /\ PromptTyped
    /\ ResultsInv
    /\ FlagsTyped
    /\ WaitForPages
    /\ PagesKnown

-----------------------------------------------------------------------------
(* Sequences: what is on the screen, followed by what waits. *)

\* The elements of two sequences are those of the one followed by the other.
LEMMA ConcatElements ==
    ASSUME NEW S, NEW s \in Seq(S), NEW t \in Seq(S)
    PROVE  ToSet(s \o t) = ToSet(s) \cup ToSet(t)
<1>1. /\ Len(s) \in Nat /\ DOMAIN s = 1 .. Len(s)
      /\ Len(t) \in Nat /\ DOMAIN t = 1 .. Len(t)
      /\ DOMAIN (s \o t) = 1 .. (Len(s) + Len(t))
      /\ \A i \in 1 .. (Len(s) + Len(t)) :
            (s \o t)[i] = IF i <= Len(s) THEN s[i] ELSE t[i - Len(s)]
  OBVIOUS
<1>2. ASSUME NEW x \in ToSet(s) PROVE x \in ToSet(s \o t)
  <2>1. PICK i \in 1 .. Len(s) : x = s[i]
    BY <1>1, <1>2 DEF ToSet
  <2>2. i \in 1 .. (Len(s) + Len(t)) /\ (s \o t)[i] = x
    BY <1>1, <2>1
  <2> QED
    BY <1>1, <2>2 DEF ToSet
<1>3. ASSUME NEW x \in ToSet(t) PROVE x \in ToSet(s \o t)
  <2>1. PICK i \in 1 .. Len(t) : x = t[i]
    BY <1>1, <1>3 DEF ToSet
  <2>2. Len(s) + i \in 1 .. (Len(s) + Len(t)) /\ (s \o t)[Len(s) + i] = x
    BY <1>1, <2>1
  <2> QED
    BY <1>1, <2>2 DEF ToSet
<1>4. ASSUME NEW x \in ToSet(s \o t) PROVE x \in ToSet(s) \cup ToSet(t)
  <2>1. PICK i \in 1 .. (Len(s) + Len(t)) : x = (s \o t)[i]
    BY <1>1, <1>4 DEF ToSet
  <2>2. \/ i \in 1 .. Len(s) /\ x = s[i]
        \/ i - Len(s) \in 1 .. Len(t) /\ x = t[i - Len(s)]
    BY <1>1, <2>1
  <2> QED
    BY <1>1, <2>2 DEF ToSet
<1> QED
  BY <1>2, <1>3, <1>4

\* The next number joins a sequence in order.
LEMMA OrderAppend ==
    ASSUME NEW n \in Nat, NEW s \in Seq(1 .. n), InOrder(s)
    PROVE  /\ InOrder(Append(s, n + 1))
           /\ ToSet(Append(s, n + 1)) = ToSet(s) \cup {n + 1}
<1> DEFINE a == Append(s, n + 1)
<1>1. /\ Len(s) \in Nat /\ Len(a) = Len(s) + 1 /\ DOMAIN s = 1 .. Len(s)
      /\ DOMAIN a = 1 .. (Len(s) + 1)
      /\ a[Len(s) + 1] = n + 1
      /\ \A i \in 1 .. Len(s) : a[i] = s[i] /\ s[i] \in 1 .. n
  OBVIOUS
<1> HIDE DEF a
<1>2. ASSUME NEW i \in 1 .. Len(a), NEW j \in 1 .. Len(a), i < j PROVE a[i] < a[j]
  <2>1. i \in 1 .. Len(s) /\ a[i] = s[i] /\ s[i] \in 1 .. n
    BY <1>1, <1>2
  <2>2. CASE j = Len(s) + 1
    BY <1>1, <2>1, <2>2
  <2>3. CASE j # Len(s) + 1
    <3>1. j \in 1 .. Len(s)
      <4>1. j \in 1 .. (Len(s) + 1)
        BY <1>1
      <4> QED
        BY <1>1, <2>3, <4>1
    <3>2. a[j] = s[j]
      BY <1>1, <3>1, Zenon
    <3>3. s[i] < s[j]
      BY <1>2, <2>1, <3>1, Zenon DEF InOrder
    <3> QED
      BY <2>1, <3>2, <3>3, Zenon
  <2> QED
    BY <2>2, <2>3
<1>3. ToSet(a) = ToSet(s) \cup {n + 1}
  <2>1. 1 .. (Len(s) + 1) = (1 .. Len(s)) \cup {Len(s) + 1}
    BY <1>1
  <2>2. ToSet(a) = {a[i] : i \in 1 .. Len(s)} \cup {a[Len(s) + 1]}
    BY <1>1, <2>1, Zenon DEF ToSet
  <2>3. ToSet(s) = {s[i] : i \in 1 .. Len(s)}
    BY <1>1, Zenon DEF ToSet
  <2>4. {a[i] : i \in 1 .. Len(s)} = {s[i] : i \in 1 .. Len(s)}
    BY <1>1, Zenon
  <2> QED
    BY <1>1, <2>2, <2>3, <2>4, Zenon
<1> QED
  BY <1>2, <1>3 DEF InOrder, a

\* One that joins the queue joins the whole.
LEMMA AppendMoves ==
    ASSUME NEW S, NEW s \in Seq(S), NEW t \in Seq(S), NEW x \in S
    PROVE  s \o Append(t, x) = Append(s \o t, x)
OBVIOUS

\* The first of the queue goes to the screen and the whole is the same.
LEMMA HeadMoves ==
    ASSUME NEW S, NEW s \in Seq(S), NEW t \in Seq(S), t # <<>>
    PROVE  Append(s, Head(t)) \o Tail(t) = s \o t
OBVIOUS

\* One is taken out of a queue that is in order.
LEMMA OrderRemove ==
    ASSUME NEW S \in SUBSET Nat, NEW s \in Seq(S), NEW t \in Seq(S),
           NEW i \in 1 .. Len(t), InOrder(s \o t)
    PROVE  /\ RemoveAt(t, i) \in Seq(S) /\ Len(RemoveAt(t, i)) = Len(t) - 1
           /\ InOrder(s \o RemoveAt(t, i))
           /\ ToSet(s \o t) = ToSet(s \o RemoveAt(t, i)) \cup {t[i]}
           /\ \A k \in 1 .. Len(RemoveAt(t, i)) :
                 \E j \in 1 .. Len(t) : RemoveAt(t, i)[k] = t[j]
<1> DEFINE u == RemoveAt(t, i)
           pos(k) == IF k < i THEN k ELSE k + 1
<1>1. /\ Len(s) \in Nat /\ Len(t) \in Nat
      /\ DOMAIN s = 1 .. Len(s) /\ DOMAIN t = 1 .. Len(t)
  OBVIOUS
<1>2. /\ u \in Seq(S) /\ Len(u) = Len(t) - 1
      /\ \A k \in 1 .. Len(u) : u[k] = t[pos(k)]
  <2> DEFINE a == SubSeq(t, 1, i - 1)
             b == SubSeq(t, i + 1, Len(t))
  <2>1. /\ 1 \in Int /\ i - 1 \in Int /\ i + 1 \in Int /\ Len(t) \in Int
        /\ \A k \in 1 .. i - 1 : t[k] \in S
        /\ \A k \in i + 1 .. Len(t) : t[k] \in S
    BY <1>1
  <2>2. a \in Seq(S) /\ Len(a) = i - 1 /\ \A k \in 1 .. i - 1 : a[k] = t[k]
    <3>1. /\ a \in Seq(S)
          /\ Len(a) = IF 1 <= i - 1 THEN i - 1 - 1 + 1 ELSE 0
          /\ \A k \in 1 .. i - 1 - 1 + 1 : a[k] = t[1 + k - 1]
      BY <2>1, SubSeqProperties
    <3> HIDE DEF a
    <3> QED
      BY <3>1
  <2>3. b \in Seq(S) /\ Len(b) = Len(t) - i /\ \A k \in 1 .. Len(t) - i : b[k] = t[i + k]
    <3>1. /\ b \in Seq(S)
          /\ Len(b) = IF i + 1 <= Len(t) THEN Len(t) - (i + 1) + 1 ELSE 0
          /\ \A k \in 1 .. Len(t) - (i + 1) + 1 : b[k] = t[i + 1 + k - 1]
      BY <2>1, SubSeqProperties
    <3> HIDE DEF b
    <3>2. Len(b) = Len(t) - i
      <4> DEFINE n == Len(t)
                 l == Len(b)
      <4>1. n \in Nat /\ i \in 1 .. n
        BY <1>1
      <4>2. l = IF i + 1 <= n THEN n - (i + 1) + 1 ELSE 0
        BY <3>1, Zenon
      <4> HIDE DEF n, l
      <4>3. l = n - i
        BY <4>1, <4>2
      <4> QED
        BY <4>3, Zenon DEF n, l
    <3>3. \A k \in 1 .. Len(t) - i : t[i + 1 + k - 1] = t[i + k]
      BY <1>1
    <3> QED
      BY <3>1, <3>2, <3>3
  <2>4. u = a \o b
    BY DEF RemoveAt
  <2> HIDE DEF a, b, u
  <2>5. /\ a \o b \in Seq(S) /\ Len(a \o b) = Len(a) + Len(b)
        /\ \A k \in 1 .. Len(a) + Len(b) :
              (a \o b)[k] = IF k <= Len(a) THEN a[k] ELSE b[k - Len(a)]
    BY <2>2, <2>3, ConcatProperties
  <2> QED
    BY <1>1, <2>2, <2>3, <2>4, <2>5
<1> HIDE DEF u
<1>3. \A k \in 1 .. Len(u) : pos(k) \in 1 .. Len(t)
  BY <1>1, <1>2
<1>4. /\ Len(s \o u) = Len(s) + Len(u) /\ Len(s \o t) = Len(s) + Len(t)
      /\ \A k \in 1 .. Len(s) : (s \o u)[k] = s[k] /\ (s \o t)[k] = s[k]
      /\ \A k \in 1 .. Len(u) : (s \o u)[Len(s) + k] = u[k]
      /\ \A k \in 1 .. Len(t) : (s \o t)[Len(s) + k] = t[k]
  <2>1. /\ Len(s \o u) = Len(s) + Len(u)
        /\ \A k \in 1 .. Len(s) + Len(u) :
              (s \o u)[k] = IF k <= Len(s) THEN s[k] ELSE u[k - Len(s)]
    BY <1>2, ConcatProperties
  <2>2. /\ Len(s \o t) = Len(s) + Len(t)
        /\ \A k \in 1 .. Len(s) + Len(t) :
              (s \o t)[k] = IF k <= Len(s) THEN s[k] ELSE t[k - Len(s)]
    BY ConcatProperties
  <2> DEFINE su == s \o u
             st == s \o t
  <2> HIDE DEF su, st
  <2>3. Len(u) \in Nat
    BY <1>1, <1>2
  <2> QED
    BY <1>1, <2>1, <2>2, <2>3
<1> DEFINE at(k) == IF k <= Len(s) THEN k ELSE Len(s) + pos(k - Len(s))
<1>5. \A k \in 1 .. Len(s \o u) :
         at(k) \in 1 .. Len(s \o t) /\ (s \o u)[k] = (s \o t)[at(k)]
  <2> SUFFICES ASSUME NEW k \in 1 .. Len(s \o u)
               PROVE  at(k) \in 1 .. Len(s \o t) /\ (s \o u)[k] = (s \o t)[at(k)]
    OBVIOUS
  <2>1. CASE k <= Len(s)
    BY <1>1, <1>2, <1>4, <2>1
  <2>2. CASE ~(k <= Len(s))
    <3>1. k - Len(s) \in 1 .. Len(u) /\ k = Len(s) + (k - Len(s))
      BY <1>1, <1>2, <1>4, <2>2
    <3>2. (s \o u)[k] = t[pos(k - Len(s))] /\ pos(k - Len(s)) \in 1 .. Len(t)
      BY <1>2, <1>3, <1>4, <3>1
    <3> QED
      BY <1>1, <1>4, <2>2, <3>2
  <2> QED
    BY <2>1, <2>2
<1>6. \A k, l \in 1 .. Len(s \o u) : k < l => at(k) < at(l)
  BY <1>1, <1>2, <1>4
<1>7. InOrder(s \o u)
  <2> HIDE DEF at
  <2> SUFFICES ASSUME NEW k \in 1 .. Len(s \o u), NEW l \in 1 .. Len(s \o u), k < l
               PROVE  (s \o u)[k] < (s \o u)[l]
    BY DEF InOrder
  <2>1. (s \o t)[at(k)] < (s \o t)[at(l)]
    BY <1>5, <1>6, Zenon DEF InOrder
  <2> QED
    BY <1>5, <2>1
<1>8. ToSet(t) = ToSet(u) \cup {t[i]}
  <2>1. DOMAIN u = 1 .. Len(u)
    BY <1>2
  <2>2. ASSUME NEW x \in ToSet(u) PROVE x \in ToSet(t)
    BY <1>1, <1>2, <1>3, <2>1, <2>2 DEF ToSet
  <2>3. ASSUME NEW x \in ToSet(t), x # t[i] PROVE x \in ToSet(u)
    <3>1. PICK j \in 1 .. Len(t) : x = t[j]
      BY <1>1, <2>3 DEF ToSet
    <3>2. j # i
      BY <2>3, <3>1
    <3> DEFINE k == IF j < i THEN j ELSE j - 1
    <3>3. k \in 1 .. Len(u) /\ pos(k) = j
      BY <1>1, <1>2, <3>2
    <3>4. u[k] = x
      BY <1>2, <3>1, <3>3
    <3> QED
      BY <2>1, <3>3, <3>4 DEF ToSet
  <2>4. t[i] \in ToSet(t)
    BY <1>1 DEF ToSet
  <2> QED
    BY <2>2, <2>3, <2>4
<1>9. ToSet(s \o t) = ToSet(s \o u) \cup {t[i]}
  BY <1>2, <1>8, ConcatElements
<1> QED
  BY <1>2, <1>3, <1>7, <1>9 DEF u

\* A sequence in order that goes through x on the screen has only later ones waiting.
LEMMA WaitingAreLater ==
    ASSUME NEW n \in Nat, NEW s \in Seq(1 .. n), NEW t \in Seq(1 .. n), InOrder(s \o t),
           NEW i \in 1 .. Len(s), NEW j \in 1 .. Len(t)
    PROVE  s[i] < t[j]
<1>1. /\ Len(s) \in Nat /\ Len(t) \in Nat /\ Len(s \o t) = Len(s) + Len(t)
      /\ (s \o t)[i] = s[i] /\ (s \o t)[Len(s) + j] = t[j]
  BY ConcatProperties
<1>2. i \in 1 .. Len(s \o t) /\ Len(s) + j \in 1 .. Len(s \o t) /\ i < Len(s) + j
  BY <1>1
<1>3. (s \o t)[i] < (s \o t)[Len(s) + j]
  BY <1>2, Zenon DEF InOrder
<1> QED
  BY <1>1, <1>3

-----------------------------------------------------------------------------
(* The invariant is inductive. *)

\* The assumptions on the constants, one by one.
LEMMA Bounds == Batch \in Nat /\ MaxInterrupts \in Nat /\ MaxResults \in Nat /\ MaxPages \in Nat
BY BatchAssumption, BoundsAssumption

\* The console starts with nothing to show.
LEMMA InitInv == Init => Inv
<1> SUFFICES ASSUME Init PROVE Inv
  OBVIOUS
<1>0. Batch \in Nat /\ MaxInterrupts \in Nat /\ MaxResults \in Nat /\ MaxPages \in Nat
  BY Bounds
<1> USE <1>0 DEF Init
<1>1. PromptTyped
  BY DEF PromptTyped, Place, Text, Mode
<1>2. ResultsTyped
  BY DEF ResultsTyped
<1>3. OrderKept
  <2>1. shown \o pending = <<>> /\ cleared + 1 .. produced = {}
    OBVIOUS
  <2>2. InOrder(<<>>)
    BY DEF InOrder
  <2> QED
    BY <2>1, <2>2 DEF OrderKept
<1>4. DisplayKnown /\ LostForGood
  BY DEF DisplayKnown, LostForGood
<1>5. WaitForPages /\ PagesKnown
  BY DEF WaitForPages, PagesKnown
<1>6. FlagsTyped
  BY DEF FlagsTyped
<1> QED
  BY <1>1, <1>2, <1>3, <1>4, <1>5, <1>6 DEF Inv, ResultsInv

\* Steps that leave the results alone.
LEMMA ResultsUntouched ==
    ASSUME ResultsInv, UNCHANGED resultVars, pc' = "chained" <=> pc = "chained"
    PROVE  ResultsInv'
<1>1. /\ pages' = pages /\ pending' = pending /\ produced' = produced /\ strings' = strings
      /\ shown' = shown /\ cleared' = cleared /\ quit' = quit
  BY DEF resultVars
<1>2. ResultsTyped'
  BY <1>1 DEF ResultsInv, ResultsTyped
<1>3. OrderKept'
  BY <1>1 DEF ResultsInv, OrderKept, LeftOut
<1>4. DisplayKnown'
  BY <1>1 DEF ResultsInv, DisplayKnown
<1>5. LostForGood'
  BY <1>1 DEF ResultsInv, LostForGood, LeftOut, IsChained
<1> QED
  BY <1>2, <1>3, <1>4, <1>5 DEF ResultsInv

\* HandleOnClearResults leaves nothing to show, whatever was lost before.
LEMMA ResultsCleared ==
    ASSUME ResultsInv, ClearResults, pc' # "chained"
    PROVE  ResultsInv'
<1>1. /\ pages' = 0 /\ pending' = <<>> /\ cleared' = produced
      /\ produced' = produced /\ strings' = strings /\ shown' = shown /\ quit' = quit
  BY DEF ClearResults
<1>2. ResultsTyped /\ produced \in Nat
  BY Bounds DEF ResultsInv, ResultsTyped
<1>3. ResultsTyped'
  BY <1>1, <1>2, Bounds DEF ResultsTyped
<1>4. OrderKept'
  <2>1. InOrder(shown)
    <3>1. /\ Len(shown) \in Nat /\ Len(pending) \in Nat
          /\ Len(shown \o pending) = Len(shown) + Len(pending)
          /\ \A k \in 1 .. Len(shown) : (shown \o pending)[k] = shown[k]
      BY <1>2, ConcatProperties DEF ResultsTyped
    <3>2. \A k \in 1 .. Len(shown) : k \in 1 .. Len(shown \o pending)
      BY <3>1
    <3>3. InOrder(shown \o pending)
      BY DEF ResultsInv, OrderKept
    <3> QED
      BY <3>1, <3>2, <3>3 DEF InOrder
  <2>2. shown' \o pending' = shown
    BY <1>1, <1>2, ConcatEmptySeq DEF ResultsTyped
  <2>3. cleared' + 1 .. produced' = {}
    BY <1>1, <1>2
  <2> QED
    BY <2>1, <2>2, <2>3 DEF OrderKept
<1>5. DisplayKnown'
  BY <1>1 DEF DisplayKnown
<1>6. LostForGood'
  BY <1>1 DEF ResultsInv, LostForGood, LeftOut
<1> QED
  BY <1>3, <1>4, <1>5, <1>6 DEF ResultsInv

\* No step leads the thread, its prompt or the count of Ctrl-C out of their types.
LEMMA NextPromptTyped == Inv /\ [Next]_vars => PromptTyped'
<1> SUFFICES ASSUME PromptTyped, [Next]_vars PROVE PromptTyped'
  BY DEF Inv
<1>0. Batch \in Nat /\ MaxInterrupts \in Nat /\ MaxResults \in Nat /\ MaxPages \in Nat
  BY Bounds
<1> USE <1>0 DEF PromptTyped, Place, Text, Mode, inputVars
<1>1. CASE UNCHANGED vars
  BY <1>1 DEF vars
<1>2. CASE ControlC
  BY <1>2 DEF ControlC
<1>3. CASE CancelExit \/ Exit
  BY <1>3 DEF CancelExit, Exit
<1>4. ASSUME NEW line \in Line, ReadLine(line) PROVE PromptTyped'
  BY <1>4 DEF ReadLine, Line
<1>5. CASE Answer
  BY <1>5 DEF Answer
<1>6. CASE Proceed \/ DropResults \/ AskToExit \/ Prompt
  BY <1>6 DEF Proceed, DropResults, AskToExit, Prompt
<1>7. CASE Start
  BY <1>7 DEF Start
<1>8. CASE Interrupted \/ Finish
  <2>1. /\ batch' = IF batch > 0 THEN batch - 1 ELSE 0
        /\ pc' \in IF batch > 1 THEN {"ready"} ELSE IF batch = 1 THEN {"top", "exited"}
                                                  ELSE {"top"}
        /\ mode' = IF batch = 1 THEN "on" ELSE mode
        /\ UNCHANGED <<caller, count, text>>
    BY <1>8, Zenon DEF Interrupted, Finish, End
  <2> QED
    BY <2>1
<1>9. CASE NextStatement \/ Silent \/ PrintResult \/ ExitCommand
  BY <1>9 DEF NextStatement, Silent, PrintResult, ExitCommand
<1>10. ASSUME NEW m \in Mode, SetPaginate(m) PROVE PromptTyped'
  BY <1>10 DEF SetPaginate
<1>11. CASE CallInput \/ Ask \/ Paginate
  BY <1>11 DEF CallInput, Ask, Paginate
<1>12. CASE ShowPending \/ ShowPendingInterrupted \/ OthersDone
  BY <1>12 DEF ShowPending, ShowPendingInterrupted, OthersDone
<1>13. CASE Page
  BY <1>13 DEF Page, Forward, Back, PressQuit, LeavePages
<1>14. CASE DeleteChained \/ Quit \/ QuitInterrupted
  BY <1>14 DEF DeleteChained, Quit, QuitInterrupted
<1> QED
  BY <1>1, <1>2, <1>3, <1>4, <1>5, <1>6, <1>7, <1>8, <1>9, <1>10, <1>11, <1>12, <1>13,
     <1>14 DEF Next, User, Console

\* No step leads a flag out of its type.
LEMMA NextFlagsTyped == Inv /\ [Next]_vars => FlagsTyped'
<1> SUFFICES ASSUME FlagsTyped, [Next]_vars PROVE FlagsTyped'
  BY DEF Inv
<1> USE DEF FlagsTyped, inputVars, resultVars, ClearResults
<1>1. CASE UNCHANGED vars
  BY <1>1 DEF vars
<1>2. CASE ControlC
  BY <1>2 DEF ControlC
<1>3. CASE CancelExit \/ Exit
  BY <1>3 DEF CancelExit, Exit
<1>4. ASSUME NEW line \in Line, ReadLine(line) PROVE FlagsTyped'
  BY <1>4, Zenon DEF ReadLine
<1>5. CASE Answer
  BY <1>5 DEF Answer
<1>6. CASE Proceed \/ DropResults \/ AskToExit \/ Prompt
  BY <1>6, Zenon DEF Proceed, DropResults, AskToExit, Prompt
<1>7. CASE Start
  BY <1>7, Zenon DEF Start
<1>8. CASE Interrupted \/ Finish
  BY <1>8, Zenon DEF Interrupted, Finish, End
<1>9. CASE NextStatement \/ Silent \/ ExitCommand
  BY <1>9, Zenon DEF NextStatement, Silent, ExitCommand
<1>10. CASE PrintResult
  BY <1>10, Zenon DEF PrintResult
<1>11. ASSUME NEW m \in Mode, SetPaginate(m) PROVE FlagsTyped'
  BY <1>11, Zenon DEF SetPaginate
<1>12. CASE CallInput \/ Ask \/ Paginate
  BY <1>12, Zenon DEF CallInput, Ask, Paginate
<1>13. CASE ShowPending \/ ShowPendingInterrupted \/ OthersDone
  BY <1>13, Zenon DEF ShowPending, ShowPendingInterrupted, OthersDone
<1>14. CASE Page
  BY <1>14, Zenon DEF Page, Forward, Back, PressQuit, LeavePages
<1>15. CASE DeleteChained \/ Quit \/ QuitInterrupted
  BY <1>15, Zenon DEF DeleteChained, Quit, QuitInterrupted
<1> QED
  BY <1>1, <1>2, <1>3, <1>4, <1>5, <1>6, <1>7, <1>8, <1>9, <1>10, <1>11, <1>12, <1>13,
     <1>14, <1>15 DEF Next, User, Console

\* A new result changes nothing about which of the earlier ones are lost, and is not
\* lost itself.
LEMMA NewIsNotLost ==
    ASSUME ResultsTyped, produced' = produced + 1, quit' = quit,
           strings' \in {strings, strings \cup {produced'}}
    PROVE  /\ \A n \in 1 .. produced : n \in LeftOut' <=> n \in LeftOut
           /\ produced' \notin LeftOut'
<1>1. /\ produced \in Nat /\ strings \subseteq 1 .. produced
      /\ \A q \in quit : q.result \in 1 .. produced /\ q.made \in 1 .. produced
  BY Bounds DEF ResultsTyped
<1>2. \A n \in 1 .. produced : n \in strings' <=> n \in strings
  BY <1>1
<1> QED
  BY <1>1, <1>2 DEF LeftOut

\* A result that is printed at once is the only one that was not shown.
LEMMA PrintKeepsOrder ==
    ASSUME Inv, PrintResult
    PROVE  ResultsInv'
<1> DEFINE new == produced + 1
<1>1. /\ produced < MaxResults /\ produced' = new
      /\ strings' \in {strings, strings \cup {new}}
      /\ quit' = quit /\ pc = "statement" /\ pc' = "run"
  BY DEF PrintResult
<1>2. /\ ResultsTyped /\ OrderKept /\ DisplayKnown /\ LostForGood /\ WaitForPages
      /\ produced \in Nat /\ MaxResults \in Nat /\ MaxPages \in Nat
  BY Bounds DEF Inv, ResultsInv, ResultsTyped
<1>3. /\ \A n \in 1 .. produced : n \in LeftOut' <=> n \in LeftOut
      /\ new \notin LeftOut'
  BY <1>1, <1>2, NewIsNotLost
<1>4. /\ \A i \in 1 .. Len(shown) : shown[i] \notin LeftOut'
      /\ \A i \in 1 .. Len(pending) : pending[i] \notin LeftOut'
  <2>1. /\ \A i \in 1 .. Len(shown) : shown[i] \in 1 .. produced
        /\ \A i \in 1 .. Len(pending) : pending[i] \in 1 .. produced
    BY <1>2 DEF ResultsTyped
  <2> QED
    BY <1>1, <1>2, <1>3, <2>1 DEF LostForGood
<1>5. /\ shown \in Seq(1 .. produced) /\ pending \in Seq(1 .. produced)
      /\ shown \in Seq(1 .. new) /\ pending \in Seq(1 .. new)
      /\ Len(shown) \in Nat /\ Len(pending) \in Nat
      /\ Len(shown) + Len(pending) <= produced
      /\ new \in 1 .. new
  <2>1. 1 .. produced \subseteq 1 .. new
    BY <1>2
  <2> QED
    BY <1>2, <2>1, SeqMonotonic DEF ResultsTyped
<1>6. /\ new \in 0 .. MaxResults /\ strings' \subseteq 1 .. new
      /\ quit' \subseteq [result : 1 .. new, made : 1 .. new]
  BY <1>1, <1>2 DEF ResultsTyped
<1>7. /\ InOrder(Append(shown \o pending, new))
      /\ ToSet(Append(shown \o pending, new)) = ToSet(shown \o pending) \cup {new}
  <2>1. shown \o pending \in Seq(1 .. produced)
    BY <1>5, ConcatProperties
  <2> QED
    BY <1>2, <2>1, OrderAppend DEF OrderKept
<1>8. ASSUME cleared' = cleared, shown' \o pending' = Append(shown \o pending, new)
      PROVE  OrderKept'
  <2>1. cleared \in 0 .. produced
    BY <1>2 DEF ResultsTyped
  <2>2. ASSUME NEW n \in cleared + 1 .. produced
        PROVE  n \in ToSet(shown' \o pending') \/ n \in LeftOut'
    <3>1. n \in 1 .. produced
      BY <1>2, <2>1
    <3> QED
      BY <1>2, <1>3, <1>7, <1>8, <3>1 DEF OrderKept
  <2>3. new \in ToSet(shown' \o pending')
    BY <1>7, <1>8
  <2>4. \A n \in cleared' + 1 .. produced' : n \in cleared + 1 .. produced \/ n = new
    BY <1>1, <1>2, <1>8, <2>1
  <2>5. InOrder(shown' \o pending')
    BY <1>7, <1>8
  <2> QED
    BY <2>2, <2>3, <2>4, <2>5 DEF OrderKept
<1>9. CASE pages > 0 /\ pending' = Append(pending, new) /\ UNCHANGED <<pages, shown, cleared>>
  <2>1. pending' \in Seq(1 .. new) /\ Len(pending') = Len(pending) + 1
    BY <1>5, <1>9
  <2>2. ResultsTyped'
    BY <1>1, <1>2, <1>5, <1>6, <1>9, <2>1 DEF ResultsTyped
  <2>3. shown' \o pending' = Append(shown \o pending, new)
    BY <1>5, <1>9, AppendMoves
  <2>4. OrderKept'
    BY <1>8, <1>9, <2>3
  <2>5. DisplayKnown'
    BY <1>1, <1>2, <1>9 DEF DisplayKnown
  <2>6. \A i \in 1 .. Len(pending') : pending'[i] = new \/ \E j \in 1 .. Len(pending) : pending'[i] = pending[j]
    BY <1>5, <1>9
  <2>7. LostForGood'
    BY <1>3, <1>4, <1>9, <2>6 DEF LostForGood
  <2> QED
    BY <2>2, <2>4, <2>5, <2>7 DEF ResultsInv
<1>10. CASE pages = 0 /\ Show(new) /\ UNCHANGED <<pending, cleared>>
  <2>1. pending = <<>> /\ pending' = <<>> /\ shown' = Append(shown, new) /\ pages' \in 0 .. MaxPages
    BY <1>1, <1>2, <1>10 DEF Show, WaitForPages
  <2>2. /\ shown' \in Seq(1 .. new) /\ Len(shown') = Len(shown) + 1 /\ shown' # <<>>
        /\ pending' \in Seq(1 .. new) /\ Len(pending') = 0
    BY <1>5, <2>1
  <2>3. ResultsTyped'
    BY <1>1, <1>2, <1>5, <1>6, <1>10, <2>1, <2>2 DEF ResultsTyped
  <2>4. shown' \o pending' = Append(shown \o pending, new)
    <3>1. shown' \o pending' = shown' /\ shown \o pending = shown
      BY <1>5, <2>1, <2>2, ConcatEmptySeq
    <3> QED
      BY <2>1, <3>1
  <2>5. OrderKept'
    BY <1>8, <1>10, <2>4
  <2>6. DisplayKnown'
    BY <1>1, <2>2 DEF DisplayKnown
  <2>7. \A i \in 1 .. Len(shown') : shown'[i] = new \/ \E j \in 1 .. Len(shown) : shown'[i] = shown[j]
    BY <1>5, <2>1
  <2>8. LostForGood'
    BY <1>3, <1>4, <2>2, <2>7 DEF LostForGood
  <2> QED
    BY <2>3, <2>5, <2>6, <2>8 DEF ResultsInv
<1>11. CASE pages = 0 /\ pages' = 0 /\ pending' = <<>> /\ cleared' = new /\ UNCHANGED shown
  <2>1. pending = <<>>
    BY <1>1, <1>2, <1>11 DEF WaitForPages
  <2>2. pending' \in Seq(1 .. new) /\ Len(pending') = 0
    BY <1>11
  <2>3. ResultsTyped'
    BY <1>1, <1>2, <1>5, <1>6, <1>11, <2>2 DEF ResultsTyped
  <2>4. OrderKept'
    <3>1. shown' \o pending' = shown \o pending
      BY <1>11, <2>1
    <3>2. cleared' + 1 .. produced' = {}
      BY <1>1, <1>2, <1>11
    <3>3. InOrder(shown \o pending)
      BY <1>2 DEF OrderKept
    <3> QED
      BY <3>1, <3>2, <3>3 DEF OrderKept
  <2>5. DisplayKnown' /\ LostForGood'
    BY <1>1, <1>4, <1>11, <2>2 DEF DisplayKnown, LostForGood
  <2> QED
    BY <2>3, <2>4, <2>5 DEF ResultsInv
<1> QED
  BY <1>1, <1>9, <1>10, <1>11, Zenon DEF PrintResult

\* The first of the results that wait is the next one to show.
LEMMA ShowPendingKeepsOrder ==
    ASSUME Inv, ShowPending
    PROVE  ResultsInv'
<1>1. /\ pending # <<>> /\ pending' = Tail(pending)
      /\ shown' = Append(shown, Head(pending))
      /\ pc = "others" /\ pc' = "others"
      /\ produced' = produced /\ strings' = strings /\ cleared' = cleared /\ quit' = quit
  BY Zenon DEF ShowPending, Show
<1>2. pages' \in 0 .. MaxPages
  BY Bounds DEF ShowPending, Show
<1>3. /\ ResultsTyped /\ OrderKept /\ LostForGood
      /\ shown \in Seq(1 .. produced) /\ pending \in Seq(1 .. produced)
      /\ Len(shown) \in Nat /\ Len(pending) \in Nat
      /\ Len(shown) + Len(pending) <= produced
  BY DEF Inv, ResultsInv, ResultsTyped
<1>4. /\ shown' \in Seq(1 .. produced) /\ Len(shown') = Len(shown) + 1 /\ shown' # <<>>
      /\ pending' \in Seq(1 .. produced) /\ Len(pending') = Len(pending) - 1
      /\ \A i \in 1 .. Len(pending') : pending'[i] = pending[i + 1]
  <2>1. /\ Head(pending) \in 1 .. produced
        /\ Tail(pending) \in Seq(1 .. produced) /\ Len(Tail(pending)) = Len(pending) - 1
        /\ \A i \in 1 .. Len(Tail(pending)) : Tail(pending)[i] = pending[i + 1]
    BY <1>1, <1>3, HeadTailProperties
  <2>2. /\ Append(shown, Head(pending)) \in Seq(1 .. produced)
        /\ Append(shown, Head(pending)) # <<>>
        /\ Len(Append(shown, Head(pending))) = Len(shown) + 1
    BY <1>3, <2>1, AppendProperties
  <2> QED
    BY <1>1, <2>1, <2>2
<1>5. ResultsTyped'
  BY <1>1, <1>2, <1>3, <1>4 DEF ResultsTyped
<1>6. shown' \o pending' = shown \o pending
  BY <1>1, <1>3, HeadMoves
<1>7. OrderKept'
  BY <1>1, <1>3, <1>6 DEF OrderKept, LeftOut
<1>8. DisplayKnown'
  BY <1>1, <1>4 DEF DisplayKnown
<1>9. LostForGood'
  <2>1. \A i \in 1 .. Len(pending) : pending[i] \notin LeftOut
    BY <1>1, <1>3 DEF LostForGood
  <2>2. /\ \A i \in 1 .. Len(shown') : \/ \E j \in 1 .. Len(shown) : shown'[i] = shown[j]
                                       \/ \E j \in 1 .. Len(pending) : shown'[i] = pending[j]
        /\ \A i \in 1 .. Len(pending') : \E j \in 1 .. Len(pending) : pending'[i] = pending[j]
    <3>1. Head(pending) = pending[1] /\ 1 \in 1 .. Len(pending)
      BY <1>1, <1>3
    <3>2. \A i \in 1 .. Len(shown') : \/ shown'[i] = Head(pending)
                                      \/ i \in 1 .. Len(shown) /\ shown'[i] = shown[i]
      BY <1>1, <1>3, <1>4, AppendProperties
    <3>3. \A i \in 1 .. Len(pending') : i + 1 \in 1 .. Len(pending) /\ pending'[i] = pending[i + 1]
      BY <1>1, <1>3, <1>4
    <3> QED
      BY <3>1, <3>2, <3>3
  <2> QED
    BY <1>1, <1>3, <2>1, <2>2 DEF LostForGood, LeftOut
<1> QED
  BY <1>5, <1>7, <1>8, <1>9 DEF ResultsInv

\* From the quit on, what is chained to the display is lost.
LEMMA PressQuitKeepsOrder ==
    ASSUME Inv, PressQuit
    PROVE  ResultsInv'
<1> DEFINE last == Last(shown)
           now == [result |-> last, made |-> produced]
<1>1. /\ pc = "page" /\ pc' = "chained" /\ quit' = quit \cup {now}
      /\ pages' = pages /\ pending' = pending /\ produced' = produced /\ strings' = strings
      /\ shown' = shown /\ cleared' = cleared
  BY DEF PressQuit
<1>2. /\ ResultsTyped /\ OrderKept /\ LostForGood /\ produced \in Nat /\ pages > 0
      /\ shown # <<>>
      /\ shown \in Seq(1 .. produced) /\ pending \in Seq(1 .. produced)
  BY <1>1, Bounds DEF Inv, ResultsInv, ResultsTyped, PagesKnown, DisplayKnown
<1>3. /\ Len(shown) \in 1 .. Len(shown) /\ last = shown[Len(shown)]
      /\ last \in 1 .. produced
  BY <1>2 DEF Last
<1>4. now \in [result : 1 .. produced, made : 1 .. produced]
  BY <1>2, <1>3
<1>5. ResultsTyped'
  BY <1>1, <1>2, <1>4 DEF ResultsTyped
<1> HIDE DEF last
<1>6. \A n : n \in LeftOut' <=> \/ n \in LeftOut
                                \/ n \in strings /\ last \in strings /\ last < n /\ n <= produced
  <2>1. now.result = last /\ now.made = produced
    OBVIOUS
  <2> HIDE DEF now
  <2> QED
    BY <1>1, <2>1 DEF LeftOut
<1>7. OrderKept'
  BY <1>1, <1>2, <1>6 DEF OrderKept
<1>8. DisplayKnown'
  BY <1>1, <1>2 DEF DisplayKnown, last
<1>9. ASSUME NEW i \in 1 .. Len(shown) PROVE ~(last < shown[i])
  <2>1. CASE i = Len(shown)
    BY <1>2, <1>3, <2>1
  <2>2. CASE i # Len(shown)
    <3>1. /\ Len(shown \o pending) = Len(shown) + Len(pending)
          /\ (shown \o pending)[i] = shown[i]
          /\ (shown \o pending)[Len(shown)] = shown[Len(shown)]
          /\ Len(shown) \in Nat /\ Len(pending) \in Nat
      BY <1>2, <1>3, ConcatProperties
    <3>2. /\ i \in 1 .. Len(shown \o pending) /\ Len(shown) \in 1 .. Len(shown \o pending)
          /\ i < Len(shown)
      BY <1>3, <2>2, <3>1
    <3>3. (shown \o pending)[i] < (shown \o pending)[Len(shown)]
      BY <1>2, <3>2, Zenon DEF OrderKept, InOrder
    <3>4. shown[i] \in 1 .. produced
      BY <1>2
    <3> QED
      BY <1>3, <3>1, <3>3, <3>4
  <2> QED
    BY <2>1, <2>2
<1>10. LostForGood'
  <2>1. \A i \in 1 .. Len(shown') : shown'[i] \notin LeftOut'
    BY <1>1, <1>2, <1>6, <1>9 DEF LostForGood
  <2>2. ASSUME NEW i \in 1 .. Len(pending'), pending'[i] \in LeftOut'
        PROVE  pc' = "chained" /\ {Last(shown'), pending'[i]} \subseteq strings'
    <3>1. pending[i] \notin LeftOut
      BY <1>1, <1>2 DEF LostForGood
    <3>2. pending[i] \in strings /\ last \in strings
      BY <1>1, <1>6, <2>2, <3>1
    <3> QED
      BY <1>1, <3>2 DEF IsChained, last
  <2> QED
    BY <2>1, <2>2 DEF LostForGood, IsChained
<1> QED
  BY <1>5, <1>7, <1>8, <1>10 DEF ResultsInv

\* DeleteChainedDisplays erases strings that wait behind a string that was quit.
LEMMA DeleteChainedKeepsOrder ==
    ASSUME Inv, DeleteChained
    PROVE  ResultsInv'
<1>1. PICK i \in Chained : pending' = RemoveAt(pending, i)
  BY DEF DeleteChained
<1>2. /\ pc = "chained" /\ pc' = "chained"
      /\ pages' = pages /\ produced' = produced /\ strings' = strings /\ shown' = shown
      /\ cleared' = cleared /\ quit' = quit
  BY DEF DeleteChained
<1>3. /\ ResultsTyped /\ OrderKept /\ DisplayKnown /\ LostForGood /\ produced \in Nat
      /\ shown # <<>>
      /\ shown \in Seq(1 .. produced) /\ pending \in Seq(1 .. produced)
      /\ Len(shown) \in Nat /\ Len(pending) \in Nat
  BY <1>2, Bounds DEF Inv, ResultsInv, ResultsTyped, PagesKnown, DisplayKnown
<1>4. i \in 1 .. Len(pending) /\ IsChained(pending[i])
  BY <1>1 DEF Chained
<1>5. /\ pending' \in Seq(1 .. produced) /\ Len(pending') = Len(pending) - 1
      /\ InOrder(shown \o pending')
      /\ ToSet(shown \o pending) = ToSet(shown \o pending') \cup {pending[i]}
      /\ \A k \in 1 .. Len(pending') : \E j \in 1 .. Len(pending) : pending'[k] = pending[j]
  <2> DEFINE S == 1 .. produced
  <2>1. /\ S \in SUBSET Nat /\ shown \in Seq(S) /\ pending \in Seq(S)
        /\ i \in 1 .. Len(pending) /\ InOrder(shown \o pending)
    BY <1>3, <1>4 DEF OrderKept
  <2> HIDE DEF S
  <2>2. /\ RemoveAt(pending, i) \in Seq(S) /\ Len(RemoveAt(pending, i)) = Len(pending) - 1
        /\ InOrder(shown \o RemoveAt(pending, i))
        /\ ToSet(shown \o pending) = ToSet(shown \o RemoveAt(pending, i)) \cup {pending[i]}
        /\ \A k \in 1 .. Len(RemoveAt(pending, i)) :
              \E j \in 1 .. Len(pending) : RemoveAt(pending, i)[k] = pending[j]
    BY <2>1, OrderRemove
  <2> QED
    BY <1>1, <2>2, Zenon DEF S
<1>6. ResultsTyped'
  BY <1>2, <1>3, <1>5 DEF ResultsTyped
<1>7. pending[i] \in LeftOut
  <2>1. Last(shown) = shown[Len(shown)] /\ Len(shown) \in 1 .. Len(shown)
    BY <1>3 DEF Last
  <2>2. Last(shown) < pending[i]
    BY <1>3, <1>4, <2>1, WaitingAreLater DEF OrderKept
  <2>3. pending[i] \in 1 .. produced
    BY <1>3, <1>4
  <2>4. /\ [result |-> Last(shown), made |-> produced] \in quit
        /\ Last(shown) \in strings /\ pending[i] \in strings
    BY <1>2, <1>3, <1>4 DEF DisplayKnown, IsChained
  <2> QED
    BY <1>3, <2>2, <2>3, <2>4 DEF LeftOut
<1>8. OrderKept'
  BY <1>2, <1>3, <1>5, <1>7 DEF OrderKept, LeftOut
<1>9. DisplayKnown'
  BY <1>2, <1>3 DEF DisplayKnown
<1>10. LostForGood'
  BY <1>2, <1>3, <1>5 DEF LostForGood, LeftOut, IsChained
<1> QED
  BY <1>6, <1>8, <1>9, <1>10 DEF ResultsInv

\* Turning a page, or leaving a display whose chained results are gone.
LEMMA PagesTurned ==
    ASSUME Inv, Forward \/ Back \/ Quit
    PROVE  ResultsInv'
<1>1. /\ ResultsTyped /\ OrderKept /\ DisplayKnown /\ LostForGood /\ MaxPages \in Nat
      /\ shown # <<>>
  BY Bounds DEF Inv, ResultsInv, ResultsTyped, PagesKnown, DisplayKnown, Forward, Back, Quit
<1>2. pages' \in 0 .. MaxPages
  BY <1>1 DEF Inv, ResultsTyped, PagesKnown, Forward, Back, Quit
<1>3. /\ pc' # "chained"
      /\ pc = "chained" => Chained = {}
      /\ pending' = pending /\ produced' = produced /\ strings' = strings /\ shown' = shown
      /\ cleared' = cleared /\ quit' = quit
  BY DEF Forward, Back, Quit
<1>4. ResultsTyped'
  BY <1>1, <1>2, <1>3 DEF ResultsTyped
<1>5. OrderKept' /\ DisplayKnown'
  BY <1>1, <1>3 DEF OrderKept, LeftOut, DisplayKnown
<1>6. LostForGood'
  BY <1>1, <1>3 DEF LostForGood, LeftOut, Chained
<1> QED
  BY <1>4, <1>5, <1>6 DEF ResultsInv

\* Results stay numbered and in order, and none but the cleared and the chained is lost.
LEMMA NextResults == Inv /\ [Next]_vars => ResultsInv'
<1> SUFFICES ASSUME Inv, [Next]_vars PROVE ResultsInv'
  OBVIOUS
<1>0. ResultsInv
  BY DEF Inv
<1>1. CASE UNCHANGED resultVars /\ (pc' = "chained" <=> pc = "chained")
  BY <1>0, <1>1, ResultsUntouched
<1>2. CASE ClearResults /\ pc' # "chained"
  BY <1>0, <1>2, ResultsCleared
<1>3. CASE PrintResult
  BY <1>3, PrintKeepsOrder
<1>4. CASE ShowPending
  BY <1>4, ShowPendingKeepsOrder
<1>5. CASE Start
  <2>1. /\ pages' = 0 /\ pending' = <<>> /\ produced' = 0 /\ strings' = {} /\ shown' = <<>>
        /\ cleared' = 0 /\ quit' = {} /\ pc' = "run"
    BY <1>5 DEF Start
  <2>2. ResultsTyped'
    BY <2>1, Bounds DEF ResultsTyped
  <2>3. OrderKept'
    <3>1. shown' \o pending' = <<>> /\ cleared' + 1 .. produced' = {}
      BY <2>1
    <3>2. InOrder(<<>>)
      BY DEF InOrder
    <3> QED
      BY <3>1, <3>2 DEF OrderKept
  <2> QED
    BY <2>1, <2>2, <2>3 DEF ResultsInv, DisplayKnown, LostForGood
<1>6. CASE Forward \/ Back \/ Quit
  BY <1>6, PagesTurned
<1>7. CASE PressQuit
  BY <1>7, PressQuitKeepsOrder
<1>8. CASE DeleteChained
  BY <1>8, DeleteChainedKeepsOrder
<1>9. \/ UNCHANGED resultVars /\ (pc' = "chained" <=> pc = "chained")
      \/ ClearResults /\ pc' # "chained"
      \/ PrintResult \/ ShowPending \/ Start \/ Forward \/ Back \/ Quit \/ PressQuit
      \/ DeleteChained
  <2>0. caller \in {"top", "ask"}
    BY DEF Inv, PromptTyped
  <2>1. CASE UNCHANGED vars
    BY <2>1, Zenon DEF vars, resultVars
  <2>2. CASE ControlC
    BY <2>2, Zenon DEF ControlC
  <2>3. CASE CancelExit \/ Exit \/ Answer
    BY <2>3 DEF CancelExit, Exit, Answer
  <2>4. ASSUME NEW line \in Line, ReadLine(line)
        PROVE  UNCHANGED resultVars /\ pc' # "chained" /\ pc # "chained"
    <3>1. pc = "getline" /\ pc' \in {"prompt", "ready"} /\ UNCHANGED resultVars
      BY <2>4, Zenon DEF ReadLine
    <3> QED
      BY <3>1
  <2>5. CASE LeavePages \/ QuitInterrupted \/ ShowPendingInterrupted
    BY <2>0, <2>5 DEF LeavePages, QuitInterrupted, ShowPendingInterrupted
  <2>6. CASE Proceed \/ DropResults \/ AskToExit \/ Prompt
    BY <2>6 DEF Proceed, DropResults, AskToExit, Prompt
  <2>7. CASE Interrupted \/ Finish
    <3>1. /\ pc \in {"run", "statement"} /\ UNCHANGED resultVars
          /\ pc' \in IF batch > 1 THEN {"ready"} ELSE IF batch = 1 THEN {"top", "exited"}
                                                    ELSE {"top"}
      BY <2>7, Zenon DEF Interrupted, Finish, End
    <3> QED
      BY <3>1
  <2>8. CASE NextStatement \/ Silent \/ ExitCommand \/ \E m \in Mode : SetPaginate(m)
    BY <2>8 DEF NextStatement, Silent, ExitCommand, SetPaginate
  <2>9. CASE CallInput \/ Ask \/ Paginate \/ OthersDone
    BY <2>0, <2>9 DEF CallInput, Ask, Paginate, OthersDone
  <2> QED
    BY <2>1, <2>2, <2>3, <2>4, <2>5, <2>6, <2>7, <2>8, <2>9, Zenon
       DEF Next, User, Console, Page
<1> QED
  BY <1>1, <1>2, <1>3, <1>4, <1>5, <1>6, <1>7, <1>8, <1>9

\* Results that wait, and pages, by the place the thread goes to.
LEMMA NextPlaces == Inv /\ [Next]_vars => WaitForPages' /\ PagesKnown'
<1> SUFFICES ASSUME PromptTyped, ResultsTyped, WaitForPages, PagesKnown, [Next]_vars
             PROVE  WaitForPages' /\ PagesKnown'
  BY DEF Inv, ResultsInv
<1> USE DEF WaitForPages, PagesKnown, resultVars
<1>0. pages \in Nat /\ caller \in {"top", "ask"}
  BY Bounds DEF ResultsTyped, PromptTyped
<1>1. CASE UNCHANGED vars
  BY <1>1 DEF vars
<1>2. CASE ControlC
  BY <1>2 DEF ControlC
<1>3. CASE CancelExit \/ Exit
  BY <1>3 DEF CancelExit, Exit, ClearResults
<1>4. ASSUME NEW line \in Line, ReadLine(line) PROVE WaitForPages' /\ PagesKnown'
  <2>1. pc = "getline" /\ pc' \in {"prompt", "ready"} /\ UNCHANGED <<pages, pending>>
    BY <1>4, Zenon DEF ReadLine
  <2> QED
    BY <2>1
<1>5. CASE Answer
  BY <1>5 DEF Answer
<1>6. CASE Proceed \/ DropResults \/ AskToExit \/ Prompt
  BY <1>0, <1>6 DEF Proceed, DropResults, AskToExit, Prompt, ClearResults
<1>7. CASE Start
  BY <1>7 DEF Start
<1>8. CASE Interrupted \/ Finish
  <2>1. /\ pc \in {"run", "statement"} /\ UNCHANGED <<pages, pending>>
        /\ pc' \in IF batch > 1 THEN {"ready"} ELSE IF batch = 1 THEN {"top", "exited"}
                                                  ELSE {"top"}
    BY <1>8, Zenon DEF Interrupted, Finish, End
  <2> QED
    BY <2>1
<1>9. CASE NextStatement \/ Silent \/ ExitCommand
  BY <1>9 DEF NextStatement, Silent, ExitCommand
<1>10. CASE PrintResult
  <2>1. /\ pc = "statement" /\ pc' = "run"
        /\ \/ pages > 0 /\ UNCHANGED pages
           \/ pages = 0 /\ UNCHANGED pending
           \/ pending' = <<>>
    BY <1>10, Zenon DEF PrintResult
  <2> QED
    BY <2>1
<1>11. ASSUME NEW m \in Mode, SetPaginate(m) PROVE WaitForPages' /\ PagesKnown'
  BY <1>11 DEF SetPaginate
<1>12. CASE CallInput \/ Ask \/ Paginate
  BY <1>0, <1>12 DEF CallInput, Ask, Paginate
<1>13. CASE ShowPending \/ ShowPendingInterrupted \/ OthersDone
  BY <1>0, <1>13 DEF ShowPending, ShowPendingInterrupted, OthersDone, ClearResults
<1>14. CASE Page
  BY <1>0, <1>14 DEF Page, Forward, Back, PressQuit, LeavePages, ClearResults
<1>15. CASE DeleteChained \/ Quit \/ QuitInterrupted
  BY <1>0, <1>15 DEF DeleteChained, Quit, QuitInterrupted, ClearResults
<1> QED
  BY <1>1, <1>2, <1>3, <1>4, <1>5, <1>6, <1>7, <1>8, <1>9, <1>10, <1>11, <1>12, <1>13,
     <1>14, <1>15 DEF Next, User, Console

-----------------------------------------------------------------------------
(* The theorems. *)

\* Inv holds in every state the console reaches.
THEOREM ConsoleInvariant == Spec => []Inv
<1>1. Init => Inv
  BY InitInv
<1>2. Inv /\ [Next]_vars => Inv'
  BY NextPromptTyped, NextFlagsTyped, NextResults, NextPlaces DEF Inv
<1> QED
  BY <1>1, <1>2, PTL DEF Spec

\* The prompt, the results and the flags keep their types: pages and results that
\* wait are counted right however commands, Ctrl-C and pages alternate.
THEOREM ConsoleTypeCorrect == Spec => []TypeOK
<1>1. Inv => TypeOK
  <2> SUFFICES ASSUME PromptTyped, ResultsTyped, FlagsTyped PROVE TypeOK
    BY DEF Inv, ResultsInv
  <2>1. {clear, flag} \subseteq BOOLEAN
    BY Zenon DEF FlagsTyped
  <2> QED
    BY <2>1, Zenon DEF TypeOK, PromptTyped, ResultsTyped
<1> QED
  BY <1>1, ConsoleInvariant, PTL

\* HandleOnPrintResult and Paginate show the results of a command in the order it made
\* them, none twice, and lose none but those HandleOnClearResults drops and the
\* strings that wait when the user quits a string (DeleteChainedDisplays).
THEOREM ResultsInOrder == Spec => []OrderKept
<1>1. Inv => OrderKept
  BY DEF Inv, ResultsInv
<1> QED
  BY <1>1, ConsoleInvariant, PTL

\* The console asks for a line only when no page is left and no result waits, and what
\* has been shown since the last clearing is all but the strings lost to a quit.
THEOREM NothingLeftAtPrompt == Spec => []AllShownAtPrompt
<1>1. Inv => AllShownAtPrompt
  <2> SUFFICES ASSUME Inv, pc \in {"getline", "answer"}
               PROVE  /\ pages = 0 /\ pending = <<>>
                      /\ \A n \in cleared + 1 .. produced : n \in ToSet(shown) <=> n \notin LeftOut
    BY DEF AllShownAtPrompt
  <2>1. pages = 0 /\ pending = <<>>
    BY DEF Inv, PagesKnown, WaitForPages
  <2>2. shown \in Seq(1 .. produced) /\ shown \o pending = shown
    BY <2>1, ConcatEmptySeq DEF Inv, ResultsInv, ResultsTyped
  <2>3. \A n \in ToSet(shown) : n \notin LeftOut
    <3>1. DOMAIN shown = 1 .. Len(shown)
      BY <2>2
    <3> QED
      BY <3>1 DEF Inv, ResultsInv, LostForGood, ToSet
  <2>4. \A n \in cleared + 1 .. produced : n \in ToSet(shown) \/ n \in LeftOut
    BY <2>2 DEF Inv, ResultsInv, OrderKept
  <2> QED
    BY <2>1, <2>3, <2>4, Zenon
<1> QED
  BY <1>1, ConsoleInvariant, PTL
=============================================================================
