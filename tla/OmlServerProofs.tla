--------------------------- MODULE OmlServerProofs ---------------------------
(* Theorems about OmlServer, for every set of programs and every bound: its    *)
(* types, that "busy" and input() have a reason, and that no interrupt stops a *)
(* later command.  The first two are inductive once it is known what a client  *)
(* believes after the messages on their way; the third needs AimedAtRunning.   *)
EXTENDS OmlServer, TLAPS, SequenceTheorems, WellFoundedInduction

UpMessage == MessageTo({"evalstring", "evalfile", "ispartialexpression"}, Text)
             \cup MessageTo({"interrupt"}, {""})
DownMessage == MessageTo({"status"}, {"busy", "ready"})
               \cup MessageTo({"userinput", "partialexpression"}, BOOLEAN)
WorkerThread == [pc : Phase, mode : {"evalstring", "evalfile"}, program : Kind \cup Unreadable]

-----------------------------------------------------------------------------
(* What the client believes after the messages s. *)

LEMMA HasFirst ==
  ASSUME NEW T, T \subseteq Nat, T # {}
  PROVE  \E i \in T : \A j \in T : i <= j
<1>1. PICK i \in T : \A j \in T : ~ (<<j, i>> \in OpToRel(<, Nat))
  BY WFMin, NatLessThanWellFounded, Zenon
<1>2. ASSUME NEW j \in T PROVE ~ (j < i)
  <2>1. i \in Nat /\ j \in Nat
    OBVIOUS
  <2> QED
    BY <1>1, <2>1, Zenon DEF OpToRel
<1>3. \A j \in T : i <= j
  BY <1>2
<1> QED
  BY <1>3

LEMMA HasLast ==
  ASSUME NEW n \in Nat, NEW T, T \subseteq 1 .. n, T # {}
  PROVE  \E i \in T : \A j \in T : j <= i
<1> DEFINE U == {n - i : i \in T}
<1>1. U \subseteq Nat /\ U # {}
  <2>1. \A i \in T : n - i \in Nat
    OBVIOUS
  <2> QED
    BY <2>1
<1>2. PICK u \in U : \A v \in U : u <= v
  BY <1>1, HasFirst
<1>3. PICK i \in T : u = n - i
  BY <1>2
<1>4. ASSUME NEW j \in T PROVE j <= i
  <2>1. n - i <= n - j
    BY <1>2, <1>3
  <2> QED
    BY <2>1
<1> QED
  BY <1>4

LEMMA ArrivingNone ==
  ASSUME NEW type, NEW s, NEW now, \A i \in 1 .. Len(s) : s[i].type # type
  PROVE  Arriving(type, s, now) = now
BY DEF Arriving

LEMMA ArrivingAt ==
  ASSUME NEW type, NEW s, NEW now, Len(s) \in Nat, NEW k \in 1 .. Len(s),
         s[k].type = type, \A i \in k + 1 .. Len(s) : s[i].type # type
  PROVE  Arriving(type, s, now) = s[k].data
<1> DEFINE at == {i \in 1 .. Len(s) : s[i].type = type}
           last == CHOOSE i \in at : \A j \in at : j <= i
<1>1. k \in at
  OBVIOUS
<1>2. \A j \in at : j <= k
  OBVIOUS
<1>3. last \in at /\ \A j \in at : j <= last
  BY <1>1, <1>2
<1>4. last = k
  <2> HIDE DEF last
  <2>1. last <= k /\ k <= last /\ last \in Nat
    BY <1>1, <1>2, <1>3
  <2> QED
    BY <2>1
<1> QED
  BY <1>1, <1>4 DEF Arriving

LEMMA ArrivingCases ==
  ASSUME NEW type, NEW s, Len(s) \in Nat
  PROVE  \/ \A i \in 1 .. Len(s) : s[i].type # type
         \/ \E k \in 1 .. Len(s) : s[k].type = type /\ \A i \in k + 1 .. Len(s) : s[i].type # type
<1> DEFINE at == {i \in 1 .. Len(s) : s[i].type = type}
<1> SUFFICES ASSUME at # {}
             PROVE  \E k \in 1 .. Len(s) : s[k].type = type
                                           /\ \A i \in k + 1 .. Len(s) : s[i].type # type
  OBVIOUS
<1>1. PICK k \in at : \A j \in at : j <= k
  <2> HIDE DEF at
  <2>1. at \subseteq 1 .. Len(s)
    BY DEF at
  <2> QED
    BY <2>1, HasLast
<1>2. ASSUME NEW i \in k + 1 .. Len(s) PROVE s[i].type # type
  <2>1. i \in 1 .. Len(s) /\ ~(i <= k)
    OBVIOUS
  <2> QED
    BY <1>1, <2>1
<1> QED
  BY <1>1, <1>2

\* A message more decides about the variable of its type and no other.
LEMMA ArrivingAppend ==
  ASSUME NEW type, NEW S, NEW s \in Seq(S), NEW now, NEW m \in S
  PROVE  Arriving(type, Append(s, m), now) =
           IF m.type = type THEN m.data ELSE Arriving(type, s, now)
<1> DEFINE t == Append(s, m)
<1>1. /\ Len(s) \in Nat /\ Len(t) = Len(s) + 1 /\ t[Len(s) + 1] = m
      /\ \A i \in 1 .. Len(s) : t[i] = s[i]
  OBVIOUS
<1> HIDE DEF t
<1>2. CASE m.type = type
  <2>1. Len(s) + 1 \in 1 .. Len(t) /\ \A i \in Len(s) + 1 + 1 .. Len(t) : t[i].type # type
    BY <1>1
  <2>2. Arriving(type, t, now) = t[Len(s) + 1].data
    BY <1>1, <1>2, <2>1, ArrivingAt
  <2> QED
    BY <1>1, <1>2, <2>2 DEF t
<1>3. CASE m.type # type
  <2>1. ASSUME \A i \in 1 .. Len(s) : s[i].type # type
        PROVE  Arriving(type, t, now) = Arriving(type, s, now)
    <3>1. \A i \in 1 .. Len(t) : t[i].type # type
      BY <1>1, <1>3, <2>1
    <3> QED
      BY <2>1, <3>1, ArrivingNone
  <2>2. ASSUME NEW k \in 1 .. Len(s), s[k].type = type,
               \A i \in k + 1 .. Len(s) : s[i].type # type
        PROVE  Arriving(type, t, now) = Arriving(type, s, now)
    <3>1. k \in 1 .. Len(t) /\ t[k] = s[k]
      BY <1>1
    <3>2. \A i \in k + 1 .. Len(t) : t[i].type # type
      BY <1>1, <1>3, <2>2
    <3> QED
      BY <1>1, <2>2, <3>1, <3>2, ArrivingAt
  <2>3. Arriving(type, t, now) = Arriving(type, s, now)
    <3>1. \/ \A i \in 1 .. Len(s) : s[i].type # type
          \/ \E k \in 1 .. Len(s) : s[k].type = type /\ \A i \in k + 1 .. Len(s) : s[i].type # type
      BY <1>1, ArrivingCases
    <3> QED
      BY <2>1, <2>2, <3>1, Zenon
  <2> QED
    BY <1>3, <2>3 DEF t
<1> QED
  BY <1>2, <1>3

\* The client may take the messages in pieces.
LEMMA ArrivingSplit ==
  ASSUME NEW type, NEW S, NEW s \in Seq(S), NEW now, NEW n \in 1 .. Len(s)
  PROVE  Arriving(type, SubSeq(s, n + 1, Len(s)), Arriving(type, SubSeq(s, 1, n), now))
           = Arriving(type, s, now)
<1> DEFINE a == SubSeq(s, 1, n)
           b == SubSeq(s, n + 1, Len(s))
<1>1. Len(s) \in Nat /\ n \in Int /\ n + 1 \in Int /\ 1 \in Int /\ Len(s) \in Int
  OBVIOUS
<1>2. (\A j \in 1 .. n : s[j] \in S) /\ (\A j \in n + 1 .. Len(s) : s[j] \in S)
  BY <1>1
<1>3. /\ Len(a) = IF 1 <= n THEN n - 1 + 1 ELSE 0
      /\ \A j \in 1 .. n - 1 + 1 : a[j] = s[1 + j - 1]
  BY <1>1, <1>2, SubSeqProperties
<1>4. /\ Len(b) = IF n + 1 <= Len(s) THEN Len(s) - (n + 1) + 1 ELSE 0
      /\ \A j \in 1 .. Len(s) - (n + 1) + 1 : b[j] = s[n + 1 + j - 1]
  BY <1>1, <1>2, SubSeqProperties
<1> HIDE DEF a, b
<1>5. Len(a) = n /\ \A j \in 1 .. n : a[j] = s[j]
  BY <1>1, <1>3
<1>6. Len(b) = Len(s) - n /\ \A j \in 1 .. Len(s) - n : b[j] = s[n + j]
  BY <1>1, <1>4
<1>7. ASSUME \A i \in 1 .. Len(s) : s[i].type # type
      PROVE  Arriving(type, b, Arriving(type, a, now)) = Arriving(type, s, now)
  <2>1. \A i \in 1 .. Len(a) : a[i].type # type
    BY <1>1, <1>5, <1>7
  <2>2. ASSUME NEW i \in 1 .. Len(b) PROVE b[i].type # type
    <3>1. i \in 1 .. Len(s) - n /\ n + i \in 1 .. Len(s)
      BY <1>1, <1>6
    <3> QED
      BY <1>6, <1>7, <3>1
  <2>3. /\ Arriving(type, a, now) = now /\ Arriving(type, b, now) = now
        /\ Arriving(type, s, now) = now
    BY <1>7, <2>1, <2>2, ArrivingNone
  <2> QED
    BY <2>3
<1>8. ASSUME NEW k \in 1 .. Len(s), s[k].type = type,
             \A i \in k + 1 .. Len(s) : s[i].type # type
      PROVE  Arriving(type, b, Arriving(type, a, now)) = Arriving(type, s, now)
  <2>1. Arriving(type, s, now) = s[k].data
    BY <1>1, <1>8, ArrivingAt
  <2>2. CASE k <= n
    <3>1. k \in 1 .. Len(a) /\ a[k] = s[k] /\ \A i \in k + 1 .. Len(a) : a[i].type # type
      BY <1>1, <1>5, <1>8, <2>2
    <3>2. Arriving(type, a, now) = s[k].data
      BY <1>1, <1>5, <1>8, <3>1, ArrivingAt
    <3>3. \A i \in 1 .. Len(b) : b[i].type # type
      BY <1>1, <1>6, <1>8, <2>2
    <3> QED
      BY <2>1, <3>2, <3>3, ArrivingNone
  <2>3. CASE ~(k <= n)
    <3>1. k - n \in 1 .. Len(b) /\ n + (k - n) = k /\ Len(b) \in Nat
      BY <1>1, <1>6, <2>3
    <3>2. b[k - n] = s[k]
      BY <1>6, <3>1
    <3>3. ASSUME NEW i \in k - n + 1 .. Len(b) PROVE b[i].type # type
      <4>1. i \in 1 .. Len(s) - n /\ n + i \in k + 1 .. Len(s)
        BY <1>1, <1>6, <2>3
      <4> QED
        BY <1>6, <1>8, <4>1
    <3>4. Arriving(type, b, Arriving(type, a, now)) = b[k - n].data
      BY <1>8, <3>1, <3>2, <3>3, ArrivingAt
    <3> QED
      BY <2>1, <3>2, <3>4
  <2> QED
    BY <2>2, <2>3
<1>9. \/ \A i \in 1 .. Len(s) : s[i].type # type
      \/ \E k \in 1 .. Len(s) : s[k].type = type /\ \A i \in k + 1 .. Len(s) : s[i].type # type
  BY <1>1, ArrivingCases
<1>10. Arriving(type, b, Arriving(type, a, now)) = Arriving(type, s, now)
  BY <1>7, <1>8, <1>9, Zenon
<1> QED
  BY <1>10, Zenon DEF a, b

-----------------------------------------------------------------------------
(* The invariant. *)

ClientTyped ==
  /\ omlInterPreterStatus \in {"notstarted", "busy", "ready"}
  /\ userInputInProgress \in BOOLEAN
  /\ awaiting \in Seq(Text)
  /\ written \in 0 .. MaxWrites

ChannelsTyped == up \in Seq(UpMessage) /\ down \in Seq(DownMessage) /\ stdin \in Nat

ServerTyped ==
  /\ accepted \in BOOLEAN
  /\ workers \in Seq(WorkerThread)
  /\ interrupt \in BOOLEAN
  /\ aimed \subseteq Nat

\* Only a program that asks waits for a line.
AskersAsk == \A w \in Worker : workers[w].pc = "asking" => workers[w].program = "asks"

\* A flag that is set was meant for every worker that could stop because of it.
AimedAtRunning ==
  interrupt => \A w \in Worker :
                 workers[w].pc \in {"running", "asking"} /\ workers[w].program \notin Unreadable
                 => w \in aimed

Inv == /\ ClientTyped /\ ChannelsTyped /\ ServerTyped
       /\ BusyHasReason /\ InputHasReason
       /\ AskersAsk /\ AimedAtRunning

\* What the client will believe when everything on its way has arrived.
StatusToCome == Arriving("status", down, omlInterPreterStatus)
InputToCome == Arriving("userinput", down, userInputInProgress)

\* The parts of Inv that speak of workers and beliefs, when the workers stay.
LEMMA BeliefsKept ==
  ASSUME Inv, UNCHANGED workers, StatusToCome' = StatusToCome, InputToCome' = InputToCome
  PROVE  BusyHasReason' /\ InputHasReason' /\ AskersAsk'
BY DEF Inv, BusyHasReason, InputHasReason, AskersAsk, Worker, StatusToCome, InputToCome

LEMMA InitInv == Init => Inv
<1> SUFFICES ASSUME Init PROVE Inv
  OBVIOUS
<1> USE DEF Init
<1>1. Worker = {} /\ Len(down) = 0 /\ 1 .. Len(down) = {}
  BY DEF Worker
<1>2. StatusToCome = "notstarted" /\ InputToCome = FALSE
  <2>1. \A i \in 1 .. Len(down) : down[i].type # "status" /\ down[i].type # "userinput"
    BY <1>1
  <2> QED
    BY <2>1, ArrivingNone DEF StatusToCome, InputToCome
<1>3. BusyHasReason /\ InputHasReason
  BY <1>2 DEF BusyHasReason, InputHasReason, StatusToCome, InputToCome
<1>4. ClientTyped
  <2>1. 0 \in 0 .. MaxWrites /\ <<>> \in Seq(Text)
    BY WritesAssumption
  <2> QED
    BY <2>1, Zenon DEF ClientTyped
<1>5. ChannelsTyped
  BY DEF ChannelsTyped
<1>6. ServerTyped
  <2>1. <<>> \in Seq(WorkerThread)
    OBVIOUS
  <2> QED
    BY <2>1, Zenon DEF ServerTyped
<1> QED
  BY <1>1, <1>3, <1>4, <1>5, <1>6 DEF Inv, AskersAsk, AimedAtRunning

-----------------------------------------------------------------------------
(* The client. *)

LEMMA WriteTyped ==
  ASSUME ClientTyped, ChannelsTyped, NEW msgs \in Seq(UpMessage), Write(msgs)
  PROVE  written' \in 0 .. MaxWrites /\ up' \in Seq(UpMessage)
<1>1. Len(msgs) \in Nat /\ written \in Nat
  BY DEF ClientTyped
<1>2. written' \in 0 .. MaxWrites
  BY <1>1, WritesAssumption DEF Write
<1>3. up' \in Seq(UpMessage)
  BY ConcatProperties DEF Write, ChannelsTyped
<1> QED
  BY <1>2, <1>3

LEMMA ClientStep == Inv /\ ClientNext => Inv'
<1> SUFFICES ASSUME Inv, ClientNext PROVE Inv'
  OBVIOUS
<1>1. UNCHANGED <<omlInterPreterStatus, userInputInProgress, down, accepted, workers, interrupt, aimed>>
  BY DEF ClientNext, Run, PressEnter, Interrupt, serverVars
<1>2. StatusToCome' = StatusToCome /\ InputToCome' = InputToCome
  BY <1>1 DEF StatusToCome, InputToCome
<1>3. ServerTyped' /\ AimedAtRunning' /\ BusyHasReason' /\ InputHasReason' /\ AskersAsk'
  BY <1>1, <1>2, BeliefsKept DEF Inv, ServerTyped, AimedAtRunning, Worker
<1>4. ClientTyped /\ ChannelsTyped
  BY DEF Inv
<1>5. awaiting' \in Seq(Text) /\ written' \in 0 .. MaxWrites /\ up' \in Seq(UpMessage) /\ stdin' \in Nat
  <2>1. ASSUME NEW p \in Program, NEW command \in {"evalstring", "evalfile"}, Run(command, p)
        PROVE  /\ awaiting' \in Seq(Text) /\ written' \in 0 .. MaxWrites
               /\ up' \in Seq(UpMessage) /\ stdin' \in Nat
    <3>0. p \in Text
      BY DEF Text
    <3>1. <<Message(command, p)>> \in Seq(UpMessage)
      <4>1. Message(command, p) \in MessageTo({"evalstring", "evalfile", "ispartialexpression"}, Text)
        BY <3>0 DEF Message, MessageTo
      <4>2. Message(command, p) \in UpMessage
        BY <4>1 DEF UpMessage
      <4> QED
        BY <4>2
    <3> QED
      BY <1>4, <2>1, <3>1, WriteTyped DEF Run, ClientTyped, ChannelsTyped
  <2>2. ASSUME NEW t \in Text, PressEnter(t)
        PROVE  /\ awaiting' \in Seq(Text) /\ written' \in 0 .. MaxWrites
               /\ up' \in Seq(UpMessage) /\ stdin' \in Nat
    <3>1. <<Message("ispartialexpression", t)>> \in Seq(UpMessage)
      BY DEF Message, UpMessage, MessageTo
    <3>2. CASE userInputInProgress
      BY <1>4, <2>2, <3>2 DEF PressEnter, ClientTyped, ChannelsTyped
    <3>3. CASE ~userInputInProgress
      <4>1. /\ awaiting' = Append(awaiting, t) /\ stdin' = stdin
            /\ Write(<<Message("ispartialexpression", t)>>)
        BY <2>2, <3>3 DEF PressEnter
      <4>2. written' \in 0 .. MaxWrites /\ up' \in Seq(UpMessage)
        BY <1>4, <3>1, <4>1, WriteTyped
      <4>3. awaiting' \in Seq(Text) /\ stdin' \in Nat
        BY <1>4, <4>1 DEF ClientTyped, ChannelsTyped
      <4> QED
        BY <4>2, <4>3
    <3> QED
      BY <3>2, <3>3
  <2>3. ASSUME Interrupt
        PROVE  /\ awaiting' \in Seq(Text) /\ written' \in 0 .. MaxWrites
               /\ up' \in Seq(UpMessage) /\ stdin' \in Nat
    <3>1. <<Message("interrupt", "")>> \in Seq(UpMessage)
      BY DEF Message, UpMessage, MessageTo
    <3> QED
      <4>1. /\ awaiting' = awaiting /\ Write(<<Message("interrupt", "")>>)
            /\ stdin' \in {stdin + 1, stdin}
        BY <2>3 DEF Interrupt
      <4>2. written' \in 0 .. MaxWrites /\ up' \in Seq(UpMessage)
        BY <1>4, <3>1, <4>1, WriteTyped
      <4>3. awaiting' \in Seq(Text) /\ stdin' \in Nat
        <5>1. awaiting \in Seq(Text) /\ stdin \in Nat
          BY <1>4 DEF ClientTyped, ChannelsTyped
        <5>2. awaiting' \in Seq(Text)
          BY <4>1, <5>1
        <5>3. stdin' = stdin + 1 \/ stdin' = stdin
          BY <4>1
        <5>4. stdin' \in Nat
          BY <5>1, <5>3
        <5> QED
          BY <5>2, <5>4
      <4> QED
        BY <4>2, <4>3
  <2> QED
    BY <2>1, <2>2, <2>3 DEF ClientNext
<1>6. ClientTyped' /\ ChannelsTyped'
  BY <1>1, <1>4, <1>5 DEF ClientTyped, ChannelsTyped
<1> QED
  BY <1>3, <1>6 DEF Inv

\* Status messages carry a status, messages about input() a truth value.
LEMMA ArrivingTyped ==
  ASSUME NEW s \in Seq(DownMessage),
         NEW status \in {"notstarted", "busy", "ready"}, NEW input \in BOOLEAN
  PROVE  /\ Arriving("status", s, status) \in {"notstarted", "busy", "ready"}
         /\ Arriving("userinput", s, input) \in BOOLEAN
<1>1. Len(s) \in Nat /\ \A i \in 1 .. Len(s) : s[i] \in DownMessage
  OBVIOUS
<1>2. Arriving("status", s, status) \in {"notstarted", "busy", "ready"}
  <2>1. CASE \A i \in 1 .. Len(s) : s[i].type # "status"
    BY <2>1, ArrivingNone
  <2>2. ASSUME NEW k \in 1 .. Len(s), s[k].type = "status",
               \A i \in k + 1 .. Len(s) : s[i].type # "status"
        PROVE  Arriving("status", s, status) \in {"notstarted", "busy", "ready"}
    <3>1. s[k].data \in {"busy", "ready"}
      BY <1>1, <2>2 DEF DownMessage, MessageTo
    <3> QED
      BY <1>1, <2>2, <3>1, ArrivingAt
  <2> QED
    BY <1>1, <2>1, <2>2, ArrivingCases
<1>3. Arriving("userinput", s, input) \in BOOLEAN
  <2>1. CASE \A i \in 1 .. Len(s) : s[i].type # "userinput"
    BY <2>1, ArrivingNone
  <2>2. ASSUME NEW k \in 1 .. Len(s), s[k].type = "userinput",
               \A i \in k + 1 .. Len(s) : s[i].type # "userinput"
        PROVE  Arriving("userinput", s, input) \in BOOLEAN
    <3>1. s[k].data \in BOOLEAN
      BY <1>1, <2>2 DEF DownMessage, MessageTo
    <3> QED
      BY <1>1, <2>2, <3>1, ArrivingAt
  <2> QED
    BY <1>1, <2>1, <2>2, ArrivingCases
<1> QED
  BY <1>2, <1>3

\* The rest of a channel from which n messages were taken.
LEMMA RestTyped ==
  ASSUME NEW S, NEW s \in Seq(S), NEW n \in 1 .. Len(s)
  PROVE  SubSeq(s, n + 1, Len(s)) \in Seq(S) /\ SubSeq(s, 1, n) \in Seq(S)
<1>1. Len(s) \in Nat /\ n \in Int /\ n + 1 \in Int /\ 1 \in Int /\ Len(s) \in Int
  OBVIOUS
<1>2. (\A j \in 1 .. n : s[j] \in S) /\ (\A j \in n + 1 .. Len(s) : s[j] \in S)
  BY <1>1
<1> QED
  BY <1>1, <1>2, SubSeqProperties

LEMMA ResolveTyped ==
  ASSUME ClientTyped, ChannelsTyped, NEW partial, Resolve(partial)
  PROVE  awaiting' \in Seq(Text) /\ written' \in 0 .. MaxWrites /\ up' \in Seq(UpMessage)
<1> DEFINE msgs == [i \in 1 .. Len(awaiting) |-> Message("evalstring", awaiting[i])]
<1>1. msgs \in Seq(UpMessage)
  <2>1. awaiting \in Seq(Text) /\ Len(awaiting) \in Nat
    BY DEF ClientTyped
  <2>2. \A i \in 1 .. Len(awaiting) : Message("evalstring", awaiting[i]) \in UpMessage
    BY <2>1 DEF Message, UpMessage, MessageTo
  <2> QED
    BY <2>1, <2>2
<1>2. awaiting' \in Seq(Text)
  BY DEF Resolve
<1>3. (written' = written /\ up' = up) \/ Write(msgs)
  BY DEF Resolve
<1>4. CASE written' = written /\ up' = up
  BY <1>2, <1>4 DEF ClientTyped, ChannelsTyped
<1>5. CASE Write(msgs)
  <2> HIDE DEF msgs
  <2> QED
    BY <1>1, <1>2, <1>5, WriteTyped
<1> QED
  BY <1>3, <1>4, <1>5

LEMMA ReceiveStep ==
  ASSUME Inv, NEW n \in 1 .. MaxMerge, Receive(n) PROVE Inv'
<1> DEFINE chunk == SubSeq(down, 1, n)
<1>1. ClientTyped /\ ChannelsTyped
  BY DEF Inv
<1>2. n \in 1 .. Len(down) /\ down \in Seq(DownMessage)
  BY <1>1, MergeAssumption DEF Receive, ChannelsTyped
<1>3. /\ omlInterPreterStatus' = Arriving("status", chunk, omlInterPreterStatus)
      /\ userInputInProgress' = Arriving("userinput", chunk, userInputInProgress)
      /\ down' = SubSeq(down, n + 1, Len(down))
      /\ UNCHANGED <<stdin, accepted, workers, interrupt, aimed>>
  BY DEF Receive, serverVars
<1>4. (awaiting' = awaiting /\ written' = written /\ up' = up) \/ \E partial : Resolve(partial)
  BY DEF Receive
<1>5. awaiting' \in Seq(Text) /\ written' \in 0 .. MaxWrites /\ up' \in Seq(UpMessage)
  BY <1>1, <1>4, ResolveTyped DEF ClientTyped, ChannelsTyped
<1>6. chunk \in Seq(DownMessage) /\ down' \in Seq(DownMessage)
  BY <1>2, <1>3, RestTyped
<1>7. StatusToCome' = StatusToCome /\ InputToCome' = InputToCome
  BY <1>2, <1>3, ArrivingSplit DEF StatusToCome, InputToCome
<1>8. ClientTyped'
  <2>1. omlInterPreterStatus \in {"notstarted", "busy", "ready"} /\ userInputInProgress \in BOOLEAN
    BY <1>1, Zenon DEF ClientTyped
  <2>2. /\ omlInterPreterStatus' \in {"notstarted", "busy", "ready"}
        /\ userInputInProgress' \in BOOLEAN
    <3> HIDE DEF chunk
    <3> QED
      BY <1>3, <1>6, <2>1, ArrivingTyped, Zenon
  <2> QED
    BY <1>5, <2>2, Zenon DEF ClientTyped
<1>9. ChannelsTyped' /\ ServerTyped' /\ AimedAtRunning'
  BY <1>1, <1>3, <1>5, <1>6 DEF Inv, ChannelsTyped, ServerTyped, AimedAtRunning, Worker
<1> QED
  BY <1>3, <1>7, <1>8, <1>9, BeliefsKept DEF Inv

-----------------------------------------------------------------------------
(* The server thread. *)

LEMMA SendBeliefs ==
  ASSUME ChannelsTyped, NEW type, NEW data, Message(type, data) \in DownMessage,
         Send(type, data), UNCHANGED <<omlInterPreterStatus, userInputInProgress>>
  PROVE  /\ down' \in Seq(DownMessage)
         /\ StatusToCome' = IF type = "status" THEN data ELSE StatusToCome
         /\ InputToCome' = IF type = "userinput" THEN data ELSE InputToCome
<1>1. down \in Seq(DownMessage) /\ down' = Append(down, Message(type, data))
  BY DEF ChannelsTyped, Send
<1>2. Message(type, data).type = type /\ Message(type, data).data = data
  BY DEF Message
<1>3. down' \in Seq(DownMessage)
  BY <1>1
<1>4. \A t, now : Arriving(t, down', now) =
        IF Message(type, data).type = t THEN Message(type, data).data ELSE Arriving(t, down, now)
  BY <1>1, ArrivingAppend
<1> QED
  BY <1>2, <1>3, <1>4 DEF StatusToCome, InputToCome

LEMMA AcceptStep == Inv /\ Accept => Inv'
<1> SUFFICES ASSUME Inv, Accept PROVE Inv'
  OBVIOUS
<1>1. /\ Send("status", "ready") /\ accepted' = TRUE
      /\ UNCHANGED <<omlInterPreterStatus, userInputInProgress, awaiting, written,
                     up, stdin, workers, interrupt, aimed>>
  BY DEF Accept, clientVars
<1>2. Message("status", "ready") \in DownMessage
  BY DEF Message, DownMessage, MessageTo
<1>3. down' \in Seq(DownMessage) /\ StatusToCome' = "ready" /\ InputToCome' = InputToCome
  BY <1>1, <1>2, SendBeliefs DEF Inv
<1>4. ClientTyped' /\ ChannelsTyped' /\ ServerTyped' /\ AimedAtRunning' /\ AskersAsk'
  BY <1>1, <1>3 DEF Inv, ClientTyped, ChannelsTyped, ServerTyped, AimedAtRunning, AskersAsk, Worker
<1>5. BusyHasReason'
  BY <1>3 DEF BusyHasReason, StatusToCome
<1>6. InputHasReason'
  BY <1>1, <1>3 DEF Inv, InputHasReason, InputToCome, Worker
<1> QED
  BY <1>4, <1>5, <1>6 DEF Inv

LEMMA EvaluateStep ==
  ASSUME Inv, NEW mode \in {"evalstring", "evalfile"}, NEW data \in Kind \cup Unreadable,
         Evaluate(mode, data),
         UNCHANGED <<omlInterPreterStatus, userInputInProgress>>
  PROVE  /\ down' \in Seq(DownMessage) /\ workers' \in Seq(WorkerThread)
         /\ BusyHasReason' /\ InputHasReason' /\ AskersAsk' /\ AimedAtRunning'
<1> DEFINE new == [pc |-> "created", mode |-> mode, program |-> data]
<1>1. /\ Send("status", "busy") /\ workers' = Append(workers, new)
      /\ UNCHANGED <<interrupt, aimed>>
  BY DEF Evaluate
<1>2. new \in WorkerThread
  BY DEF WorkerThread, Phase
<1>3. Message("status", "busy") \in DownMessage
  BY DEF Message, DownMessage, MessageTo
<1>4. down' \in Seq(DownMessage) /\ InputToCome' = InputToCome
  BY <1>1, <1>3, SendBeliefs DEF Inv
<1>5. workers \in Seq(WorkerThread) /\ Len(workers) \in Nat
  BY DEF Inv, ServerTyped
<1>6. /\ workers' \in Seq(WorkerThread) /\ Len(workers') = Len(workers) + 1
      /\ workers'[Len(workers) + 1] = new
      /\ \A w \in 1 .. Len(workers) : workers'[w] = workers[w]
  BY <1>1, <1>2, <1>5, AppendProperties
<1>7. /\ Len(workers) + 1 \in Worker' /\ Worker \subseteq Worker'
      /\ \A w \in Worker' : w = Len(workers) + 1 \/ w \in Worker
  BY <1>5, <1>6 DEF Worker
<1>8. workers'[Len(workers) + 1].pc = "created"
  BY <1>6
<1>9. \A w \in Worker : workers'[w] = workers[w]
  BY <1>6 DEF Worker
<1>10. BusyHasReason'
  BY <1>7, <1>8 DEF BusyHasReason
<1>11. InputHasReason'
  BY <1>4, <1>7, <1>9 DEF Inv, InputHasReason, InputToCome
<1>12. AskersAsk' /\ AimedAtRunning'
  BY <1>1, <1>7, <1>8, <1>9 DEF Inv, AskersAsk, AimedAtRunning
<1> QED
  BY <1>4, <1>6, <1>10, <1>11, <1>12

LEMMA RecvStep ==
  ASSUME Inv, NEW n \in 1 .. MaxMerge, Recv(n) PROVE Inv'
<1> DEFINE m == Head(up)
<1>1. ClientTyped /\ ChannelsTyped /\ ServerTyped
  BY DEF Inv
<1>2. n \in 1 .. Len(up) /\ up \in Seq(UpMessage)
  BY <1>1, MergeAssumption DEF Recv, ChannelsTyped
<1>3. m \in UpMessage
  BY <1>2
<1>4. up' \in Seq(UpMessage)
  BY <1>2, RestTyped DEF Recv
<1>5. UNCHANGED <<omlInterPreterStatus, userInputInProgress, awaiting, written, stdin, accepted>>
  BY DEF Recv, clientVars
<1>6. ClientTyped'
  BY <1>1, <1>5 DEF ClientTyped
<1>7. ASSUME m.type \in {"evalstring", "evalfile"},
             NEW data \in Argument(m, n), Evaluate(m.type, data)
      PROVE  Inv'
  <2>1. m \in [type : {"evalstring", "evalfile", "ispartialexpression"}, data : Text]
    BY <1>3, <1>7 DEF UpMessage, MessageTo
  <2>2. data \in Kind \cup Unreadable
    BY <1>7, <2>1, ProgramAssumption DEF Argument, Text, Unreadable
  <2>3. /\ down' \in Seq(DownMessage) /\ workers' \in Seq(WorkerThread)
        /\ BusyHasReason' /\ InputHasReason' /\ AskersAsk' /\ AimedAtRunning'
    BY <1>5, <1>7, <2>2, EvaluateStep
  <2>4. UNCHANGED <<interrupt, aimed>>
    BY <1>7 DEF Evaluate
  <2>5. ChannelsTyped' /\ ServerTyped'
    BY <1>1, <1>4, <1>5, <2>3, <2>4 DEF ChannelsTyped, ServerTyped
  <2> QED
    BY <1>6, <2>3, <2>5 DEF Inv
<1>8. CASE TriggerInterrupt
  <2>1. /\ UNCHANGED <<workers, down>> /\ interrupt' = TRUE
        /\ aimed' = aimed \cup {w \in Worker : workers[w].pc # "done"}
    BY <1>8 DEF TriggerInterrupt
  <2>2. StatusToCome' = StatusToCome /\ InputToCome' = InputToCome
    BY <1>5, <2>1 DEF StatusToCome, InputToCome
  <2>3. aimed' \subseteq Nat
    <3>1. Worker \subseteq Nat
      BY DEF Worker
    <3>2. aimed \subseteq Nat
      BY <1>1 DEF ServerTyped
    <3> QED
      BY <2>1, <3>1, <3>2, Zenon
  <2>4. AimedAtRunning'
    BY <2>1 DEF AimedAtRunning, Worker
  <2>5. ChannelsTyped' /\ ServerTyped'
    BY <1>1, <1>4, <1>5, <2>1, <2>3 DEF ChannelsTyped, ServerTyped
  <2> QED
    BY <1>6, <2>1, <2>2, <2>4, <2>5, BeliefsKept DEF Inv
<1>9. ASSUME NEW answers \in {BOOLEAN, {m.data = "partial"}}, ReplyPartial(answers) PROVE Inv'
  <2>1. PICK b \in BOOLEAN : Send("partialexpression", b)
    BY <1>9 DEF ReplyPartial
  <2>2. UNCHANGED <<workers, interrupt, aimed>>
    BY <1>9 DEF ReplyPartial
  <2>3. Message("partialexpression", b) \in DownMessage
    BY DEF Message, DownMessage, MessageTo
  <2>4. down' \in Seq(DownMessage) /\ StatusToCome' = StatusToCome /\ InputToCome' = InputToCome
    BY <1>1, <1>5, <2>1, <2>3, SendBeliefs
  <2>5. ChannelsTyped' /\ ServerTyped' /\ AimedAtRunning'
    BY <1>1, <1>4, <1>5, <2>2, <2>4 DEF Inv, ChannelsTyped, ServerTyped, AimedAtRunning, Worker
  <2> QED
    BY <1>6, <2>2, <2>4, <2>5, BeliefsKept DEF Inv
<1>10. \/ m.type \in {"evalstring", "evalfile"}
         /\ \E data \in Argument(m, n) : Evaluate(m.type, data)
       \/ TriggerInterrupt
       \/ \E answers \in {BOOLEAN, {m.data = "partial"}} : ReplyPartial(answers)
  BY DEF Recv
<1> QED
  BY <1>7, <1>8, <1>9, <1>10

-----------------------------------------------------------------------------
(* The workers. *)

\* One worker is at another place, the others stay where they are.
LEMMA StepEffect ==
  ASSUME ServerTyped, NEW w \in Worker, NEW from, NEW to \in Phase, Step(w, from, to)
  PROVE  /\ workers' \in Seq(WorkerThread) /\ Worker' = Worker
         /\ workers[w].pc = from /\ workers'[w].pc = to
         /\ workers'[w].program = workers[w].program
         /\ \A v \in Worker : v # w => workers'[v] = workers[v]
         /\ UNCHANGED <<omlInterPreterStatus, userInputInProgress, awaiting, written,
                        up, accepted, aimed>>
<1>1. /\ workers \in Seq(WorkerThread) /\ w \in 1 .. Len(workers)
      /\ workers[w] \in WorkerThread
  BY DEF ServerTyped, Worker
<1>2. workers' = [workers EXCEPT ![w] = [workers[w] EXCEPT !.pc = to]]
  BY DEF Step
<1>3. [workers[w] EXCEPT !.pc = to] \in WorkerThread
  BY <1>1 DEF WorkerThread
<1>4. /\ workers' \in Seq(WorkerThread) /\ Len(workers') = Len(workers)
      /\ workers'[w] = [workers[w] EXCEPT !.pc = to]
      /\ \A v \in 1 .. Len(workers) : v # w => workers'[v] = workers[v]
  BY <1>1, <1>2, <1>3
<1>5. workers'[w].pc = to /\ workers'[w].program = workers[w].program
  BY <1>1, <1>4 DEF WorkerThread
<1> QED
  BY <1>4, <1>5 DEF Step, Worker, clientVars

\* A step of a worker that says nothing and neither begins nor ends to ask.
LEMMA QuietStep ==
  ASSUME Inv, NEW w \in Worker, NEW from \in Phase, NEW to \in Phase \ {"done"}, Step(w, from, to),
         from # "asking", to # "asking", to = "running" => ~interrupt' \/ workers[w].program \in Unreadable,
         UNCHANGED <<down, stdin>>, interrupt' \in BOOLEAN, interrupt' => interrupt
  PROVE  Inv'
<1>1. /\ workers' \in Seq(WorkerThread) /\ Worker' = Worker
      /\ workers[w].pc = from /\ workers'[w].pc = to
      /\ workers'[w].program = workers[w].program
      /\ \A v \in Worker : v # w => workers'[v] = workers[v]
      /\ UNCHANGED <<omlInterPreterStatus, userInputInProgress, awaiting, written,
                     up, accepted, aimed>>
  BY StepEffect DEF Inv
<1>2. StatusToCome' = StatusToCome /\ InputToCome' = InputToCome
  BY <1>1 DEF StatusToCome, InputToCome
<1>3. ClientTyped' /\ ChannelsTyped' /\ ServerTyped'
  BY <1>1 DEF Inv, ClientTyped, ChannelsTyped, ServerTyped
<1>4. BusyHasReason'
  BY <1>1, <1>2 DEF Inv, BusyHasReason, StatusToCome
<1>5. InputHasReason'
  BY <1>1, <1>2 DEF Inv, InputHasReason, InputToCome
<1>6. AskersAsk'
  BY <1>1 DEF Inv, AskersAsk
<1>7. AimedAtRunning'
  BY <1>1 DEF Inv, AimedAtRunning
<1> QED
  BY <1>3, <1>4, <1>5, <1>6, <1>7 DEF Inv

LEMMA QuietSteps ==
  ASSUME Inv, NEW w \in Worker, Begin(w) \/ Finish(w) \/ Stop(w) \/ End(w)
  PROVE  Inv'
<1>0. interrupt \in BOOLEAN
  BY Zenon DEF Inv, ServerTyped
<1>1. CASE Begin(w)
  <2>1. /\ Step(w, "created", "running") /\ UNCHANGED <<down, stdin>>
        /\ interrupt' \in BOOLEAN /\ (interrupt' => interrupt)
        /\ (~interrupt' \/ workers[w].program \in Unreadable)
    BY <1>0, <1>1, Zenon DEF Begin
  <2> QED
    BY <2>1, QuietStep DEF Phase
<1>2. CASE Finish(w) \/ Stop(w)
  <2>1. /\ Step(w, "running", "ran") /\ UNCHANGED <<down, stdin, interrupt>>
    BY <1>2 DEF Finish, Stop
  <2> QED
    BY <1>0, <2>1, QuietStep DEF Phase
<1>3. CASE End(w)
  <2>1. /\ Step(w, "ran", "status") /\ UNCHANGED <<down, stdin>>
        /\ interrupt' \in BOOLEAN /\ (interrupt' => interrupt)
    BY <1>0, <1>3, Zenon DEF End
  <2> QED
    BY <2>1, QuietStep DEF Phase
<1> QED
  BY <1>1, <1>2, <1>3

LEMMA AskUserStep ==
  ASSUME Inv, NEW w \in Worker, AskUser(w) PROVE Inv'
<1>1. /\ workers' \in Seq(WorkerThread) /\ Worker' = Worker
      /\ workers[w].pc = "running" /\ workers'[w].pc = "asking"
      /\ workers'[w].program = workers[w].program
      /\ \A v \in Worker : v # w => workers'[v] = workers[v]
      /\ UNCHANGED <<omlInterPreterStatus, userInputInProgress, awaiting, written,
                     up, accepted, aimed>>
  BY StepEffect DEF Inv, AskUser, Phase
<1>2. workers[w].program = "asks" /\ Send("userinput", TRUE) /\ UNCHANGED <<stdin, interrupt>>
  BY DEF AskUser
<1>3. Message("userinput", TRUE) \in DownMessage
  BY DEF Message, DownMessage, MessageTo
<1>4. down' \in Seq(DownMessage) /\ StatusToCome' = StatusToCome
  BY <1>1, <1>2, <1>3, SendBeliefs DEF Inv
<1>5. ClientTyped' /\ ChannelsTyped' /\ ServerTyped'
  BY <1>1, <1>2, <1>4 DEF Inv, ClientTyped, ChannelsTyped, ServerTyped
<1>6. BusyHasReason'
  BY <1>1, <1>4 DEF Inv, BusyHasReason, StatusToCome
<1>7. InputHasReason'
  BY <1>1 DEF InputHasReason
<1>8. AskersAsk' /\ AimedAtRunning'
  BY <1>1, <1>2 DEF Inv, AskersAsk, AimedAtRunning
<1> QED
  BY <1>5, <1>6, <1>7, <1>8 DEF Inv

LEMMA GetLineStep ==
  ASSUME Inv, NEW w \in Worker, GetLine(w) PROVE Inv'
<1>1. /\ workers \in Seq(WorkerThread) /\ w \in 1 .. Len(workers)
      /\ workers[w] \in WorkerThread
  BY DEF Inv, ServerTyped, Worker
<1> DEFINE new == [workers[w] EXCEPT !.pc = "running", !.program = "ends"]
<1>2. workers[w].pc = "asking" /\ workers' = [workers EXCEPT ![w] = new]
  BY <1>1 DEF GetLine
<1>3. new \in WorkerThread /\ new.pc = "running" /\ new.program = "ends"
  BY <1>1 DEF WorkerThread, Phase, Kind
<1>4. /\ workers' \in Seq(WorkerThread) /\ Worker' = Worker /\ workers'[w] = new
      /\ \A v \in Worker : v # w => workers'[v] = workers[v]
  <2> HIDE DEF new
  <2> QED
    BY <1>1, <1>2, <1>3 DEF Worker
<1> HIDE DEF new
<1>5. /\ Send("userinput", FALSE) /\ stdin > 0 /\ stdin' = stdin - 1
      /\ UNCHANGED <<omlInterPreterStatus, userInputInProgress, awaiting, written,
                     up, accepted, interrupt, aimed>>
  BY DEF GetLine, clientVars
<1>6. Message("userinput", FALSE) \in DownMessage
  BY DEF Message, DownMessage, MessageTo
<1>7. down' \in Seq(DownMessage) /\ StatusToCome' = StatusToCome /\ InputToCome' = FALSE
  BY <1>5, <1>6, SendBeliefs DEF Inv
<1>8. ClientTyped'
  BY <1>5 DEF Inv, ClientTyped
<1>9. ChannelsTyped'
  BY <1>5, <1>7 DEF Inv, ChannelsTyped
<1>10. ServerTyped'
  BY <1>4, <1>5 DEF Inv, ServerTyped
<1>11. BusyHasReason'
  BY <1>3, <1>4, <1>7 DEF Inv, BusyHasReason, StatusToCome
<1>12. InputHasReason'
  BY <1>7 DEF InputHasReason, InputToCome
<1>13. AskersAsk'
  BY <1>3, <1>4 DEF Inv, AskersAsk
<1>14. AimedAtRunning'
  <2>1. interrupt => w \in aimed
    BY <1>2 DEF Inv, AskersAsk, AimedAtRunning, Unreadable
  <2> QED
    BY <1>4, <1>5, <2>1 DEF Inv, AimedAtRunning
<1> QED
  BY <1>8, <1>9, <1>10, <1>11, <1>12, <1>13, <1>14 DEF Inv

LEMMA SendReadyStep ==
  ASSUME Inv, NEW w \in Worker, SendReady(w) PROVE Inv'
<1>1. /\ workers' \in Seq(WorkerThread) /\ Worker' = Worker
      /\ workers[w].pc = "status" /\ workers'[w].pc = "done"
      /\ workers'[w].program = workers[w].program
      /\ \A v \in Worker : v # w => workers'[v] = workers[v]
      /\ UNCHANGED <<omlInterPreterStatus, userInputInProgress, awaiting, written,
                     up, accepted, aimed>>
  BY StepEffect DEF Inv, SendReady, Phase
<1>2. Send("status", "ready") /\ UNCHANGED <<stdin, interrupt>>
  BY DEF SendReady
<1>3. Message("status", "ready") \in DownMessage
  BY DEF Message, DownMessage, MessageTo
<1>4. down' \in Seq(DownMessage) /\ StatusToCome' = "ready" /\ InputToCome' = InputToCome
  BY <1>1, <1>2, <1>3, SendBeliefs DEF Inv
<1>5. ClientTyped' /\ ChannelsTyped' /\ ServerTyped'
  BY <1>1, <1>2, <1>4 DEF Inv, ClientTyped, ChannelsTyped, ServerTyped
<1>6. BusyHasReason'
  BY <1>4 DEF BusyHasReason, StatusToCome
<1>7. InputHasReason'
  BY <1>1, <1>4 DEF Inv, InputHasReason, InputToCome
<1>8. AskersAsk' /\ AimedAtRunning'
  BY <1>1, <1>2 DEF Inv, AskersAsk, AimedAtRunning
<1> QED
  BY <1>5, <1>6, <1>7, <1>8 DEF Inv

-----------------------------------------------------------------------------
(* The theorems. *)

LEMMA ServerStep == Inv /\ [Next]_vars => Inv'
<1> SUFFICES ASSUME Inv, [Next]_vars PROVE Inv'
  OBVIOUS
<1>1. CASE ClientNext
  BY <1>1, ClientStep
<1>2. ASSUME NEW n \in 1 .. MaxMerge, Receive(n) \/ Recv(n) PROVE Inv'
  BY <1>2, ReceiveStep, RecvStep
<1>3. CASE Accept
  BY <1>3, AcceptStep
<1>4. ASSUME NEW w \in Worker, WorkerStep(w) PROVE Inv'
  BY <1>4, QuietSteps, AskUserStep, GetLineStep, SendReadyStep DEF WorkerStep
<1>5. CASE UNCHANGED vars
  <2>1. UNCHANGED <<omlInterPreterStatus, userInputInProgress, awaiting, written,
                    accepted, workers, interrupt, aimed, up, down, stdin>>
    BY <1>5 DEF vars, clientVars, serverVars
  <2> QED
    BY <2>1 DEF Inv, ClientTyped, ChannelsTyped, ServerTyped, BusyHasReason, InputHasReason,
                AskersAsk, AimedAtRunning, Worker
<1> QED
  BY <1>1, <1>2, <1>3, <1>4, <1>5 DEF Next

\* Inv holds in every state of client, server and workers.
THEOREM ServerInvariant == Spec => []Inv
BY InitInv, ServerStep, PTL DEF Spec

\* The messages on both channels, the workers and the flag keep their types, however
\* recv mixes the messages.
THEOREM ServerTypeCorrect == Spec => []TypeOK
<1>1. Inv => TypeOK
  BY Zenon DEF Inv, ClientTyped, ChannelsTyped, ServerTyped, TypeOK, UpMessage, DownMessage, WorkerThread
<1> QED
  BY <1>1, ServerInvariant, PTL

\* "busy" is answered: SendReady is still to come from a worker.
THEOREM BusyIsAnswered == Spec => []BusyHasReason
<1>1. Inv => BusyHasReason
  BY DEF Inv
<1> QED
  BY <1>1, ServerInvariant, PTL

\* A command window that takes lines for input() has a worker that asks.
THEOREM InputIsAsked == Spec => []InputHasReason
<1>1. Inv => InputHasReason
  BY DEF Inv
<1> QED
  BY <1>1, ServerInvariant, PTL

\* The interrupt flag stops no program that began after the interrupt.
THEOREM InterruptsAreAimed == Spec => NoStaleInterrupt
<1>1. Inv /\ [Next]_vars => [\A w \in Worker : Stop(w) => w \in aimed]_vars
  BY DEF Inv, AimedAtRunning, Stop, Step
<1> QED
  BY <1>1, ServerInvariant, PTL DEF Spec, NoStaleInterrupt
=============================================================================
