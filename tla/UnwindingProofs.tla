--------------------------- MODULE UnwindingProofs ---------------------------
(***************************************************************************)
(* After any error that is caught, code runs in its own scope with its own *)
(* argument counts, for every depth of calls, handlers and scopes, as long *)
(* as every callback of a builtin restores what it marked.                 *)
(***************************************************************************)
EXTENDS Unwinding, ScopePoolProofs

Whole == {"run", "host"}
Counted == {"user", "builtin"}

\* What a frame of kind k pushes.
Scopes(k) == IF k = "user" THEN 1 ELSE 0
Counts(k) == IF k \in Counted THEN 1 ELSE 0
Marks(k) == IF k \in Handler THEN 1 ELSE 0

\* Frame b began above what frame a had.
Inside(a, b) ==
    /\ b.kind \notin Whole
    /\ a.depth + Scopes(b.kind) <= b.depth
    /\ a.entries + Counts(b.kind) <= b.entries
    /\ a.names + Scopes(b.kind) <= b.names
    /\ a.mark + Marks(b.kind) <= b.mark

NoHandler(s, i, j) == \A k \in i .. j : s[k].kind \notin Handler

\* The frames of calls s grow with the interpreter's stacks: each kind adds what it
\* pushes, to the scopes of the frame before and to the marks of the handler before.
Nested(s) ==
    \A i, j \in 1 .. Len(s) : i < j =>
        /\ Inside(s[i], s[j])
        /\ j = i + 1 => s[j].depth = s[i].depth + Scopes(s[j].kind)
        /\ NoHandler(s, i + 1, j - 1) => s[j].mark = s[i].mark + Marks(s[j].kind)

\* The outermost frame is a command, and begins at the base.
BeginsAtBase(s) == s # <<>> => s[1].kind \in Whole /\ s[1].depth = 1

Guarded(s) == \A i \in 1 .. Len(s) : s[i].kind # "unguarded"

CallsTyped(s) == s \in Seq(Frame)

\* What the interpreter's stacks hold for the frames of s: its scope for each, its
\* mark for each handler, and the counts and the name of each call.
Held(s, stack, ms, size, nargin, names) ==
    \A i \in 1 .. Len(s) :
        /\ s[i].depth \in 1 .. Len(stack) /\ stack[s[i].depth] = s[i].cell
        /\ s[i].kind \in Handler =>
              /\ s[i].mark \in 1 .. Len(ms) /\ ms[s[i].mark] = s[i].cell
              /\ s[i].entries <= size
        /\ s[i].entries <= Len(nargin) /\ s[i].names <= Len(names)
        /\ s[i].kind \in Counted => s[i].entries > 0 /\ nargin[s[i].entries] = s[i].argc
        /\ s[i].kind = "user" => s[i].names > 0 /\ names[s[i].names] = s[i].fn

\* The innermost frame began with the scopes and marks there are.
AtTop(s, stack, ms) ==
    IF s = <<>> THEN Len(stack) = 1
    ELSE s[Len(s)].depth = Len(stack) /\ s[Len(s)].mark = Len(ms)

StacksTyped ==
    /\ marks \in Seq(PoolCell)
    /\ mark_narg_size \in Nat
    /\ nargin_values \in Seq(Argc)
    /\ user_func_calls \in Seq(Function)

CallsInv ==
    /\ CallsTyped(calls) /\ Nested(calls) /\ BeginsAtBase(calls) /\ Guarded(calls)
    /\ Held(calls, memory_stack, marks, mark_narg_size, nargin_values, user_func_calls)
    /\ AtTop(calls, memory_stack, marks)

UnwindInv == PoolInv /\ StacksTyped /\ CallsInv /\ Base = 0

------------------------------------------------------------------------------
(* Sequences. *)

\* What Append does to a sequence.
LEMMA AppendIs ==
    ASSUME NEW S, NEW s \in Seq(S), NEW e \in S
    PROVE  /\ Append(s, e) \in Seq(S)
           /\ Len(Append(s, e)) = Len(s) + 1
           /\ Append(s, e)[Len(s) + 1] = e
           /\ \A i \in 1 .. Len(s) : Append(s, e)[i] = s[i]
OBVIOUS

\* What the beginning of a sequence is.
LEMMA PrefixIs ==
    ASSUME NEW S, NEW s \in Seq(S), NEW n \in 0 .. Len(s)
    PROVE  /\ SubSeq(s, 1, n) \in Seq(S)
           /\ Len(SubSeq(s, 1, n)) = n
           /\ \A i \in 1 .. n : SubSeq(s, 1, n)[i] = s[i]
OBVIOUS

\* What Popped leaves.
LEMMA PoppedIs ==
    ASSUME NEW S, NEW s \in Seq(S)
    PROVE  /\ Popped(s) \in Seq(S)
           /\ s # <<>> => Len(s) > 0 /\ Len(Popped(s)) = Len(s) - 1
           /\ \A i \in 1 .. Len(s) - 1 : Popped(s)[i] = s[i]
<1>1. CASE s = <<>>
  BY <1>1 DEF Popped
<1>2. CASE s # <<>>
  <2>1. Len(s) \in Nat /\ Len(s) > 0
    BY <1>2
  <2>2. Len(s) - 1 \in 0 .. Len(s)
    BY <2>1
  <2>3. Popped(s) = SubSeq(s, 1, Len(s) - 1)
    BY <1>2 DEF Popped, Front
  <2> QED
    BY <2>1, <2>2, <2>3, PrefixIs
<1> QED
  BY <1>1, <1>2

\* A number of frames that is neither none nor one.
LEMMA MoreThanOne ==
    ASSUME NEW m \in Nat, m > 0, m # 1
    PROVE  1 \in 1 .. m /\ 1 < m
OBVIOUS

\* What a frame pushes is one or nothing.
LEMMA Pushes == \A k : Scopes(k) \in {0, 1} /\ Counts(k) \in {0, 1} /\ Marks(k) \in {0, 1}
BY DEF Scopes, Counts, Marks

\* A frame has the fields of a frame.
LEMMA FrameFields ==
    ASSUME NEW s, CallsTyped(s), NEW i \in 1 .. Len(s)
    PROVE  /\ s[i] \in Frame
           /\ s[i].kind \in Kind /\ s[i].fn \in Function \cup {NULL}
           /\ s[i].argc \in Nat /\ s[i].cell \in PoolCell
           /\ s[i].depth \in Nat /\ s[i].entries \in Nat
           /\ s[i].names \in Nat /\ s[i].mark \in Nat
<1>1. s[i] \in Frame
  BY DEF CallsTyped
<1> QED
  BY <1>1 DEF Frame

------------------------------------------------------------------------------
(* Frames come and go. *)

\* The frames below the top are nested like all.
LEMMA PrefixNested ==
    ASSUME CallsInv, NEW n \in 0 .. Len(calls), NEW s, s = SubSeq(calls, 1, n)
    PROVE  CallsTyped(s) /\ Nested(s) /\ BeginsAtBase(s) /\ Guarded(s)
           /\ Len(s) = n /\ (\A i \in 1 .. n : s[i] = calls[i])
<1>1. calls \in Seq(Frame) /\ Len(calls) \in Nat
  BY DEF CallsInv, CallsTyped
<1>2. s \in Seq(Frame) /\ Len(s) = n /\ \A i \in 1 .. n : s[i] = calls[i]
  BY <1>1, PrefixIs
<1>3. Nested(s)
  <2> SUFFICES ASSUME NEW i \in 1 .. n, NEW j \in 1 .. n, i < j
               PROVE  /\ Inside(s[i], s[j])
                      /\ j = i + 1 => s[j].depth = s[i].depth + Scopes(s[j].kind)
                      /\ NoHandler(s, i + 1, j - 1) =>
                            s[j].mark = s[i].mark + Marks(s[j].kind)
    BY <1>2 DEF Nested
  <2>1. s[i] = calls[i] /\ s[j] = calls[j] /\ i \in 1 .. Len(calls) /\ j \in 1 .. Len(calls)
    BY <1>1, <1>2
  <2>2. NoHandler(s, i + 1, j - 1) => NoHandler(calls, i + 1, j - 1)
    BY <1>2 DEF NoHandler
  <2> QED
    BY <2>1, <2>2 DEF Nested, CallsInv
<1>4. BeginsAtBase(s)
  <2>1. s # <<>> => 1 \in 1 .. n /\ calls # <<>>
    BY <1>1, <1>2
  <2> QED
    BY <1>2, <2>1 DEF CallsInv, BeginsAtBase
<1>5. Guarded(s)
  BY <1>1, <1>2 DEF CallsInv, Guarded
<1> QED
  BY <1>2, <1>3, <1>4, <1>5 DEF CallsTyped

\* A frame e that begins above the top of s.
Above(s, e) ==
    \A i \in 1 .. Len(s) :
        /\ Inside(s[i], e)
        /\ i = Len(s) => e.depth = s[i].depth + Scopes(e.kind)
        /\ NoHandler(s, i + 1, Len(s)) => e.mark = s[i].mark + Marks(e.kind)

\* Such a frame may be pushed.
LEMMA PushNested ==
    ASSUME NEW s, CallsTyped(s), Nested(s), BeginsAtBase(s), Guarded(s),
           NEW e \in Frame, e.kind # "unguarded", Above(s, e),
           s = <<>> => e.kind \in Whole /\ e.depth = 1,
           NEW t, t = Append(s, e)
    PROVE  CallsTyped(t) /\ Nested(t) /\ BeginsAtBase(t) /\ Guarded(t)
<1>1. s \in Seq(Frame) /\ Len(s) \in Nat
  BY DEF CallsTyped
<1>2. /\ t \in Seq(Frame) /\ Len(t) = Len(s) + 1 /\ t[Len(s) + 1] = e
      /\ \A i \in 1 .. Len(s) : t[i] = s[i]
  BY <1>1, AppendIs
<1>3. Nested(t)
  <2> SUFFICES ASSUME NEW i \in 1 .. Len(t), NEW j \in 1 .. Len(t), i < j
               PROVE  /\ Inside(t[i], t[j])
                      /\ j = i + 1 => t[j].depth = t[i].depth + Scopes(t[j].kind)
                      /\ NoHandler(t, i + 1, j - 1) =>
                            t[j].mark = t[i].mark + Marks(t[j].kind)
    BY DEF Nested
  <2>1. i \in 1 .. Len(s) /\ t[i] = s[i]
    BY <1>1, <1>2
  <2>2. NoHandler(t, i + 1, j - 1) => NoHandler(s, i + 1, j - 1)
    BY <1>1, <1>2 DEF NoHandler
  <2>3. CASE j = Len(t)
    <3>1. t[j] = e /\ j - 1 = Len(s)
      BY <1>1, <1>2, <2>3
    <3>2. j = i + 1 => i = Len(s)
      BY <1>1, <1>2, <2>3
    <3> QED
      BY <2>1, <2>2, <3>1, <3>2 DEF Above
  <2>4. CASE j # Len(t)
    <3>1. j \in 1 .. Len(s) /\ t[j] = s[j]
      BY <1>1, <1>2, <2>4
    <3> QED
      BY <2>1, <2>2, <3>1 DEF Nested
  <2> QED
    BY <2>3, <2>4
<1>4. BeginsAtBase(t)
  <2>1. CASE s = <<>>
    BY <1>2, <2>1 DEF BeginsAtBase
  <2>2. CASE s # <<>>
    <3>1. 1 \in 1 .. Len(s)
      BY <1>1, <2>2
    <3> QED
      BY <1>2, <2>2, <3>1 DEF BeginsAtBase
  <2> QED
    BY <2>1, <2>2
<1>5. Guarded(t)
  BY <1>1, <1>2 DEF Guarded
<1> QED
  BY <1>2, <1>3, <1>4, <1>5 DEF CallsTyped

------------------------------------------------------------------------------
(* The stacks that go with the frames. *)

\* All frames began at or below the top of the scopes and of the marks, and with the
\* marks there are if no handler came since.
LEMMA TopBounds ==
    ASSUME CallsInv, NEW i \in 1 .. Len(calls)
    PROVE  /\ calls[i].depth <= Depth /\ calls[i].mark <= Len(marks)
           /\ i = Len(calls) => calls[i].depth = Depth
           /\ NoHandler(calls, i + 1, Len(calls)) => calls[i].mark = Len(marks)
<1> DEFINE top == Len(calls)
<1>1. calls # <<>> /\ top \in 1 .. Len(calls) /\ calls \in Seq(Frame)
  BY DEF CallsInv, CallsTyped
<1>2. calls[top].depth = Depth /\ calls[top].mark = Len(marks)
  BY <1>1 DEF CallsInv, AtTop, Depth
<1>3. CASE i = top
  BY <1>1, <1>2, <1>3, FrameFields DEF CallsInv
<1>4. CASE i < top
  <2>1. /\ Inside(calls[i], calls[top])
        /\ NoHandler(calls, i + 1, top - 1) =>
              calls[top].mark = calls[i].mark + Marks(calls[top].kind)
    BY <1>1, <1>4 DEF CallsInv, Nested
  <2>2. /\ calls[i].depth \in Nat /\ calls[i].mark \in Nat
        /\ calls[top].depth \in Nat /\ calls[top].mark \in Nat
    BY <1>1, FrameFields DEF CallsInv
  <2>3. NoHandler(calls, i + 1, top) =>
            NoHandler(calls, i + 1, top - 1) /\ calls[top].kind \notin Handler
    BY <1>1, <1>4 DEF NoHandler
  <2> QED
    BY <1>2, <1>4, <2>1, <2>2, <2>3, Pushes DEF Inside, Marks
<1> QED
  BY <1>1, <1>3, <1>4

Agree(t, s) == \A k \in 1 .. Len(t) : k <= Len(s) => t[k] = s[k]

\* What the stacks may become while n frames stay: as long as they keep what the
\* frames refer to.
LEMMA HeldBy ==
    ASSUME CallsInv, NEW n \in 0 .. Len(calls), NEW s, s = SubSeq(calls, 1, n),
           NEW stack, NEW ms, NEW size, NEW nargin, NEW names,
           Len(stack) \in Nat, Len(ms) \in Nat, Len(nargin) \in Nat, Len(names) \in Nat,
           Len(memory_stack) \in Nat, Len(marks) \in Nat,
           Len(nargin_values) \in Nat, Len(user_func_calls) \in Nat,
           Agree(stack, memory_stack), Agree(ms, marks),
           Agree(nargin, nargin_values), Agree(names, user_func_calls),
           \A i \in 1 .. n :
              /\ calls[i].depth <= Len(stack)
              /\ calls[i].kind \in Handler => calls[i].mark <= Len(ms) /\ calls[i].entries <= size
              /\ calls[i].entries <= Len(nargin) /\ calls[i].names <= Len(names)
    PROVE  Held(s, stack, ms, size, nargin, names)
<1>1. Len(s) = n /\ \A i \in 1 .. n : s[i] = calls[i]
  BY PrefixNested
<1>2. Len(calls) \in Nat
  BY DEF CallsInv, CallsTyped
<1> SUFFICES ASSUME NEW i \in 1 .. n
    PROVE
        /\ s[i].depth \in 1 .. Len(stack) /\ stack[s[i].depth] = s[i].cell
        /\ s[i].kind \in Handler =>
              /\ s[i].mark \in 1 .. Len(ms) /\ ms[s[i].mark] = s[i].cell
              /\ s[i].entries <= size
        /\ s[i].entries <= Len(nargin) /\ s[i].names <= Len(names)
        /\ s[i].kind \in Counted => s[i].entries > 0 /\ nargin[s[i].entries] = s[i].argc
        /\ s[i].kind = "user" => s[i].names > 0 /\ names[s[i].names] = s[i].fn
  BY <1>1 DEF Held
<1>3. s[i] = calls[i] /\ i \in 1 .. Len(calls)
  BY <1>1, <1>2
<1>4. calls[i].entries \in Nat /\ calls[i].names \in Nat
  BY <1>3, FrameFields DEF CallsInv
<1>5. /\ calls[i].depth \in 1 .. Len(memory_stack) /\ memory_stack[calls[i].depth] = calls[i].cell
      /\ calls[i].kind \in Handler =>
            calls[i].mark \in 1 .. Len(marks) /\ marks[calls[i].mark] = calls[i].cell
      /\ calls[i].entries <= Len(nargin_values) /\ calls[i].names <= Len(user_func_calls)
      /\ calls[i].kind \in Counted =>
            calls[i].entries > 0 /\ nargin_values[calls[i].entries] = calls[i].argc
      /\ calls[i].kind = "user" =>
            calls[i].names > 0 /\ user_func_calls[calls[i].names] = calls[i].fn
  BY <1>3 DEF CallsInv, Held
<1>6. s[i].depth \in 1 .. Len(stack) /\ stack[s[i].depth] = s[i].cell
  BY <1>3, <1>5 DEF Agree
<1>7. s[i].kind \in Handler =>
        s[i].mark \in 1 .. Len(ms) /\ ms[s[i].mark] = s[i].cell /\ s[i].entries <= size
  BY <1>3, <1>5 DEF Agree
<1>8. s[i].entries <= Len(nargin) /\ s[i].names <= Len(names)
  BY <1>3
<1>9. s[i].kind \in Counted => s[i].entries > 0 /\ nargin[s[i].entries] = s[i].argc
  BY <1>3, <1>4, <1>5 DEF Agree
<1>10. s[i].kind = "user" => s[i].names > 0 /\ names[s[i].names] = s[i].fn
  BY <1>3, <1>4, <1>5 DEF Agree
<1> QED
  BY <1>6, <1>7, <1>8, <1>9, <1>10

\* The frame on top of them, with what it refers to.
LEMMA PushHeld ==
    ASSUME NEW s, CallsTyped(s), NEW e \in Frame, NEW t, t = Append(s, e),
           NEW stack, NEW ms, NEW size, NEW nargin, NEW names,
           Held(s, stack, ms, size, nargin, names),
           e.depth \in 1 .. Len(stack) /\ stack[e.depth] = e.cell,
           e.kind \in Handler =>
              e.mark \in 1 .. Len(ms) /\ ms[e.mark] = e.cell /\ e.entries <= size,
           e.entries <= Len(nargin) /\ e.names <= Len(names),
           e.kind \in Counted => e.entries > 0 /\ nargin[e.entries] = e.argc,
           e.kind = "user" => e.names > 0 /\ names[e.names] = e.fn,
           e.depth = Len(stack), e.mark = Len(ms)
    PROVE  Held(t, stack, ms, size, nargin, names) /\ AtTop(t, stack, ms)
<1>1. /\ Len(s) \in Nat /\ Len(t) = Len(s) + 1 /\ t[Len(s) + 1] = e /\ t \in Seq(Frame)
      /\ \A i \in 1 .. Len(s) : t[i] = s[i]
  BY AppendIs DEF CallsTyped
<1>2. AtTop(t, stack, ms)
  BY <1>1 DEF AtTop
<1>3. \A i \in 1 .. Len(t) : i \in 1 .. Len(s) \/ t[i] = e
  BY <1>1
<1>4. Held(t, stack, ms, size, nargin, names)
  BY <1>1, <1>3 DEF Held
<1> QED
  BY <1>2, <1>4

------------------------------------------------------------------------------
(* The steps. *)

\* The stacks are sequences.
LEMMA Lengths ==
    ASSUME UnwindInv
    PROVE  /\ memory_stack \in Seq(PoolCell) /\ Len(memory_stack) \in Nat
           /\ Depth = Len(memory_stack) /\ Depth > 0
           /\ marks \in Seq(PoolCell) /\ Len(marks) \in Nat
           /\ nargin_values \in Seq(Argc) /\ Len(nargin_values) \in Nat
           /\ user_func_calls \in Seq(Function) /\ Len(user_func_calls) \in Nat
           /\ calls \in Seq(Frame) /\ Len(calls) \in Nat
           /\ mark_narg_size \in Nat
           /\ (Idle => Len(calls) = 0) /\ (~Idle => Len(calls) > 0)
<1>1. Depth \in Nat /\ Depth >= 1
  BY DepthPositive DEF UnwindInv, PoolInv
<1> QED
  BY <1>1 DEF UnwindInv, PoolInv, PoolTypeOK, StacksTyped, CallsInv, CallsTyped, Depth, Idle

\* A sequence agrees with itself, with what is appended to it and with its beginning.
LEMMA AgreeOnes ==
    ASSUME NEW S, NEW s \in Seq(S)
    PROVE  /\ Agree(s, s)
           /\ \A e \in S : Agree(Append(s, e), s)
           /\ \A n \in 0 .. Len(s) : Agree(SubSeq(s, 1, n), s)
           /\ Agree(Popped(s), s)
<1>1. Agree(s, s)
  BY DEF Agree
<1>2. ASSUME NEW e \in S PROVE Agree(Append(s, e), s)
  BY DEF Agree
<1>3. ASSUME NEW n \in 0 .. Len(s) PROVE Agree(SubSeq(s, 1, n), s)
  BY PrefixIs DEF Agree
<1>4. Agree(Popped(s), s)
  <2>1. CASE s = <<>>
    BY <1>1, <2>1 DEF Popped
  <2>2. CASE s # <<>>
    <3>1. Len(s) - 1 \in 0 .. Len(s)
      BY <2>2
    <3> QED
      BY <1>3, <2>2, <3>1 DEF Popped, Front
  <2> QED
    BY <2>1, <2>2
<1> QED
  BY <1>1, <1>2, <1>3, <1>4

\* A mark and a frame that will catch.
LEMMA EnterStep ==
    ASSUME UnwindInv, NEW kind \in Kind, Enter(kind),
           \/ Idle /\ kind \in Whole
           \/ ~Idle /\ kind \in {"try", "guarded"}
    PROVE  StacksTyped' /\ CallsInv'
<1> DEFINE e == [kind |-> kind, fn |-> NULL, argc |-> 0,
                 cell |-> Current, depth |-> Depth, entries |-> Len(nargin_values),
                 names |-> Len(user_func_calls), mark |-> Len(marks) + 1]
<1>1. /\ memory_stack' = memory_stack /\ nargin_values' = nargin_values
      /\ user_func_calls' = user_func_calls /\ marks' = Append(marks, Current)
      /\ mark_narg_size' = Len(nargin_values)
  BY DEF Enter, Mark, poolVars, stackVars
<1>2. Current \in PoolCell /\ Current = memory_stack[Depth]
  BY Lengths DEF Current
<1>3. /\ marks' \in Seq(PoolCell) /\ Len(marks') = Len(marks) + 1
      /\ marks'[Len(marks) + 1] = Current
  BY <1>1, <1>2, Lengths, AppendIs
<1>4. calls' = Append(calls, e)
  BY <1>1, <1>3, Lengths DEF Enter, PushCall, Current, Depth
<1>5. e \in Frame
  BY <1>2, Lengths DEF Frame
<1>6. kind \in Handler /\ kind \notin Counted /\ kind # "user" /\ kind # "unguarded"
  BY DEF Handler, Whole, Counted
<1>7. /\ e.kind = kind /\ e.cell = Current /\ e.depth = Depth
       /\ e.entries = Len(nargin_values) /\ e.names = Len(user_func_calls)
       /\ e.mark = Len(marks) + 1
  OBVIOUS
<1> HIDE DEF e
<1>8. Above(calls, e)
  <2> SUFFICES ASSUME NEW i \in 1 .. Len(calls)
               PROVE  /\ Inside(calls[i], e)
                      /\ i = Len(calls) => e.depth = calls[i].depth + Scopes(e.kind)
                      /\ NoHandler(calls, i + 1, Len(calls)) =>
                            e.mark = calls[i].mark + Marks(e.kind)
    BY DEF Above
  <2>1. /\ calls[i].depth <= Depth /\ calls[i].mark <= Len(marks)
        /\ i = Len(calls) => calls[i].depth = Depth
        /\ NoHandler(calls, i + 1, Len(calls)) => calls[i].mark = Len(marks)
    BY TopBounds DEF UnwindInv
  <2>2. calls[i].entries <= Len(nargin_values) /\ calls[i].names <= Len(user_func_calls)
    BY DEF UnwindInv, CallsInv, Held
  <2>3. /\ calls[i].depth \in Nat /\ calls[i].entries \in Nat
        /\ calls[i].names \in Nat /\ calls[i].mark \in Nat
    BY FrameFields DEF UnwindInv, CallsInv
  <2>4. Scopes(e.kind) = 0 /\ Counts(e.kind) = 0 /\ Marks(e.kind) = 1
    BY <1>6, <1>7 DEF Scopes, Counts, Marks
  <2>5. ~Idle => e.kind \notin Whole
    BY <1>7 DEF Whole
  <2>6. /\ Depth \in Nat /\ Len(nargin_values) \in Nat
        /\ Len(user_func_calls) \in Nat /\ Len(marks) \in Nat /\ ~Idle
    BY Lengths
  <2>7. Inside(calls[i], e)
    BY <1>7, <2>1, <2>2, <2>3, <2>4, <2>5, <2>6, SMTT(30) DEF Inside
  <2>8. i = Len(calls) => e.depth = calls[i].depth + Scopes(e.kind)
    BY <1>7, <2>1, <2>3, <2>4
  <2>9. NoHandler(calls, i + 1, Len(calls)) => e.mark = calls[i].mark + Marks(e.kind)
    BY <1>7, <2>1, <2>4
  <2> QED
    BY <2>7, <2>8, <2>9
<1>9. CallsTyped(calls') /\ Nested(calls') /\ BeginsAtBase(calls') /\ Guarded(calls')
  <2>1. calls = <<>> => e.kind \in Whole /\ e.depth = 1
    BY <1>7 DEF UnwindInv, CallsInv, AtTop, Depth, Idle
  <2> QED
    BY <1>4, <1>5, <1>6, <1>8, <1>7, <2>1, PushNested DEF UnwindInv, CallsInv
<1>10. Held(calls, memory_stack', marks', mark_narg_size', nargin_values', user_func_calls')
  <2>1. calls = SubSeq(calls, 1, Len(calls))
    BY Lengths
  <2>2. /\ Agree(memory_stack', memory_stack) /\ Agree(marks', marks)
        /\ Agree(nargin_values', nargin_values) /\ Agree(user_func_calls', user_func_calls)
    BY <1>1, <1>2, AgreeOnes, Lengths
  <2>3. \A i \in 1 .. Len(calls) :
          /\ calls[i].depth <= Len(memory_stack')
          /\ calls[i].kind \in Handler =>
                calls[i].mark <= Len(marks') /\ calls[i].entries <= mark_narg_size'
          /\ calls[i].entries <= Len(nargin_values') /\ calls[i].names <= Len(user_func_calls')
    <3> SUFFICES ASSUME NEW i \in 1 .. Len(calls)
         PROVE /\ calls[i].depth <= Len(memory_stack')
               /\ calls[i].kind \in Handler =>
                     calls[i].mark <= Len(marks') /\ calls[i].entries <= mark_narg_size'
               /\ calls[i].entries <= Len(nargin_values')
               /\ calls[i].names <= Len(user_func_calls')
      OBVIOUS
    <3>1. /\ calls[i].depth \in 1 .. Len(memory_stack)
          /\ calls[i].kind \in Handler => calls[i].mark \in 1 .. Len(marks)
          /\ calls[i].entries <= Len(nargin_values) /\ calls[i].names <= Len(user_func_calls)
      BY DEF UnwindInv, CallsInv, Held
    <3>2. calls[i].kind \in Handler => calls[i].mark <= Len(marks')
      BY <1>3, <3>1, Lengths
    <3> QED
      BY <1>1, <3>1, <3>2
  <2>4. /\ Len(calls) \in 0 .. Len(calls) /\ Len(memory_stack) \in Nat /\ Len(marks) \in Nat
        /\ Len(nargin_values) \in Nat /\ Len(user_func_calls) \in Nat /\ CallsInv
    BY Lengths DEF UnwindInv
  <2>5. /\ Len(memory_stack') \in Nat /\ Len(marks') \in Nat
        /\ Len(nargin_values') \in Nat /\ Len(user_func_calls') \in Nat
    BY <1>1, <1>3, <2>4
  <2> QED
    BY <2>1, <2>2, <2>3, <2>4, <2>5, HeldBy
<1>11. /\ Held(calls', memory_stack', marks', mark_narg_size', nargin_values', user_func_calls')
       /\ AtTop(calls', memory_stack', marks')
  <2>1. /\ e.depth \in 1 .. Len(memory_stack') /\ memory_stack'[e.depth] = e.cell
        /\ e.mark \in 1 .. Len(marks') /\ marks'[e.mark] = e.cell
        /\ e.entries <= mark_narg_size'
        /\ e.entries <= Len(nargin_values') /\ e.names <= Len(user_func_calls')
        /\ e.kind = kind /\ e.depth = Len(memory_stack') /\ e.mark = Len(marks')
    BY <1>1, <1>2, <1>3, <1>7, Lengths
  <2>2. CallsTyped(calls)
    BY DEF UnwindInv, CallsInv
  <2> QED
    BY <1>4, <1>5, <1>6, <1>10, <2>1, <2>2, PushHeld
<1> QED
  BY <1>1, <1>3, <1>9, <1>11, Lengths DEF StacksTyped, CallsInv

\* A frame that will not catch, with a count for its arguments and perhaps a scope and
\* a name.
LEMMA CallStep ==
    ASSUME UnwindInv, ~Idle, NEW kind \in Counted, NEW n \in Argc,
           NEW g \in Function \cup {NULL}, NEW c \in PoolCell,
           PushCall(kind, g, n),
           nargin_values' = Append(nargin_values, n),
           UNCHANGED <<marks, mark_narg_size>>,
           \/ /\ kind = "user" /\ g \in Function
              /\ memory_stack' = Append(memory_stack, c)
              /\ user_func_calls' = Append(user_func_calls, g)
           \/ /\ kind = "builtin"
              /\ UNCHANGED <<memory_stack, user_func_calls>>
    PROVE  StacksTyped' /\ CallsInv'
<1> DEFINE e == [kind |-> kind, fn |-> g, argc |-> n,
                 cell |-> memory_stack'[Len(memory_stack')], depth |-> Len(memory_stack'),
                 entries |-> Len(nargin_values'), names |-> Len(user_func_calls'),
                 mark |-> Len(marks')]
<1>1. calls' = Append(calls, e) /\ calls # <<>>
      /\ marks' = marks /\ mark_narg_size' = mark_narg_size
  BY DEF PushCall, Idle
<1>2. /\ nargin_values' \in Seq(Argc) /\ Len(nargin_values') = Len(nargin_values) + 1
      /\ nargin_values'[Len(nargin_values) + 1] = n /\ Agree(nargin_values', nargin_values)
  BY Lengths, AppendIs, AgreeOnes
<1>3. /\ memory_stack' \in Seq(PoolCell) /\ Len(memory_stack') = Depth + Scopes(kind)
      /\ Agree(memory_stack', memory_stack)
  <2>1. CASE kind = "user" /\ memory_stack' = Append(memory_stack, c)
    BY <2>1, Lengths, AppendIs, AgreeOnes DEF Scopes
  <2>2. CASE kind = "builtin" /\ UNCHANGED memory_stack
    BY <2>2, Lengths, AgreeOnes DEF Scopes
  <2> QED
    BY <2>1, <2>2
<1>4. /\ user_func_calls' \in Seq(Function)
      /\ Len(user_func_calls') = Len(user_func_calls) + Scopes(kind)
      /\ kind = "user" => user_func_calls'[Len(user_func_calls')] = g
      /\ Agree(user_func_calls', user_func_calls)
  <2>1. CASE kind = "user" /\ g \in Function /\ user_func_calls' = Append(user_func_calls, g)
    BY <2>1, Lengths, AppendIs, AgreeOnes DEF Scopes
  <2>2. CASE kind = "builtin" /\ UNCHANGED user_func_calls
    BY <2>2, Lengths, AgreeOnes DEF Scopes
  <2> QED
    BY <2>1, <2>2
<1>5. /\ Scopes(kind) \in {0, 1} /\ Counts(kind) = 1 /\ Marks(kind) = 0
      /\ kind \notin Whole /\ kind \notin Handler /\ kind # "unguarded" /\ kind \in Kind
      /\ kind = "user" => Scopes(kind) = 1
  BY DEF Counted, Scopes, Counts, Marks, Whole, Handler, Kind
<1>6. Len(memory_stack') \in Nat /\ Len(memory_stack') > 0 /\ e.cell \in PoolCell
  BY <1>3, <1>5, Lengths
<1>7. e \in Frame
  <2>1. n \in Nat
    BY ArgcAssumption
  <2>2. Len(nargin_values') \in Nat /\ Len(user_func_calls') \in Nat /\ Len(marks') \in Nat
    BY <1>1, <1>2, <1>4, <1>5, Lengths
  <2> QED
    BY <1>5, <1>6, <2>1, <2>2 DEF Frame
<1>8. /\ e.kind = kind /\ e.fn = g /\ e.argc = n
       /\ e.cell = memory_stack'[Len(memory_stack')] /\ e.depth = Len(memory_stack')
       /\ e.entries = Len(nargin_values') /\ e.names = Len(user_func_calls')
       /\ e.mark = Len(marks')
  OBVIOUS
<1> HIDE DEF e
<1>9. Above(calls, e)
  <2> SUFFICES ASSUME NEW i \in 1 .. Len(calls)
               PROVE  /\ Inside(calls[i], e)
                      /\ i = Len(calls) => e.depth = calls[i].depth + Scopes(e.kind)
                      /\ NoHandler(calls, i + 1, Len(calls)) =>
                            e.mark = calls[i].mark + Marks(e.kind)
    BY DEF Above
  <2>1. /\ calls[i].depth <= Depth /\ calls[i].mark <= Len(marks)
        /\ i = Len(calls) => calls[i].depth = Depth
        /\ NoHandler(calls, i + 1, Len(calls)) => calls[i].mark = Len(marks)
    BY TopBounds DEF UnwindInv
  <2>2. calls[i].entries <= Len(nargin_values) /\ calls[i].names <= Len(user_func_calls)
    BY DEF UnwindInv, CallsInv, Held
  <2>3. /\ calls[i].depth \in Nat /\ calls[i].entries \in Nat
        /\ calls[i].names \in Nat /\ calls[i].mark \in Nat
    BY FrameFields DEF UnwindInv, CallsInv
  <2>4. /\ e.depth = Depth + Scopes(kind) /\ e.entries = Len(nargin_values) + 1
        /\ e.names = Len(user_func_calls) + Scopes(kind) /\ e.mark = Len(marks)
    BY <1>1, <1>2, <1>3, <1>4, <1>8
  <2>5. /\ Depth \in Nat /\ Len(nargin_values) \in Nat
        /\ Len(user_func_calls) \in Nat /\ Len(marks) \in Nat
    BY Lengths
  <2>6. Inside(calls[i], e)
    BY <1>5, <1>8, <2>1, <2>2, <2>3, <2>4, <2>5, SMTT(30) DEF Inside
  <2>7. i = Len(calls) => e.depth = calls[i].depth + Scopes(e.kind)
    BY <1>8, <2>1, <2>4
  <2>8. NoHandler(calls, i + 1, Len(calls)) => e.mark = calls[i].mark + Marks(e.kind)
    BY <1>5, <1>8, <2>1, <2>3, <2>4
  <2> QED
    BY <2>6, <2>7, <2>8
<1>10. CallsTyped(calls') /\ Nested(calls') /\ BeginsAtBase(calls') /\ Guarded(calls')
  BY <1>8, <1>1, <1>5, <1>7, <1>9, PushNested DEF UnwindInv, CallsInv
<1>11. Held(calls, memory_stack', marks', mark_narg_size', nargin_values', user_func_calls')
  <2>1. calls = SubSeq(calls, 1, Len(calls))
    BY Lengths
  <2>2. Agree(marks', marks)
    BY <1>1, AgreeOnes, Lengths
  <2>3. /\ Len(calls) \in 0 .. Len(calls) /\ Len(memory_stack) \in Nat /\ Len(marks) \in Nat
        /\ Len(nargin_values) \in Nat /\ Len(user_func_calls) \in Nat /\ CallsInv
        /\ Depth = Len(memory_stack)
    BY Lengths DEF UnwindInv
  <2>4. \A i \in 1 .. Len(calls) :
          /\ calls[i].depth <= Len(memory_stack')
          /\ calls[i].kind \in Handler =>
                calls[i].mark <= Len(marks') /\ calls[i].entries <= mark_narg_size'
          /\ calls[i].entries <= Len(nargin_values') /\ calls[i].names <= Len(user_func_calls')
    <3> SUFFICES ASSUME NEW i \in 1 .. Len(calls)
         PROVE /\ calls[i].depth <= Len(memory_stack')
               /\ calls[i].kind \in Handler =>
                     calls[i].mark <= Len(marks') /\ calls[i].entries <= mark_narg_size'
               /\ calls[i].entries <= Len(nargin_values')
               /\ calls[i].names <= Len(user_func_calls')
      OBVIOUS
    <3>1. /\ calls[i].depth \in 1 .. Len(memory_stack)
          /\ calls[i].kind \in Handler =>
                calls[i].mark \in 1 .. Len(marks) /\ calls[i].entries <= mark_narg_size
          /\ calls[i].entries <= Len(nargin_values) /\ calls[i].names <= Len(user_func_calls)
      BY <2>3 DEF CallsInv, Held
    <3>2. calls[i].entries \in Nat /\ calls[i].names \in Nat
      BY <2>3, FrameFields DEF CallsInv
    <3>3. /\ calls[i].depth <= Len(memory_stack')
          /\ calls[i].entries <= Len(nargin_values') /\ calls[i].names <= Len(user_func_calls')
      <4>1. Scopes(kind) = 0 \/ Scopes(kind) = 1
        BY <1>5
      <4>2. calls[i].depth <= Len(memory_stack')
        BY <1>3, <2>3, <3>1, <4>1
      <4>3. calls[i].entries <= Len(nargin_values')
        BY <1>2, <2>3, <3>1, <3>2
      <4>4. calls[i].names <= Len(user_func_calls')
        BY <1>4, <2>3, <3>1, <3>2, <4>1
      <4> QED
        BY <4>2, <4>3, <4>4
    <3> QED
      BY <1>1, <3>1, <3>3
  <2>5. /\ Len(memory_stack') \in Nat /\ Len(marks') \in Nat
        /\ Len(nargin_values') \in Nat /\ Len(user_func_calls') \in Nat
    BY <1>1, <1>2, <1>4, <1>5, <1>6, <2>3
  <2> QED
    BY <1>2, <1>3, <1>4, <2>1, <2>2, <2>3, <2>4, <2>5, HeldBy
<1>12. /\ Held(calls', memory_stack', marks', mark_narg_size', nargin_values', user_func_calls')
       /\ AtTop(calls', memory_stack', marks')
  <2>1. /\ e.depth \in 1 .. Len(memory_stack') /\ memory_stack'[e.depth] = e.cell
        /\ e.kind = kind /\ e.depth = Len(memory_stack') /\ e.mark = Len(marks')
        /\ e.entries <= Len(nargin_values') /\ e.names <= Len(user_func_calls')
        /\ e.entries > 0 /\ nargin_values'[e.entries] = e.argc
        /\ e.kind = "user" => e.names > 0 /\ user_func_calls'[e.names] = e.fn
    BY <1>2, <1>4, <1>5, <1>6, <1>8, Lengths
  <2>2. CallsTyped(calls)
    BY DEF UnwindInv, CallsInv
  <2> QED
    BY <1>1, <1>5, <1>7, <1>11, <2>1, <2>2, PushHeld
<1> QED
  BY <1>1, <1>2, <1>4, <1>10, <1>12, Lengths DEF StacksTyped, CallsInv

\* What the frames below the top leave for it.
LEMMA BelowTop ==
    ASSUME UnwindInv, NEW i \in 1 .. Len(calls) - 1, NEW k, k = calls[Len(calls)].kind
    PROVE  /\ calls[i].depth \in Nat /\ calls[i].entries \in Nat
           /\ calls[i].names \in Nat /\ calls[i].mark \in Nat
           /\ calls[i].depth + Scopes(k) <= Depth
           /\ calls[i].entries + Counts(k) <= Len(nargin_values)
           /\ calls[i].names + Scopes(k) <= Len(user_func_calls)
           /\ calls[i].mark + Marks(k) <= Len(marks)
           /\ i = Len(calls) - 1 =>
                calls[i].depth + Scopes(k) = Depth /\ calls[i].mark + Marks(k) = Len(marks)
<1>1. /\ Len(calls) \in 1 .. Len(calls) /\ i \in 1 .. Len(calls) /\ i < Len(calls)
      /\ CallsInv /\ calls # <<>>
  BY Lengths DEF UnwindInv
<1>2. /\ calls[Len(calls)].depth = Depth /\ calls[Len(calls)].mark = Len(marks)
      /\ calls[Len(calls)].entries <= Len(nargin_values)
      /\ calls[Len(calls)].names <= Len(user_func_calls)
  BY <1>1 DEF CallsInv, AtTop, Held, Depth
<1>3. /\ Inside(calls[i], calls[Len(calls)])
      /\ Len(calls) = i + 1 => calls[Len(calls)].depth = calls[i].depth + Scopes(k)
      /\ NoHandler(calls, i + 1, Len(calls) - 1) =>
            calls[Len(calls)].mark = calls[i].mark + Marks(k)
  BY <1>1 DEF CallsInv, Nested
<1>4. i = Len(calls) - 1 => Len(calls) = i + 1 /\ NoHandler(calls, i + 1, Len(calls) - 1)
  BY <1>1 DEF NoHandler
<1>5. /\ calls[i].depth \in Nat /\ calls[i].entries \in Nat
      /\ calls[i].names \in Nat /\ calls[i].mark \in Nat
      /\ calls[Len(calls)].entries \in Nat /\ calls[Len(calls)].names \in Nat
  BY <1>1, FrameFields DEF CallsInv
<1>6. Scopes(k) \in {0, 1} /\ Counts(k) \in {0, 1} /\ Marks(k) \in {0, 1}
  BY Pushes
<1>7. Len(nargin_values) \in Nat /\ Len(user_func_calls) \in Nat
  BY Lengths
<1>8. /\ calls[i].depth + Scopes(k) <= Depth
      /\ calls[i].entries + Counts(k) <= calls[Len(calls)].entries
      /\ calls[i].names + Scopes(k) <= calls[Len(calls)].names
      /\ calls[i].mark + Marks(k) <= Len(marks)
  BY <1>2, <1>3 DEF Inside
<1>9. calls[i].entries + Counts(k) <= Len(nargin_values)
  BY <1>2, <1>5, <1>6, <1>7, <1>8
<1>10. calls[i].names + Scopes(k) <= Len(user_func_calls)
  BY <1>2, <1>5, <1>6, <1>7, <1>8
<1> QED
  BY <1>2, <1>3, <1>4, <1>5, <1>8, <1>9, <1>10

\* The innermost frame leaves, with the scope, mark, count and name it pushed.
LEMMA PopStep ==
    ASSUME UnwindInv, ~Idle, PopCall, NEW k, k = Top.kind,
           memory_stack' \in Seq(PoolCell), Agree(memory_stack', memory_stack),
           Len(memory_stack') = Depth - Scopes(k),
           marks' \in Seq(PoolCell), Agree(marks', marks),
           Len(calls) = 1 \/ Len(marks') = Len(marks) - Marks(k),
           nargin_values' \in Seq(Argc), Agree(nargin_values', nargin_values),
           Len(nargin_values') >= Len(nargin_values) - Counts(k),
           user_func_calls' \in Seq(Function), Agree(user_func_calls', user_func_calls),
           Len(user_func_calls') >= Len(user_func_calls) - Scopes(k),
           mark_narg_size' = mark_narg_size
    PROVE  StacksTyped' /\ CallsInv'
<1> DEFINE top == Len(calls)
           n == Len(calls) - 1
<1>1. /\ top \in 1 .. Len(calls) /\ n \in 0 .. Len(calls) /\ calls' = SubSeq(calls, 1, n)
      /\ k = calls[top].kind /\ CallsInv /\ top \in Nat
  BY Lengths DEF PopCall, Front, Top, Last, UnwindInv
<1>2. /\ CallsTyped(calls') /\ Nested(calls') /\ BeginsAtBase(calls') /\ Guarded(calls')
      /\ Len(calls') = n /\ \A i \in 1 .. n : calls'[i] = calls[i]
  BY <1>1, PrefixNested
<1>3. /\ calls[top].depth = Depth /\ calls[top].mark = Len(marks)
      /\ calls[top].entries <= Len(nargin_values) /\ calls[top].names <= Len(user_func_calls)
  BY <1>1, Lengths DEF CallsInv, AtTop, Held, Idle, Depth
<1>4. ASSUME NEW i \in 1 .. n
      PROVE  /\ calls[i].depth \in Nat /\ calls[i].entries \in Nat
             /\ calls[i].names \in Nat /\ calls[i].mark \in Nat
             /\ calls[i].depth + Scopes(k) <= Depth
             /\ calls[i].entries + Counts(k) <= Len(nargin_values)
             /\ calls[i].names + Scopes(k) <= Len(user_func_calls)
             /\ calls[i].mark + Marks(k) <= Len(marks)
             /\ i = n => calls[i].depth + Scopes(k) = Depth /\ calls[i].mark + Marks(k) = Len(marks)
  <2>1. i \in 1 .. Len(calls) - 1
    BY <1>1
  <2> QED
    BY <1>1, <2>1, BelowTop
<1>5. Held(calls', memory_stack', marks', mark_narg_size', nargin_values', user_func_calls')
  <2>1. /\ Len(memory_stack) \in Nat /\ Len(marks) \in Nat /\ Depth = Len(memory_stack)
        /\ Len(nargin_values) \in Nat /\ Len(user_func_calls) \in Nat
    BY Lengths
  <2>2. /\ Len(memory_stack') \in Nat /\ Len(marks') \in Nat
        /\ Len(nargin_values') \in Nat /\ Len(user_func_calls') \in Nat
    OBVIOUS
  <2>3. Scopes(k) \in {0, 1} /\ Counts(k) \in {0, 1} /\ Marks(k) \in {0, 1}
    BY Pushes
  <2>4. ASSUME NEW i \in 1 .. n
        PROVE  /\ calls[i].depth <= Len(memory_stack')
               /\ calls[i].kind \in Handler =>
                     calls[i].mark <= Len(marks') /\ calls[i].entries <= mark_narg_size'
               /\ calls[i].entries <= Len(nargin_values')
               /\ calls[i].names <= Len(user_func_calls')
    <3>1. Len(marks') = Len(marks) - Marks(k)
      BY <1>1
    <3>2. calls[i].kind \in Handler => calls[i].entries <= mark_narg_size
      BY <1>1 DEF CallsInv, Held
    <3>3. calls[i].depth <= Len(memory_stack') /\ calls[i].mark <= Len(marks')
      BY <1>4, <2>1, <2>2, <2>3, <3>1, SMTT(30)
    <3>4. calls[i].entries <= Len(nargin_values') /\ calls[i].names <= Len(user_func_calls')
      BY <1>4, <2>1, <2>2, <2>3, SMTT(30)
    <3> QED
      BY <3>2, <3>3, <3>4
  <2> QED
    BY <1>1, <2>1, <2>2, <2>4, HeldBy
<1>6. AtTop(calls', memory_stack', marks')
  <2>1. /\ calls' \in Seq(Frame) /\ Len(calls') = Len(calls) - 1
        /\ \A i \in 1 .. Len(calls) - 1 : calls'[i] = calls[i]
    BY <1>2 DEF CallsTyped
  <2>2. CASE Len(calls) = 1
    <3>1. calls' = <<>>
      BY <2>1, <2>2, EmptySeq
    <3>2. k \in Whole /\ calls[1].depth = 1
      BY <1>1, <2>2 DEF CallsInv, BeginsAtBase, Idle
    <3>3. Scopes(k) = 0
      BY <3>2 DEF Scopes, Whole
    <3>4. Len(memory_stack') = 1
      BY <1>3, <2>2, <3>2, <3>3
    <3> QED
      BY <3>1, <3>4 DEF AtTop
  <2>3. CASE Len(calls) # 1
    <3>1. n \in 1 .. Len(calls) - 1 /\ calls'[n] = calls[n] /\ n = Len(calls')
      BY <1>1, <2>1, <2>3, SMTT(30)
    <3>2. calls' # <<>>
      BY <2>1, <3>1
    <3>3. calls[n].depth + Scopes(k) = Depth /\ calls[n].mark + Marks(k) = Len(marks)
      BY <1>4, <3>1
    <3>4. calls[n].depth \in Nat /\ calls[n].mark \in Nat
      BY <1>4, <3>1
    <3>5. Scopes(k) \in {0, 1} /\ Marks(k) \in {0, 1} /\ Len(marks') = Len(marks) - Marks(k)
      BY <2>3, Pushes
    <3>6. calls[n].depth = Len(memory_stack') /\ calls[n].mark = Len(marks')
      BY <3>3, <3>4, <3>5, SMTT(30)
    <3> QED
      BY <3>1, <3>2, <3>6 DEF AtTop
  <2> QED
    BY <2>2, <2>3
<1> QED
  BY <1>2, <1>5, <1>6, Lengths DEF StacksTyped, CallsInv

\* CloseDownTo keeps the scopes below.
LEMMA CloseKeeps ==
    ASSUME UnwindInv, NEW n \in 1 .. Depth, CloseDownTo(n)
    PROVE  /\ memory_stack' = SubSeq(memory_stack, 1, n)
           /\ memory_stack' \in Seq(PoolCell) /\ Len(memory_stack') = n
           /\ Agree(memory_stack', memory_stack)
<1>1. memory_stack' = SubSeq(memory_stack, 1, n) /\ n \in 0 .. Len(memory_stack)
  BY Lengths DEF CloseDownTo
<1> QED
  BY <1>1, Lengths, PrefixIs, AgreeOnes

\* The smaller of two numbers.
LEMMA MinIs ==
    ASSUME NEW a \in Nat, NEW b \in Nat
    PROVE  Min({a, b}) = IF a <= b THEN a ELSE b
<1> DEFINE m == IF a <= b THEN a ELSE b
<1>1. m \in {a, b} /\ \A y \in {a, b} : m =< y
  OBVIOUS
<1>2. \A x \in {a, b} : (\A y \in {a, b} : x =< y) => x = m
  OBVIOUS
<1> QED
  BY <1>1, <1>2 DEF Min

\* The handler's mark is the latest, and it names the handler's scope.
LEMMA MarkOfHandler ==
    ASSUME UnwindInv, NEW h \in 1 .. Len(calls), Catches(h)
    PROVE  /\ marks # <<>> /\ calls[h].mark = Len(marks) /\ Len(marks) > 0
           /\ calls[h].depth \in 1 .. Depth
           /\ KeptBy(Last(marks)) = calls[h].depth
<1>1. CallsInv /\ NoHandler(calls, h + 1, Len(calls)) /\ calls[h].kind \in Handler
  BY DEF UnwindInv, Catches, NoHandler
<1>2. calls[h].mark = Len(marks)
  BY <1>1, TopBounds
<1>3. /\ calls[h].mark \in 1 .. Len(marks) /\ marks[calls[h].mark] = calls[h].cell
      /\ calls[h].depth \in 1 .. Len(memory_stack) /\ memory_stack[calls[h].depth] = calls[h].cell
  BY <1>1 DEF CallsInv, Held
<1>4. Last(marks) = calls[h].cell /\ Len(marks) > 0 /\ marks # <<>>
  BY <1>2, <1>3, Lengths DEF Last
<1> DEFINE d == calls[h].depth
           c == calls[h].cell
           Kept(n) == /\ n > 0 => memory_stack[n] = c
                      /\ \A i \in (n + 1) .. Depth : memory_stack[i] # c
<1>5. d \in 1 .. Depth /\ Depth \in Nat /\ memory_stack[d] = c
  BY <1>3, Lengths
<1>6. NoDup(memory_stack)
  BY DEF UnwindInv, PoolInv, CellsPartitioned
<1>7. \A i \in 1 .. Depth : memory_stack[i] = c => i = d
  BY <1>5, <1>6 DEF NoDup, Depth
<1> HIDE DEF d, c
<1>8. Kept(d) /\ d \in 0 .. Depth
  BY <1>5, <1>7
<1>9. ASSUME NEW n \in 0 .. Depth, Kept(n) PROVE n = d
  <2>1. n > 0
    <3> SUFFICES ASSUME n = 0 PROVE FALSE
      BY <1>5
    <3> QED
      BY <1>5, <1>9
  <2> QED
    BY <1>5, <1>7, <1>9, <2>1
<1>10. KeptBy(c) = CHOOSE n \in 0 .. Depth : Kept(n)
  BY DEF KeptBy
<1> HIDE DEF Kept
<1>11. KeptBy(c) = d
  BY <1>8, <1>9, <1>10
<1> QED
  BY <1>2, <1>4, <1>5, <1>11 DEF c, d

\* What Restore leaves when frame h catches.
LEMMA RestoreIs ==
    ASSUME UnwindInv, NEW h \in 1 .. Len(calls), Catches(h), Restore
    PROVE  /\ CloseDownTo(calls[h].depth)
           /\ memory_stack' \in Seq(PoolCell) /\ Len(memory_stack') = calls[h].depth
           /\ Agree(memory_stack', memory_stack)
           /\ marks' \in Seq(PoolCell) /\ Len(marks') = calls[h].mark - 1
           /\ Agree(marks', marks)
           /\ nargin_values' \in Seq(Argc) /\ Agree(nargin_values', nargin_values)
           /\ Len(nargin_values') =
                 IF Len(nargin_values) <= mark_narg_size THEN Len(nargin_values) ELSE mark_narg_size
<1>1. CloseDownTo(calls[h].depth) /\ marks' = Popped(marks)
  BY MarkOfHandler DEF Restore, Popped
<1>2. marks' \in Seq(PoolCell) /\ Len(marks') = calls[h].mark - 1 /\ Agree(marks', marks)
  BY <1>1, MarkOfHandler, PoppedIs, AgreeOnes, Lengths
<1>3. /\ memory_stack' \in Seq(PoolCell) /\ Len(memory_stack') = calls[h].depth
      /\ Agree(memory_stack', memory_stack)
  BY <1>1, MarkOfHandler, CloseKeeps
<1> DEFINE m == Min({Len(nargin_values), mark_narg_size})
<1>4. m = IF Len(nargin_values) <= mark_narg_size THEN Len(nargin_values) ELSE mark_narg_size
  BY MinIs, Lengths
<1>5. m \in 0 .. Len(nargin_values) /\ nargin_values' = SubSeq(nargin_values, 1, m)
  BY <1>4, Lengths DEF Restore
<1> HIDE DEF m
<1>6. /\ nargin_values' \in Seq(Argc) /\ Len(nargin_values') = m
      /\ Agree(nargin_values', nargin_values)
  BY <1>5, PrefixIs, AgreeOnes, Lengths
<1> QED
  BY <1>1, <1>2, <1>3, <1>4, <1>6

\* What a frame below a handler had is below what the handler had.
LEMMA BelowHandler ==
    ASSUME UnwindInv, NEW h \in 1 .. Len(calls), calls[h].kind \in Handler,
           NEW i \in 1 .. h - 1
    PROVE  /\ calls[i].depth \in Nat /\ calls[i].entries \in Nat
           /\ calls[i].names \in Nat /\ calls[i].mark \in Nat
           /\ calls[i].depth <= calls[h].depth /\ calls[i].entries <= calls[h].entries
           /\ calls[i].names <= calls[h].names /\ calls[i].mark + 1 <= calls[h].mark
           /\ i = h - 1 => calls[i].depth = calls[h].depth
           /\ NoHandler(calls, i + 1, h - 1) => calls[h].mark = calls[i].mark + 1
<1>1. i \in 1 .. Len(calls) /\ i < h /\ CallsInv
  BY Lengths DEF UnwindInv
<1>2. /\ Inside(calls[i], calls[h])
      /\ h = i + 1 => calls[h].depth = calls[i].depth + Scopes(calls[h].kind)
      /\ NoHandler(calls, i + 1, h - 1) =>
            calls[h].mark = calls[i].mark + Marks(calls[h].kind)
  BY <1>1 DEF CallsInv, Nested
<1>3. /\ calls[i].depth \in Nat /\ calls[i].entries \in Nat
      /\ calls[i].names \in Nat /\ calls[i].mark \in Nat
      /\ calls[h].depth \in Nat /\ calls[h].entries \in Nat /\ calls[h].names \in Nat
  BY <1>1, FrameFields DEF CallsInv
<1>4. /\ Scopes(calls[h].kind) = 0 /\ Counts(calls[h].kind) = 0
      /\ Marks(calls[h].kind) = 1
  BY DEF Scopes, Counts, Marks, Handler, Counted
<1>5. /\ calls[i].depth <= calls[h].depth /\ calls[i].entries <= calls[h].entries
      /\ calls[i].names <= calls[h].names /\ calls[i].mark + 1 <= calls[h].mark
  BY <1>2, <1>3, <1>4 DEF Inside
<1> QED
  BY <1>2, <1>3, <1>4, <1>5

\* An error: the frames above the handler are gone, the handler becomes its catch block,
\* or the command is over.
LEMMA ThrowStep ==
    ASSUME UnwindInv, Throw
    PROVE  StacksTyped' /\ CallsInv'
<1> PICK h \in 1 .. Len(calls) :
          /\ Catches(h)
          /\ calls' = IF calls[h].kind \in {"run", "host"} THEN SubSeq(calls, 1, h - 1)
                      ELSE Append(SubSeq(calls, 1, h - 1),
                                  [calls[h] EXCEPT !.kind = "catch", !.mark = @ - 1])
  BY DEF Throw
<1> DEFINE n == h - 1
           s == SubSeq(calls, 1, n)
<1>1. Restore /\ mark_narg_size' = mark_narg_size /\ user_func_calls' = user_func_calls
  BY DEF Throw
<1>2. /\ calls[h].kind \in Handler /\ CallsInv /\ n \in 0 .. Len(calls) /\ h \in Nat
      /\ Len(calls) \in Nat
  BY Lengths DEF Catches, UnwindInv
<1>3. /\ memory_stack' \in Seq(PoolCell) /\ Len(memory_stack') = calls[h].depth
      /\ Agree(memory_stack', memory_stack)
      /\ marks' \in Seq(PoolCell) /\ Len(marks') = calls[h].mark - 1
      /\ Agree(marks', marks)
      /\ nargin_values' \in Seq(Argc) /\ Agree(nargin_values', nargin_values)
      /\ Len(nargin_values') =
            IF Len(nargin_values) <= mark_narg_size THEN Len(nargin_values) ELSE mark_narg_size
  BY <1>1, RestoreIs
<1>4. /\ CallsTyped(s) /\ Nested(s) /\ BeginsAtBase(s) /\ Guarded(s)
      /\ Len(s) = n /\ \A i \in 1 .. n : s[i] = calls[i]
  BY <1>2, PrefixNested
<1>5. /\ calls[h] \in Frame /\ calls[h].depth \in 1 .. Len(memory_stack)
      /\ memory_stack[calls[h].depth] = calls[h].cell
      /\ calls[h].mark \in 1 .. Len(marks)
      /\ calls[h].entries \in Nat /\ calls[h].entries <= mark_narg_size
      /\ calls[h].entries <= Len(nargin_values)
      /\ calls[h].names \in Nat /\ calls[h].names <= Len(user_func_calls)
      /\ calls[h].depth \in Nat /\ calls[h].mark \in Nat /\ calls[h].cell \in PoolCell
  BY <1>2, FrameFields DEF CallsInv, Held
<1>6. calls[h].entries <= Len(nargin_values')
  BY <1>3, <1>5
<1>7. Held(s, memory_stack', marks', mark_narg_size', nargin_values', user_func_calls')
  <2>1. /\ Len(memory_stack) \in Nat /\ Len(marks) \in Nat
        /\ Len(nargin_values) \in Nat /\ Len(user_func_calls) \in Nat
        /\ Agree(user_func_calls', user_func_calls)
    BY <1>1, Lengths, AgreeOnes
  <2>2. /\ Len(memory_stack') \in Nat /\ Len(marks') \in Nat
        /\ Len(nargin_values') \in Nat /\ Len(user_func_calls') \in Nat
    BY <1>1, <1>3, <2>1
  <2>3. ASSUME NEW i \in 1 .. n
        PROVE  /\ calls[i].depth <= Len(memory_stack')
               /\ calls[i].kind \in Handler =>
                     calls[i].mark <= Len(marks') /\ calls[i].entries <= mark_narg_size'
               /\ calls[i].entries <= Len(nargin_values')
               /\ calls[i].names <= Len(user_func_calls')
    <3>1. /\ calls[i].depth \in Nat /\ calls[i].entries \in Nat
          /\ calls[i].names \in Nat /\ calls[i].mark \in Nat
          /\ calls[i].depth <= calls[h].depth /\ calls[i].entries <= calls[h].entries
          /\ calls[i].names <= calls[h].names /\ calls[i].mark + 1 <= calls[h].mark
      BY <1>2, BelowHandler
    <3>2. calls[i].depth <= Len(memory_stack') /\ calls[i].mark <= Len(marks')
      BY <1>3, <1>5, <3>1
    <3>3. calls[i].entries <= mark_narg_size'
      BY <1>1, <1>5, <3>1, Lengths
    <3>4. calls[i].entries <= Len(nargin_values')
      BY <1>5, <1>6, <2>2, <3>1, SMTT(30)
    <3>5. calls[i].names <= Len(user_func_calls')
      BY <1>1, <1>5, <2>1, <3>1
    <3> QED
      BY <3>2, <3>3, <3>4, <3>5
  <2> QED
    BY <1>2, <1>3, <2>1, <2>2, <2>3, HeldBy
<1>8. CASE calls[h].kind \in Whole
  <2>1. calls' = s
    BY <1>8 DEF Whole
  <2>2. h = 1
    <3> SUFFICES ASSUME h # 1 PROVE FALSE
      OBVIOUS
    <3>1. 1 \in 1 .. Len(calls) /\ 1 < h
      BY <1>2
    <3> QED
      BY <1>2, <1>8, <3>1 DEF CallsInv, Nested, Inside
  <2>3. calls' = <<>>
    <3>1. Len(s) = 0 /\ s \in Seq(Frame)
      BY <1>4, <2>2 DEF CallsTyped
    <3> QED
      BY <2>1, <3>1, EmptySeq
  <2>4. calls[1].depth = 1
    BY <1>2, <2>2 DEF CallsInv, BeginsAtBase
  <2>5. AtTop(calls', memory_stack', marks')
    BY <1>3, <2>2, <2>3, <2>4 DEF AtTop
  <2> QED
    BY <1>1, <1>3, <1>4, <1>7, <2>1, <2>5, Lengths DEF StacksTyped, CallsInv
<1>9. CASE calls[h].kind \notin Whole
  <2> DEFINE e == [calls[h] EXCEPT !.kind = "catch", !.mark = @ - 1]
  <2>1. calls' = Append(s, e)
    BY <1>9 DEF Whole
  <2>2. /\ e.kind = "catch" /\ e.depth = calls[h].depth /\ e.entries = calls[h].entries
        /\ e.names = calls[h].names /\ e.mark = calls[h].mark - 1 /\ e.cell = calls[h].cell
    BY <1>5 DEF Frame
  <2>3. e \in Frame
    <3>1. calls[h].mark - 1 \in Nat /\ "catch" \in Kind
      BY <1>5 DEF Kind
    <3> QED
      BY <1>5, <3>1 DEF Frame
  <2> HIDE DEF e
  <2>4. /\ e.kind \notin Whole /\ e.kind \notin Handler /\ e.kind \notin Counted
        /\ e.kind # "user" /\ e.kind # "unguarded"
        /\ Scopes(e.kind) = 0 /\ Counts(e.kind) = 0 /\ Marks(e.kind) = 0
    BY <2>2 DEF Whole, Handler, Counted, Scopes, Counts, Marks
  <2>5. Above(s, e)
    <3> SUFFICES ASSUME NEW i \in 1 .. n
                 PROVE  /\ Inside(calls[i], e)
                        /\ i = n => e.depth = calls[i].depth + Scopes(e.kind)
                        /\ NoHandler(calls, i + 1, n) => e.mark = calls[i].mark + Marks(e.kind)
      <4>1. \A i \in 1 .. n : NoHandler(s, i + 1, n) => NoHandler(calls, i + 1, n)
        <5> SUFFICES ASSUME NEW i \in 1 .. n, NoHandler(s, i + 1, n), NEW k \in (i + 1) .. n
                     PROVE  calls[k].kind \notin Handler
          BY DEF NoHandler
        <5>1. k \in 1 .. n /\ s[k].kind \notin Handler
          BY DEF NoHandler
        <5> QED
          BY <1>4, <5>1
      <4> QED
        BY <1>4, <4>1 DEF Above
    <3>1. /\ calls[i].depth \in Nat /\ calls[i].entries \in Nat
          /\ calls[i].names \in Nat /\ calls[i].mark \in Nat
          /\ calls[i].depth <= calls[h].depth /\ calls[i].entries <= calls[h].entries
          /\ calls[i].names <= calls[h].names /\ calls[i].mark + 1 <= calls[h].mark
          /\ i = h - 1 => calls[i].depth = calls[h].depth
          /\ NoHandler(calls, i + 1, h - 1) => calls[h].mark = calls[i].mark + 1
      BY <1>2, BelowHandler
    <3>2. Inside(calls[i], e)
      BY <1>5, <2>2, <2>4, <3>1, SMTT(30) DEF Inside
    <3> QED
      BY <1>5, <2>2, <2>4, <3>1, <3>2
  <2>6. s # <<>>
    <3>1. h # 1
      BY <1>2, <1>9 DEF CallsInv, BeginsAtBase
    <3> QED
      BY <1>2, <1>4, <3>1
  <2>7. CallsTyped(calls') /\ Nested(calls') /\ BeginsAtBase(calls') /\ Guarded(calls')
    BY <1>4, <2>1, <2>3, <2>4, <2>5, <2>6, PushNested
  <2>8. /\ e.depth \in 1 .. Len(memory_stack') /\ memory_stack'[e.depth] = e.cell
        /\ e.entries <= Len(nargin_values') /\ e.names <= Len(user_func_calls')
        /\ e.depth = Len(memory_stack') /\ e.mark = Len(marks')
    <3>1. e.depth \in 1 .. Len(memory_stack') /\ memory_stack'[e.depth] = e.cell
      BY <1>3, <1>5, <2>2 DEF Agree
    <3> QED
      BY <1>1, <1>3, <1>5, <1>6, <2>2, <3>1, SMTT(30)
  <2>9. /\ Held(calls', memory_stack', marks', mark_narg_size', nargin_values', user_func_calls')
        /\ AtTop(calls', memory_stack', marks')
    BY <1>4, <1>7, <2>1, <2>3, <2>4, <2>8, PushHeld
  <2> QED
    BY <1>1, <1>3, <2>7, <2>9, Lengths DEF StacksTyped, CallsInv
<1> QED
  BY <1>8, <1>9

\* A call that returns was not the command itself, so a scope is left below its own.
LEMMA ScopeBelow ==
    ASSUME UnwindInv, ~Idle, Top.kind = "user"
    PROVE  Depth - 1 \in 1 .. (Depth - 1)
<1>1. Top = calls[Len(calls)] /\ Len(calls) > 0 /\ Len(calls) \in Nat
  BY Lengths DEF Top, Last
<1>2. Len(calls) # 1
  BY <1>1 DEF UnwindInv, CallsInv, BeginsAtBase, Whole, Idle
<1>3. Len(calls) - 1 \in 1 .. Len(calls) - 1 /\ Len(calls) - 1 \in 1 .. Len(calls)
  BY <1>1, <1>2
<1>4. calls[Len(calls) - 1].depth + Scopes("user") = Depth
  BY <1>1, <1>3, BelowTop
<1>5. calls[Len(calls) - 1].depth \in 1 .. Len(memory_stack)
  BY <1>3 DEF UnwindInv, CallsInv, Held
<1>6. Scopes("user") = 1
  BY DEF Scopes
<1> QED
  BY <1>4, <1>5, <1>6, Lengths

\* Closing what is above the top changes nothing.
LEMMA CloseNothing ==
    ASSUME PoolInv, CloseDownTo(Depth)
    PROVE  UNCHANGED poolVars
<1>1. PoolTypeOK /\ Depth \in Nat /\ Depth >= 1
  BY DepthPositive DEF PoolInv
<1>2. Closed(Depth) = {}
  BY <1>1 DEF Closed
<1>3. envs' = envs
  <2>1. envs' = [h \in DOMAIN envs |-> envs[h]]
    BY <1>2 DEF CloseDownTo, ClearEnv, EnvsWithout
  <2> QED
    BY <1>1, <2>1 DEF PoolTypeOK
<1>4. rev_envs' = rev_envs
  <2>1. rev_envs' = [c \in DOMAIN rev_envs |-> rev_envs[c]]
    BY <1>2 DEF CloseDownTo, ClearEnv, RevEnvsWithout
  <2> QED
    BY <1>1, <2>1 DEF PoolTypeOK
<1>5. allocated_envs' = allocated_envs
  BY <1>2 DEF CloseDownTo, ClearEnv
<1>6. fi' = fi
  <2>1. fi' = [c \in Cell |-> fi[c]]
    BY <1>2 DEF CloseDownTo
  <2> QED
    BY <1>1, <2>1 DEF PoolTypeOK
<1>7. unused_scopes' = unused_scopes
  <2>1. Recycled(Depth) \in Seq(PoolCell) /\ Len(Recycled(Depth)) = 0
    BY <1>1, RecycledType
  <2>2. Recycled(Depth) = <<>>
    BY <2>1, EmptySeq
  <2>3. unused_scopes' = unused_scopes \o <<>>
    BY <2>2 DEF CloseDownTo
  <2> QED
    BY <1>1, <2>3 DEF PoolTypeOK
<1>8. memory_stack' = memory_stack
  BY <1>1 DEF CloseDownTo, PoolTypeOK, Depth
<1>9. first_scope_with_nested' = first_scope_with_nested
  BY <1>1 DEF CloseDownTo, PoolTypeOK
<1>10. registered' = registered /\ pool_in_use' = pool_in_use /\ env_counter' = env_counter
  BY <1>2 DEF CloseDownTo
<1> QED
  BY <1>3, <1>4, <1>5, <1>6, <1>7, <1>8, <1>9, <1>10 DEF poolVars, stackVars, envVars

\* Every step is a step of the scope pool, or leaves it alone.
LEMMA StepOfPool ==
    ASSUME UnwindInv, [UnwindNext]_allVars
    PROVE  [PoolNext]_poolVars
<1>1. ASSUME NEW n \in 1 .. Depth, CloseDownTo(n) PROVE [PoolNext]_poolVars
  <2>1. CASE n = Depth
    BY <1>1, <2>1, CloseNothing DEF UnwindInv
  <2>2. CASE n # Depth
    <3>1. n \in 1 .. (Depth - 1)
      BY <2>2, Lengths
    <3> QED
      BY <1>1, <3>1 DEF PoolNext, CloseTo
  <2> QED
    BY <2>1, <2>2
<1>2. CASE ReturnUser
  <2>1. Depth - 1 \in 1 .. Depth /\ CloseDownTo(Depth - 1)
    BY <1>2, ScopeBelow, Lengths DEF ReturnUser, Running
  <2> QED
    BY <1>1, <2>1
<1>3. CASE Throw
  <2>1. PICK h \in 1 .. Len(calls) : Catches(h)
    BY <1>3 DEF Throw
  <2>2. CloseDownTo(calls[h].depth) /\ calls[h].depth \in 1 .. Depth
    BY <1>3, <2>1, RestoreIs, MarkOfHandler DEF Throw
  <2> QED
    BY <1>1, <2>2
<1>4. ASSUME NEW f \in Function, NEW n \in Argc, CallUser(f, n) PROVE [PoolNext]_poolVars
  BY <1>4 DEF CallUser, PoolNext
<1>5. CASE \/ Run \/ HostCall \/ (\E kind \in Callbacks : Attempt(kind))
           \/ (\E n \in Argc : CallBuiltin(n)) \/ ReturnBuiltin \/ Complete \/ CompleteUnmarked
  BY <1>5, Zenon DEF Run, HostCall, Attempt, Enter, CallBuiltin, ReturnBuiltin, Complete,
                     CompleteUnmarked
<1>6. CASE UNCHANGED allVars
  BY <1>6 DEF allVars
<1> QED
  BY <1>2, <1>3, <1>4, <1>5, <1>6 DEF UnwindNext

\* No step breaks the invariant, if no callback is unguarded.
LEMMA UnwindStep ==
    ASSUME UnwindInv, [UnwindNext]_allVars, "unguarded" \notin Callbacks
    PROVE  UnwindInv'
<1>0. PoolInv' /\ Base' = Base
  BY StepOfPool, StepPreserves, BaseIsFixed DEF UnwindInv
<1>1. SUFFICES StacksTyped' /\ CallsInv'
  BY <1>0 DEF UnwindInv
<1>2. /\ memory_stack \in Seq(PoolCell) /\ Agree(memory_stack, memory_stack)
      /\ marks \in Seq(PoolCell) /\ Agree(marks, marks)
      /\ nargin_values \in Seq(Argc) /\ Agree(nargin_values, nargin_values)
      /\ user_func_calls \in Seq(Function) /\ Agree(user_func_calls, user_func_calls)
      /\ Depth = Len(memory_stack) /\ Len(marks) \in Nat /\ Depth \in Nat
      /\ Len(nargin_values) \in Nat /\ Len(user_func_calls) \in Nat
  BY Lengths, AgreeOnes
<1>3. /\ Popped(marks) \in Seq(PoolCell) /\ Agree(Popped(marks), marks)
      /\ Popped(nargin_values) \in Seq(Argc) /\ Agree(Popped(nargin_values), nargin_values)
      /\ Popped(user_func_calls) \in Seq(Function)
      /\ Agree(Popped(user_func_calls), user_func_calls)
      /\ marks # <<>> => Len(Popped(marks)) = Len(marks) - 1
      /\ Len(Popped(nargin_values)) >= Len(nargin_values) - 1
      /\ Len(Popped(user_func_calls)) >= Len(user_func_calls) - 1
  <2>1. ASSUME NEW S, NEW q \in Seq(S) PROVE Len(Popped(q)) >= Len(q) - 1
    <3>1. CASE q = <<>>
      BY <3>1 DEF Popped
    <3>2. CASE q # <<>>
      BY <3>2, PoppedIs
    <3> QED
      BY <3>1, <3>2
  <2> QED
    BY <1>2, <2>1, PoppedIs, AgreeOnes
<1>4. ~Idle => Top.kind = calls[Len(calls)].kind /\ Len(calls) \in 1 .. Len(calls)
  BY Lengths DEF Top, Last
<1>5. CASE Run \/ HostCall
  BY <1>5, EnterStep DEF Run, HostCall, Kind, Whole
<1>6. ASSUME NEW kind \in Callbacks, Attempt(kind) PROVE StacksTyped' /\ CallsInv'
  <2>1. kind \in {"try", "guarded"} /\ kind \in Kind
    BY CallbackAssumption DEF Kind
  <2> QED
    BY <1>6, <2>1, EnterStep DEF Attempt, Running
<1>7. ASSUME NEW f \in Function, NEW n \in Argc, CallUser(f, n)
      PROVE  StacksTyped' /\ CallsInv'
  <2>1. OpenScope(f) /\ ~Idle /\ PushCall("user", f, n)
        /\ nargin_values' = Append(nargin_values, n)
        /\ user_func_calls' = Append(user_func_calls, f)
        /\ UNCHANGED <<marks, mark_narg_size>>
    BY <1>7 DEF CallUser, Running
  <2>2. PICK c \in PoolCell : memory_stack' = Append(memory_stack, c)
    BY <2>1, OpenPushes DEF UnwindInv, Push
  <2>3. "user" \in Counted /\ f \in Function \cup {NULL}
    BY DEF Counted
  <2> QED
    BY <2>1, <2>2, <2>3, CallStep
<1>8. ASSUME NEW n \in Argc, CallBuiltin(n) PROVE StacksTyped' /\ CallsInv'
  <2>1. ~Idle /\ PushCall("builtin", NULL, n)
        /\ nargin_values' = Append(nargin_values, n)
        /\ UNCHANGED <<marks, mark_narg_size, memory_stack, user_func_calls>>
    BY <1>8 DEF CallBuiltin, Running, poolVars, stackVars
  <2>2. "builtin" \in Counted /\ NULL \in Function \cup {NULL}
    BY DEF Counted
  <2>3. Current \in PoolCell
    BY Lengths DEF Current
  <2> QED
    BY <2>1, <2>2, <2>3, CallStep
<1>9. CASE ReturnUser
  <2>1. /\ ~Idle /\ PopCall /\ Top.kind = "user" /\ CloseDownTo(Depth - 1)
        /\ user_func_calls' = Popped(user_func_calls)
        /\ nargin_values' = Popped(nargin_values)
        /\ UNCHANGED <<marks, mark_narg_size>>
    BY <1>9 DEF ReturnUser, Running
  <2>2. Depth - 1 \in 1 .. Depth
    BY <2>1, ScopeBelow, Lengths
  <2>3. /\ memory_stack' \in Seq(PoolCell) /\ Len(memory_stack') = Depth - 1
        /\ Agree(memory_stack', memory_stack)
    BY <2>1, <2>2, CloseKeeps
  <2>4. Scopes("user") = 1 /\ Counts("user") = 1 /\ Marks("user") = 0
    BY DEF Scopes, Counts, Marks, Counted, Handler
  <2>5. Len(marks') = Len(marks) - Marks("user")
    BY <1>2, <2>1, <2>4
  <2> QED
    BY <1>2, <1>3, <2>1, <2>3, <2>4, <2>5, PopStep
<1>10. CASE ReturnBuiltin
  <2>1. /\ ~Idle /\ PopCall /\ Top.kind = "builtin"
        /\ nargin_values' = Popped(nargin_values)
        /\ UNCHANGED <<memory_stack, user_func_calls, marks, mark_narg_size>>
    BY <1>10 DEF ReturnBuiltin, Running, poolVars, stackVars
  <2>2. Scopes("builtin") = 0 /\ Counts("builtin") = 1 /\ Marks("builtin") = 0
    BY DEF Scopes, Counts, Marks, Counted, Handler
  <2>3. /\ Len(memory_stack') = Depth - Scopes("builtin")
        /\ Len(marks') = Len(marks) - Marks("builtin")
        /\ Len(user_func_calls') >= Len(user_func_calls) - Scopes("builtin")
    BY <1>2, <2>1, <2>2
  <2> QED
    BY <1>2, <1>3, <2>1, <2>2, <2>3, PopStep
<1>11. CASE Complete
  <2>1. /\ ~Idle /\ PopCall /\ Top.kind \in {"run", "try", "guarded", "unguarded"}
        /\ marks' = Popped(marks)
        /\ UNCHANGED <<memory_stack, user_func_calls, nargin_values, mark_narg_size>>
    BY <1>11 DEF Complete, Running, poolVars, stackVars
  <2>2. Top.kind # "unguarded"
    BY <1>4, <2>1 DEF UnwindInv, CallsInv, Guarded
  <2>3. Top.kind \in Handler /\ Top.kind \notin Counted /\ Top.kind # "user"
    BY <2>1, <2>2 DEF Handler, Counted
  <2>4. Scopes(Top.kind) = 0 /\ Counts(Top.kind) = 0 /\ Marks(Top.kind) = 1
    BY <2>3 DEF Scopes, Counts, Marks
  <2>5. marks # <<>>
    <3>1. calls[Len(calls)].mark \in 1 .. Len(marks)
      BY <1>4, <2>1, <2>3 DEF UnwindInv, CallsInv, Held
    <3> QED
      BY <1>2, <3>1
  <2>6. /\ Len(memory_stack') = Depth - Scopes(Top.kind)
        /\ Len(marks') = Len(marks) - Marks(Top.kind)
        /\ Len(user_func_calls') >= Len(user_func_calls) - Scopes(Top.kind)
        /\ Len(nargin_values') >= Len(nargin_values) - Counts(Top.kind)
    BY <1>2, <1>3, <2>1, <2>4, <2>5
  <2> DEFINE k == Top.kind
  <2> QED
    BY <1>2, <1>3, <2>1, <2>6, PopStep
<1>12. CASE CompleteUnmarked
  <2>1. /\ ~Idle /\ PopCall /\ Top.kind \in {"host", "catch"}
        /\ UNCHANGED <<memory_stack, user_func_calls, nargin_values, marks, mark_narg_size>>
    BY <1>12 DEF CompleteUnmarked, Running, poolVars, stackVars
  <2>2. Scopes(Top.kind) = 0 /\ Counts(Top.kind) = 0
    BY <2>1 DEF Scopes, Counts, Counted
  <2>3. Len(calls) = 1 \/ Len(marks') = Len(marks) - Marks(Top.kind)
    <3>1. CASE Top.kind = "catch"
      <4>1. Marks(Top.kind) = 0
        BY <3>1 DEF Marks, Handler
      <4> QED
        BY <1>2, <2>1, <4>1
    <3>2. CASE Top.kind = "host"
      <4> SUFFICES ASSUME Len(calls) # 1 PROVE FALSE
        OBVIOUS
      <4>1. Len(calls) \in Nat /\ Len(calls) > 0
        BY <2>1, Lengths
      <4>2. 1 \in 1 .. Len(calls) /\ 1 < Len(calls)
        BY <4>1, MoreThanOne
      <4> QED
        BY <1>4, <2>1, <3>2, <4>2 DEF UnwindInv, CallsInv, Nested, Inside, Whole
    <3> QED
      BY <2>1, <3>1, <3>2
  <2>4. /\ Len(memory_stack') = Depth - Scopes(Top.kind)
        /\ Len(user_func_calls') >= Len(user_func_calls) - Scopes(Top.kind)
        /\ Len(nargin_values') >= Len(nargin_values) - Counts(Top.kind)
    BY <1>2, <2>1, <2>2
  <2> QED
    BY <1>2, <2>1, <2>3, <2>4, PopStep
<1>13. CASE Throw
  BY <1>13, ThrowStep
<1>14. CASE UNCHANGED allVars
  BY <1>14 DEF allVars, poolVars, stackVars, unwindVars, UnwindInv, StacksTyped, CallsInv, Held,
               AtTop
<1> QED
  BY <1>5, <1>6, <1>7, <1>8, <1>9, <1>10, <1>11, <1>12, <1>13, <1>14 DEF UnwindNext

\* The interpreter begins idle.
LEMMA UnwindBegins == UnwindInit => UnwindInv
<1> SUFFICES ASSUME UnwindInit PROVE UnwindInv
  OBVIOUS
<1>1. PoolInv
  BY InitEstablishes DEF UnwindInit
<1>2. /\ calls = <<>> /\ marks = <<>> /\ mark_narg_size = 0 /\ nargin_values = <<>>
      /\ user_func_calls = <<>> /\ memory_stack = <<0>>
  BY DEF UnwindInit, PoolInit
<1>3. StacksTyped
  BY <1>2 DEF StacksTyped
<1>4. CallsTyped(calls) /\ Nested(calls) /\ BeginsAtBase(calls) /\ Guarded(calls)
  BY <1>2 DEF CallsTyped, Nested, BeginsAtBase, Guarded
<1>5. Held(calls, memory_stack, marks, mark_narg_size, nargin_values, user_func_calls)
  BY <1>2 DEF Held
<1>6. AtTop(calls, memory_stack, marks) /\ Base = 0
  BY <1>2 DEF AtTop, Base
<1> QED
  BY <1>1, <1>3, <1>4, <1>5, <1>6 DEF UnwindInv, CallsInv

------------------------------------------------------------------------------
(* The theorems.  They assume that every callback restores what it marked: with  *)
(* cellfun's, which does not, IdleAtBase is false.                               *)

\* UnwindInv holds in every state the interpreter reaches.
THEOREM UnwindInvariant == "unguarded" \notin Callbacks => (UnwindSpec => []UnwindInv)
<1> SUFFICES ASSUME "unguarded" \notin Callbacks PROVE UnwindSpec => []UnwindInv
  OBVIOUS
<1>1. UnwindInit => UnwindInv
  BY UnwindBegins
<1>2. UnwindInv /\ [UnwindNext]_allVars => UnwindInv'
  BY UnwindStep
<1> QED
  BY <1>1, <1>2, PTL DEF UnwindSpec

\* The frames, marks, counts and names keep their types.
THEOREM UnwindTypeCorrect == "unguarded" \notin Callbacks => (UnwindSpec => []UnwindTypeOK)
<1>1. UnwindInv => UnwindTypeOK
  BY DEF UnwindInv, PoolInv, StacksTyped, CallsInv, CallsTyped, UnwindTypeOK
<1> SUFFICES ASSUME "unguarded" \notin Callbacks PROVE UnwindSpec => []UnwindTypeOK
  OBVIOUS
<1>2. UnwindSpec => []UnwindInv
  BY UnwindInvariant
<1> QED
  BY <1>1, <1>2, PTL

\* Whatever was called, returned, failed and was caught, code runs in the scope its
\* function opened, and every function below has its own scope still.
THEOREM CodeRunsInItsScope ==
    "unguarded" \notin Callbacks => (UnwindSpec => []RunsInOwnScope)
<1>1. UnwindInv => RunsInOwnScope
  BY DEF UnwindInv, CallsInv, Held, AtTop, RunsInOwnScope, Idle, Top, Last, Depth
<1> SUFFICES ASSUME "unguarded" \notin Callbacks PROVE UnwindSpec => []RunsInOwnScope
  OBVIOUS
<1>2. UnwindSpec => []UnwindInv
  BY UnwindInvariant
<1> QED
  BY <1>1, <1>2, PTL

\* Between two commands the base workspace is the only scope, whatever failed before, if
\* no callback is unguarded.  It says nothing of marks: CallFunction leaves its own.
THEOREM CommandsBeginAtBase ==
    "unguarded" \notin Callbacks => (UnwindSpec => []IdleAtBase)
<1>1. UnwindInv => IdleAtBase
  BY DEF UnwindInv, CallsInv, AtTop, IdleAtBase, Idle, Depth
<1> SUFFICES ASSUME "unguarded" \notin Callbacks PROVE UnwindSpec => []IdleAtBase
  OBVIOUS
<1>2. UnwindSpec => []UnwindInv
  BY UnwindInvariant
<1> QED
  BY <1>1, <1>2, PTL

\* A handler's mark is the latest one when its error arrives.
THEOREM RestoreFindsItsMark ==
    "unguarded" \notin Callbacks => (UnwindSpec => []MarksMatchHandlers)
<1>1. UnwindInv => MarksMatchHandlers
  BY DEF UnwindInv, CallsInv, Held, AtTop, MarksMatchHandlers, Idle, Top, Last
<1> SUFFICES ASSUME "unguarded" \notin Callbacks PROVE UnwindSpec => []MarksMatchHandlers
  OBVIOUS
<1>2. UnwindSpec => []UnwindInv
  BY UnwindInvariant
<1> QED
  BY <1>1, <1>2, PTL

\* Restore takes no argument count and no name from a call that still runs.
THEOREM RunningCallsKeepCounts ==
    "unguarded" \notin Callbacks => (UnwindSpec => []EntriesKept)
<1>1. UnwindInv => EntriesKept
  BY DEF UnwindInv, CallsInv, Held, EntriesKept, Counted
<1> SUFFICES ASSUME "unguarded" \notin Callbacks PROVE UnwindSpec => []EntriesKept
  OBVIOUS
<1>2. UnwindSpec => []UnwindInv
  BY UnwindInvariant
<1> QED
  BY <1>1, <1>2, PTL
=============================================================================
