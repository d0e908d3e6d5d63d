---------------------------- MODULE ParforProofs ----------------------------
(***************************************************************************)
(* A parfor loop runs every iteration once, leaves no thread, reduces to   *)
(* what a for loop computes and comes to its end, for every range and      *)
(* number of threads.                                                      *)
(***************************************************************************)
EXTENDS Parfor, TLAPS, WellFoundedInduction

StepName == {"none", "top", "copying", "using", "used", "dropping", "reporting", "ended"}

\* What the proofs need of the types.
Typed ==
    /\ loop.first \in Int /\ loop.last \in Int /\ loop.num_threads \in Thread
    /\ pc \in {"spawn", "done", "failed"}
    /\ spawned \in 0 .. loop.num_threads /\ joined \in 0 .. loop.num_threads
    /\ thread_end \in Int
    /\ helper \in [Thread -> [next : Int, last : Int]]
    /\ step \in [Thread -> StepName]
    /\ ran \subseteq Thread \X Int
    /\ thread_error \in Thread \cup {0, -1}

Begun == 1 .. spawned

\* Where the chunk of thread t begins.
Begin(t) == IF t = 1 THEN loop.first ELSE helper[t - 1].last + 1

\* The chunks follow one another without a gap.
Chunks ==
    /\ spawned > 0 => thread_end = helper[spawned].last
    /\ \A t \in Begun : helper[t].last <= loop.last
    /\ loop.last < loop.first => \A t \in Begun : helper[t].last < Begin(t)
    /\ loop.first <= loop.last =>
        /\ \A t \in Begun : loop.first <= Begin(t) /\ Begin(t) <= helper[t].last + 1
        /\ \A s, t \in Begun : s < t => helper[s].last < Begin(t)
        /\ spawned > 0 =>
            /\ \/ thread_end = loop.last
               \/ thread_end = loop.first + spawned * ThreadRange - 1
            /\ \A i \in loop.first .. thread_end :
                  \E t \in Begun : Begin(t) <= i /\ i <= helper[t].last

\* Each thread has run its chunk up to its next value, unless some thread failed.
Progress ==
    /\ \A t \in Begun :
        /\ Begin(t) <= helper[t].next
        /\ helper[t].next = Begin(t) \/ helper[t].next <= helper[t].last + 1
    /\ \A r \in ran :
        /\ r[1] \in Begun
        /\ Begin(r[1]) <= r[2] /\ r[2] < helper[r[1]].next /\ r[2] <= helper[r[1]].last
    /\ thread_error = 0 =>
        \A t \in Begun :
            /\ step[t] # "reporting" =>
                  \A i \in Int : Begin(t) <= i /\ i < helper[t].next => <<t, i>> \in ran
            /\ step[t] = "ended" => Done(t)

\* The interpreter's thread goes on when every thread it started has ended.
Waiting ==
    /\ \A t \in Thread : step[t] = "none" <=> t > spawned
    /\ \A t \in 1 .. joined : step[t] = "ended"
    /\ joined > 0 => spawned = loop.num_threads
    /\ pc # "spawn" => spawned = loop.num_threads /\ joined = loop.num_threads
    /\ pc = "done" => thread_error = 0

\* The inductive invariant.
ParforInv == Typed /\ Chunks /\ Progress /\ Waiting

------------------------------------------------------------------------------
\* The threads that were started are threads, and each but the first follows another.
LEMMA BegunThreads ==
    ASSUME Typed
    PROVE  /\ loop.num_threads \in Nat \ {0} /\ spawned \in Nat /\ Begun \subseteq Thread
           /\ \A t \in Begun : t \in Nat \ {0} /\ (t # 1 => t - 1 \in Begun /\ t - 1 \in Thread)
<1>1. loop.num_threads \in Thread /\ spawned \in 0 .. loop.num_threads
  BY DEF Typed
<1> QED BY <1>1, ThreadsAssumption DEF Thread, Begun

(* Division *)

\* Integer division rounds down.
LEMMA Division ==
    ASSUME NEW a \in Int, NEW n \in Nat \ {0}
    PROVE  /\ (a \div n) \in Int
           /\ n * (a \div n) <= a
           /\ a < n * (a \div n) + n
OBVIOUS

\* The sign of a factor from the product.
LEMMA FactorSign ==
    ASSUME NEW n \in Nat \ {0}, NEW c \in Int
    PROVE  (n * c < n => c <= 0) /\ (n * c >= 1 => c >= 1)
OBVIOUS

\* One multiple more.
LEMMA NextMultiple ==
    ASSUME NEW n \in Nat, NEW c \in Int
    PROVE  (n + 1) * c = n * c + c
OBVIOUS

\* A chunk of no positive length is empty.
LEMMA EmptyChunk ==
    ASSUME NEW s \in Int, NEW e \in Int, NEW c \in Int, c <= 0, e <= s + c - 1
    PROVE  e < s
OBVIOUS

\* The chunks are long enough for the threads to cover the range.
LEMMA ThreadRangeCovers ==
    ASSUME Typed
    PROVE  /\ ThreadRange \in Int
           /\ loop.num_threads * ThreadRange >= loop.last - loop.first + 1
           /\ loop.last < loop.first => ThreadRange <= 0
           /\ loop.first <= loop.last => ThreadRange >= 1
<1> DEFINE n == loop.num_threads
           a == loop.last - loop.first + n
<1>1. n \in Nat \ {0} /\ a \in Int
  <2>1. loop.num_threads \in Thread /\ loop.first \in Int /\ loop.last \in Int
    BY DEF Typed
  <2> QED BY <2>1, ThreadsAssumption DEF Thread
<1>2. ThreadRange = a \div n
  BY DEF ThreadRange
<1>3. ThreadRange \in Int /\ n * ThreadRange <= a /\ a < n * ThreadRange + n
  BY <1>1, <1>2, Division
<1> HIDE DEF n
<1>4. (n * ThreadRange) \in Int
  BY <1>1, <1>3
<1>5. loop.first \in Int /\ loop.last \in Int
  BY DEF Typed
<1>6. n * ThreadRange >= loop.last - loop.first + 1
  BY <1>1, <1>3, <1>4, <1>5
<1>7. loop.last < loop.first => n * ThreadRange < n
  BY <1>1, <1>3, <1>4, <1>5
<1>8. loop.first <= loop.last => n * ThreadRange >= 1
  BY <1>4, <1>5, <1>6
<1> QED BY <1>1, <1>3, <1>6, <1>7, <1>8, FactorSign DEF n

------------------------------------------------------------------------------
(* Steps that leave the chunks alone *)

\* A step that moves no chunk's end keeps the chunks.
LEMMA SameChunks ==
    ASSUME Typed, Chunks, loop' = loop, spawned' = spawned, thread_end' = thread_end,
           helper' \in [Thread -> [next : Int, last : Int]],
           \A t \in Thread : helper'[t].last = helper[t].last
    PROVE  Chunks' /\ \A t \in Begun : Begin(t)' = Begin(t)
<1>1. \A t \in Begun : t \in Thread /\ (t # 1 => t - 1 \in Thread)
  BY BegunThreads
<1>2. \A t \in Begun : Begin(t)' = Begin(t) /\ helper'[t].last = helper[t].last
  BY <1>1 DEF Begin
<1>3. ThreadRange' = ThreadRange /\ Begun' = Begun
  BY DEF ThreadRange, Begun
<1>4. spawned > 0 => spawned \in Begun
  BY DEF Begun, Typed
<1> QED BY <1>2, <1>3, <1>4 DEF Chunks

\* Steps that run nothing and end no thread.
LEMMA SameProgress ==
    ASSUME Typed, Progress, spawned' = spawned, helper' = helper, ran' = ran,
           \A t \in Begun : Begin(t)' = Begin(t),
           thread_error' = 0 => thread_error = 0,
           \A t \in Begun : step'[t] # "reporting" => step[t] # "reporting",
           \A t \in Begun : step'[t] = "ended" => step[t] = "ended" \/ Done(t)
    PROVE  Progress'
<1>1. Begun' = Begun /\ \A t \in Begun : Done(t)' = Done(t)
  BY DEF Begun, Done
<1> QED BY <1>1 DEF Progress

\* A step leaves the chunks where they are and moves at most one thread on.
LEMMA ProgressFrom ==
    ASSUME Begun' = Begun, \A u \in Begun : Begin(u)' = Begin(u),
           \A u \in Begun : /\ Begin(u) <= helper'[u].next
                            /\ helper'[u].next = Begin(u) \/ helper'[u].next <= helper'[u].last + 1,
           \A r \in ran' :
               /\ r[1] \in Begun
               /\ Begin(r[1]) <= r[2] /\ r[2] < helper'[r[1]].next /\ r[2] <= helper'[r[1]].last,
           thread_error' = 0 =>
               \A u \in Begun :
                   /\ step'[u] # "reporting" =>
                         \A k \in Int : Begin(u) <= k /\ k < helper'[u].next => <<u, k>> \in ran'
                   /\ step'[u] = "ended" => Done(u)'
    PROVE  Progress'
<1>1. \A u \in Begun' : /\ Begin(u)' <= helper'[u].next
                        /\ helper'[u].next = Begin(u)' \/ helper'[u].next <= helper'[u].last + 1
  <2> SUFFICES ASSUME NEW u \in Begun'
               PROVE  /\ Begin(u)' <= helper'[u].next
                      /\ helper'[u].next = Begin(u)' \/ helper'[u].next <= helper'[u].last + 1
    OBVIOUS
  <2>1. u \in Begun /\ Begin(u)' = Begin(u)
    OBVIOUS
  <2>2. /\ Begin(u) <= helper'[u].next
        /\ helper'[u].next = Begin(u) \/ helper'[u].next <= helper'[u].last + 1
    BY <2>1
  <2> QED BY <2>1, <2>2
<1>2. \A r \in ran' :
          /\ r[1] \in Begun'
          /\ Begin(r[1])' <= r[2] /\ r[2] < helper'[r[1]].next /\ r[2] <= helper'[r[1]].last
  OBVIOUS
<1>3. thread_error' = 0 =>
          \A u \in Begun' :
              /\ step'[u] # "reporting" =>
                    \A k \in Int : Begin(u)' <= k /\ k < helper'[u].next => <<u, k>> \in ran'
              /\ step'[u] = "ended" => Done(u)'
  OBVIOUS
<1> QED BY <1>1, <1>2, <1>3 DEF Progress

------------------------------------------------------------------------------
(* Starting a thread *)

\* The new thread's chunk begins where the last one ends, and it has run nothing.
LEMMA SpawnKeeps ==
    ASSUME ParforInv, Spawn
    PROVE  ParforInv'
<1> DEFINE c == ThreadRange
<1>0. PICK n \in Thread : n = spawned + 1
  <2>1. /\ loop.num_threads \in Thread /\ spawned \in 0 .. loop.num_threads
        /\ spawned < loop.num_threads
    BY DEF ParforInv, Typed, Spawn
  <2>2. spawned + 1 \in Thread
    BY <2>1, ThreadsAssumption DEF Thread
  <2> QED BY <2>2
<1>1. /\ loop' = loop /\ pc' = pc /\ joined' = joined /\ ran' = ran
      /\ thread_error' = thread_error /\ pc = "spawn" /\ spawned < loop.num_threads
      /\ spawned' = n /\ n = spawned + 1
      /\ helper' = [helper EXCEPT ![n] = [next |-> thread_start', last |-> thread_end']]
      /\ step' = [step EXCEPT ![n] = "top"]
  BY <1>0 DEF Spawn
<1>2. /\ loop.first \in Int /\ loop.last \in Int /\ spawned \in Nat /\ c \in Int
      /\ loop.last < loop.first => c <= 0
      /\ loop.first <= loop.last => c >= 1
      /\ n \in Thread /\ n \in 1 .. loop.num_threads /\ thread_end \in Int
      /\ joined \in 0 .. loop.num_threads
  <2>1. loop.num_threads \in Thread /\ spawned \in 0 .. loop.num_threads
        /\ joined \in 0 .. loop.num_threads
        /\ loop.first \in Int /\ loop.last \in Int /\ thread_end \in Int
    BY DEF ParforInv, Typed
  <2>2. n \in Thread /\ n \in 1 .. loop.num_threads /\ spawned \in Nat
    BY <1>1, <2>1, ThreadsAssumption DEF Thread
  <2> QED BY <2>1, <2>2, ThreadRangeCovers DEF ParforInv
<1>3. /\ thread_start' = IF spawned = 0 THEN loop.first ELSE thread_end + 1
      /\ thread_end' = Least(thread_start' + c - 1, loop.last)
  BY DEF Spawn
<1>4. thread_start' \in Int /\ thread_end' \in Int
  BY <1>2, <1>3 DEF Least
<1>5. /\ helper' \in [Thread -> [next : Int, last : Int]]
      /\ helper'[n] = [next |-> thread_start', last |-> thread_end']
      /\ \A t \in Thread : t # n => helper'[t] = helper[t]
  BY <1>1, <1>2, <1>4 DEF ParforInv, Typed
<1>6. /\ step' \in [Thread -> StepName] /\ step'[n] = "top"
      /\ \A t \in Thread : t # n => step'[t] = step[t]
  BY <1>1 DEF ParforInv, Typed, StepName
<1>7. Begun' = Begun \cup {n} /\ n \notin Begun /\ \A t \in Begun : t < n /\ t \in Thread
  <2>1. spawned' = spawned + 1 /\ spawned \in Nat
    BY <1>1, <1>2
  <2>2. Begun' = 1 .. (spawned + 1)
    BY <2>1 DEF Begun
  <2>3. Begun \subseteq Thread
    BY BegunThreads DEF ParforInv
  <2> QED BY <1>1, <2>1, <2>2, <2>3 DEF Begun
<1>8. \A t \in Begun : Begin(t)' = Begin(t) /\ helper'[t] = helper[t]
  <2>1. \A t \in Begun : t \in Nat \ {0} /\ (t # 1 => t - 1 \in Begun)
    BY BegunThreads DEF ParforInv
  <2>2. \A t \in Begun : t # n /\ (t # 1 => t - 1 # n) /\ t \in Thread
    BY <1>7, <2>1
  <2>3. \A t \in Begun : helper'[t] = helper[t]
    BY <1>5, <1>7
  <2> QED BY <1>1, <2>1, <2>3 DEF Begin
<1>9. Begin(n)' = thread_start'
  <2>1. CASE spawned = 0
    BY <1>1, <1>3, <2>1 DEF Begin
  <2>2. CASE spawned # 0
    <3>1. n # 1 /\ n - 1 = spawned /\ spawned \in Begun /\ spawned > 0
      BY <1>1, <1>2, <2>2 DEF Begun
    <3>2. thread_start' = helper[spawned].last + 1
      BY <1>3, <2>2, <3>1 DEF ParforInv, Chunks
    <3>3. helper'[spawned] = helper[spawned]
      BY <1>8, <3>1
    <3> QED BY <3>1, <3>2, <3>3 DEF Begin
  <2> QED BY <2>1, <2>2
<1>10. Typed'
  <2>1. spawned' \in 0 .. loop.num_threads
    BY <1>1, <1>2
  <2> QED BY <1>1, <1>4, <1>5, <1>6, <2>1 DEF ParforInv, Typed
<1>11. Chunks'
  <2>1. spawned' > 0 => thread_end' = helper'[spawned'].last
    BY <1>1, <1>5
  <2>2. thread_end' <= loop.last /\ thread_end' <= thread_start' + c - 1
        /\ (thread_end' = loop.last \/ thread_end' = thread_start' + c - 1)
    BY <1>2, <1>3, <1>4 DEF Least
  <2>3. \A t \in Begun' : helper'[t].last <= loop'.last
    BY <1>1, <1>5, <1>7, <1>8, <2>2 DEF ParforInv, Chunks
  <2>4. loop'.last < loop'.first => \A t \in Begun' : helper'[t].last < Begin(t)'
    <3> SUFFICES ASSUME loop.last < loop.first, NEW t \in Begun'
                 PROVE  helper'[t].last < Begin(t)'
      BY <1>1
    <3>1. CASE t = n
      <4>1. c \in Int /\ c <= 0 /\ thread_end' <= thread_start' + c - 1
        BY <1>2, <2>2
      <4>2. thread_end' < thread_start'
        BY <1>4, <4>1, EmptyChunk
      <4> QED BY <1>5, <1>9, <3>1, <4>2
    <3>2. CASE t \in Begun
      BY <1>8, <3>2 DEF ParforInv, Chunks
    <3> QED BY <1>7, <3>1, <3>2
  <2>5. ASSUME loop.first <= loop.last
        PROVE  /\ \A t \in Begun' : loop.first <= Begin(t)' /\ Begin(t)' <= helper'[t].last + 1
               /\ \A s, t \in Begun' : s < t => helper'[s].last < Begin(t)'
               /\ \/ thread_end' = loop.last
                  \/ thread_end' = loop.first + n * c - 1
               /\ \A i \in loop.first .. thread_end' :
                     \E t \in Begun' : Begin(t)' <= i /\ i <= helper'[t].last
    <3>1. spawned > 0 => spawned \in Begun /\ thread_end = helper[spawned].last
      BY <1>2 DEF ParforInv, Chunks, Begun
    <3>2. \A t \in Begun : helper[t].last \in Int /\ Begin(t) \in Int
      <4>1. \A t \in Begun : t \in Thread /\ (t # 1 => t - 1 \in Thread)
        BY BegunThreads DEF ParforInv
      <4>2. \A t \in Thread : helper[t].last \in Int
        BY DEF ParforInv, Typed
      <4>3. \A t \in Begun : helper[t].last \in Int /\ (t # 1 => helper[t - 1].last \in Int)
        BY <4>1, <4>2
      <4> QED BY <1>2, <4>3 DEF Begin
    <3>3. \A t \in Begun : helper[t].last <= thread_end /\ loop.first <= Begin(t)
                          /\ Begin(t) <= helper[t].last + 1
      <4> SUFFICES ASSUME NEW t \in Begun
                   PROVE  helper[t].last <= thread_end
        BY <2>5 DEF ParforInv, Chunks
      <4>1. spawned > 0 /\ t \in Nat /\ t <= spawned
        BY <1>2 DEF Begun
      <4>2. CASE t = spawned
        BY <3>1, <3>2, <4>1, <4>2
      <4>3. CASE t < spawned
        <5>1. helper[t].last < Begin(spawned) /\ Begin(spawned) <= helper[spawned].last + 1
          BY <2>5, <3>1, <4>1, <4>3 DEF ParforInv, Chunks
        <5>2. helper[t].last \in Int /\ Begin(spawned) \in Int /\ thread_end \in Int
          BY <1>2, <3>1, <3>2, <4>1
        <5> QED BY <3>1, <4>1, <5>1, <5>2
      <4> QED BY <1>2, <4>1, <4>2, <4>3
    <3>4. loop.first <= thread_start' /\ thread_start' <= thread_end' + 1
          /\ (spawned > 0 => thread_end + 1 = thread_start')
      <4>1. CASE spawned = 0
        BY <1>2, <1>3, <1>4, <2>2, <2>5, <4>1
      <4>2. CASE spawned > 0
        <5>1. thread_start' = thread_end + 1
          BY <1>2, <1>3, <4>2
        <5>2. loop.first <= Begin(spawned) /\ Begin(spawned) <= thread_end + 1
          BY <3>1, <3>3, <4>2
        <5>3. thread_end <= loop.last
          BY <3>1, <4>2 DEF ParforInv, Chunks
        <5> QED BY <1>2, <1>4, <2>2, <2>5, <3>1, <3>2, <4>2, <5>1, <5>2, <5>3
      <4> QED BY <1>2, <4>1, <4>2
    <3>5. \A t \in Begun' : loop.first <= Begin(t)' /\ Begin(t)' <= helper'[t].last + 1
      BY <1>5, <1>7, <1>8, <1>9, <3>3, <3>4
    <3>6. ASSUME NEW s \in Begun', NEW t \in Begun', s < t
          PROVE  helper'[s].last < Begin(t)'
      <4>1. s \in Begun /\ s \in Nat /\ t \in Nat
        BY <1>1, <1>2, <1>7, <3>6 DEF Begun
      <4>2. CASE t = n
        <5>1. spawned > 0 /\ thread_end + 1 = thread_start'
          BY <1>2, <3>4, <4>1 DEF Begun
        <5> QED BY <1>2, <1>8, <1>9, <3>2, <3>3, <4>1, <4>2, <5>1
      <4>3. CASE t \in Begun
        BY <1>8, <2>5, <3>6, <4>1, <4>3 DEF ParforInv, Chunks
      <4> QED BY <1>7, <4>2, <4>3
    <3>7. thread_end' = loop.last \/ thread_end' = loop.first + n * c - 1
      <4>1. CASE spawned = 0
        <5>1. n * c = c /\ thread_start' = loop.first
          BY <1>1, <1>2, <1>3, <4>1
        <5> QED BY <1>2, <2>2, <5>1
      <4>2. CASE spawned > 0
        <5>1. (spawned * c) \in Int /\ n * c = spawned * c + c
          BY <1>1, <1>2, NextMultiple
        <5>2. thread_end = loop.last \/ thread_end = loop.first + spawned * c - 1
          BY <2>5, <4>2 DEF ParforInv, Chunks
        <5>3. PICK p \in Int : p = spawned * c
          BY <5>1
        <5>4. n * c = p + c /\ (thread_end = loop.last \/ thread_end = loop.first + p - 1)
          BY <5>1, <5>2, <5>3
        <5>5. c \in Int /\ c >= 1 /\ thread_start' = thread_end + 1
          BY <1>2, <2>5, <3>4, <4>2
        <5> HIDE DEF c
        <5>6. thread_end' = loop.last \/ thread_end' = loop.first + (p + c) - 1
          BY <1>2, <1>4, <2>2, <5>4, <5>5
        <5> QED BY <5>4, <5>6
      <4> QED BY <1>2, <4>1, <4>2
    <3>8. ASSUME NEW i \in loop.first .. thread_end'
          PROVE  \E t \in Begun' : Begin(t)' <= i /\ i <= helper'[t].last
      <4>1. CASE thread_start' <= i
        BY <1>5, <1>7, <1>9, <4>1, <1>4, <1>2
      <4>2. CASE i < thread_start'
        <5>1. spawned > 0 /\ i <= thread_end /\ i \in loop.first .. thread_end
          BY <1>2, <1>3, <1>4, <3>4, <4>2
        <5>2. PICK t \in Begun : Begin(t) <= i /\ i <= helper[t].last
          BY <2>5, <5>1 DEF ParforInv, Chunks
        <5> QED BY <1>7, <1>8, <5>2
      <4> QED BY <1>2, <1>4, <4>1, <4>2
    <3> QED BY <3>5, <3>6, <3>7, <3>8
  <2>6. ThreadRange' = c
    BY <1>1 DEF ThreadRange
  <2> HIDE DEF c
  <2> QED BY <1>1, <2>1, <2>3, <2>4, <2>5, <2>6 DEF Chunks
<1>12. Progress'
  <2>1. \A t \in Begun' : /\ Begin(t)' <= helper'[t].next
                          /\ helper'[t].next = Begin(t)' \/ helper'[t].next <= helper'[t].last + 1
    BY <1>4, <1>5, <1>7, <1>8, <1>9 DEF ParforInv, Progress
  <2>2. \A r \in ran' : /\ r[1] \in Begun'
                        /\ Begin(r[1])' <= r[2] /\ r[2] < helper'[r[1]].next /\ r[2] <= helper'[r[1]].last
    BY <1>1, <1>7, <1>8 DEF ParforInv, Progress
  <2>3. ASSUME thread_error' = 0, NEW t \in Begun'
        PROVE  /\ step'[t] # "reporting" =>
                     \A i \in Int : Begin(t)' <= i /\ i < helper'[t].next => <<t, i>> \in ran'
               /\ step'[t] = "ended" => Done(t)'
    <3>1. CASE t = n
      BY <1>4, <1>5, <1>6, <1>9, <3>1
    <3>2. CASE t \in Begun
      <4>1. step'[t] = step[t] /\ helper'[t] = helper[t] /\ Begin(t)' = Begin(t)
        BY <1>6, <1>7, <1>8, <3>2
      <4> QED BY <1>1, <2>3, <3>2, <4>1 DEF ParforInv, Progress, Done
    <3> QED BY <1>7, <3>1, <3>2
  <2> QED BY <2>1, <2>2, <2>3 DEF Progress
<1>13. Waiting'
  <2>1. joined = 0
    BY <1>1, <1>2 DEF ParforInv, Waiting
  <2>2. \A t \in Thread : step'[t] = "none" <=> t > n
    <3>1. \A t \in Thread : t \in Nat /\ (step[t] = "none" <=> t > spawned)
      BY DEF ParforInv, Waiting, Thread
    <3> QED BY <1>1, <1>2, <1>6, <3>1
  <2> QED BY <1>1, <2>1, <2>2 DEF Waiting
<1> QED BY <1>10, <1>11, <1>12, <1>13 DEF ParforInv

------------------------------------------------------------------------------
(* Steps of the threads *)

\* A thread that has begun and not ended steps; the interpreter's thread still waits.
LEMMA ThreadSteps ==
    ASSUME ParforInv, NEW t \in Thread, NEW from, NEW to \in StepName,
           from \notin {"none", "ended"}, to # "none", Step(t, from, to)
    PROVE  /\ t \in Begun /\ step[t] = from /\ pc = "spawn"
           /\ step' \in [Thread -> StepName] /\ step'[t] = to
           /\ \A u \in Thread : u # t => step'[u] = step[u]
           /\ loop' = loop /\ pc' = pc /\ spawned' = spawned /\ joined' = joined
           /\ thread_end' = thread_end
           /\ Waiting'
<1>1. /\ step[t] = from /\ step' = [step EXCEPT ![t] = to] /\ loop' = loop /\ pc' = pc
      /\ spawned' = spawned /\ joined' = joined /\ thread_end' = thread_end
  BY DEF Step, chunkVars
<1>2. /\ step' \in [Thread -> StepName] /\ step'[t] = to
      /\ \A u \in Thread : u # t => step'[u] = step[u]
  BY <1>1 DEF ParforInv, Typed
<1>3. t \in Begun
  <2>1. ~(t > spawned)
    BY <1>1 DEF ParforInv, Waiting
  <2>2. spawned \in Nat /\ t \in Nat \ {0}
    BY BegunThreads DEF ParforInv, Thread
  <2> QED BY <2>1, <2>2 DEF Begun
<1>4. pc = "spawn"
  <2> SUFFICES ASSUME pc # "spawn" PROVE FALSE
    OBVIOUS
  <2>1. spawned = joined /\ \A u \in 1 .. joined : step[u] = "ended"
    BY DEF ParforInv, Waiting
  <2> QED BY <1>1, <1>3, <2>1 DEF Begun
<1>5. Waiting'
  <2>1. \A u \in Thread : step'[u] = "none" <=> u > spawned'
    BY <1>1, <1>2 DEF ParforInv, Waiting
  <2>2. t \notin 1 .. joined /\ 1 .. joined \subseteq Thread
    <3>1. \A u \in 1 .. joined : step[u] = "ended"
      BY DEF ParforInv, Waiting
    <3>2. joined \in 0 .. loop.num_threads /\ loop.num_threads \in Thread
      BY DEF ParforInv, Typed
    <3> QED BY <1>1, <3>1, <3>2, ThreadsAssumption DEF Thread
  <2>3. \A u \in 1 .. joined' : step'[u] = "ended"
    BY <1>1, <1>2, <2>2 DEF ParforInv, Waiting
  <2> QED BY <1>1, <1>4, <2>1, <2>3 DEF ParforInv, Waiting
<1> QED BY <1>1, <1>2, <1>3, <1>4, <1>5

\* A step that moves a thread on and neither runs nor fails an iteration.
LEMMA MoveKeeps ==
    ASSUME ParforInv, NEW t \in Thread, NEW from, NEW to \in StepName,
           from \notin {"none", "ended", "reporting"}, to \notin {"none", "reporting"},
           to = "ended" => Done(t),
           Step(t, from, to), helper' = helper, ran' = ran, thread_error' = thread_error
    PROVE  ParforInv'
<1>1. /\ t \in Begun /\ step[t] = from /\ step' \in [Thread -> StepName] /\ step'[t] = to
      /\ \A u \in Thread : u # t => step'[u] = step[u]
      /\ loop' = loop /\ pc' = pc /\ spawned' = spawned /\ joined' = joined
      /\ thread_end' = thread_end /\ Waiting'
  BY ThreadSteps
<1>2. Typed'
  BY <1>1 DEF ParforInv, Typed
<1>3. Chunks' /\ \A u \in Begun : Begin(u)' = Begin(u)
  <2>1. helper' \in [Thread -> [next : Int, last : Int]]
    BY DEF ParforInv, Typed
  <2> QED BY <1>1, <2>1, SameChunks DEF ParforInv
<1>4. Progress'
  <2>1. Begun \subseteq Thread
    BY BegunThreads DEF ParforInv
  <2>2. \A u \in Begun : step'[u] # "reporting" => step[u] # "reporting"
    BY <1>1, <2>1
  <2>3. \A u \in Begun : step'[u] = "ended" => step[u] = "ended" \/ Done(u)
    BY <1>1, <2>1
  <2> QED BY <1>1, <1>3, <2>2, <2>3, SameProgress DEF ParforInv
<1> QED BY <1>1, <1>2, <1>3, <1>4 DEF ParforInv

\* An iteration that ends is recorded, and is the next of its chunk.
LEMMA RunBodyKeeps ==
    ASSUME ParforInv, NEW t \in Thread, RunBody(t)
    PROVE  ParforInv'
<1> DEFINE i == helper[t].next
<1>1. /\ ~Done(t) /\ helper' = [helper EXCEPT ![t].next = @ + 1]
      /\ ran' = ran \cup {<<t, i>>} /\ thread_error' = thread_error
      /\ \/ Step(t, "using", "used") \/ Step(t, "top", "top")
  BY DEF RunBody, Advance
<1>2. /\ t \in Begun /\ step' \in [Thread -> StepName] /\ step[t] \notin {"ended", "reporting"}
      /\ step'[t] \notin {"ended", "reporting"}
      /\ \A u \in Thread : u # t => step'[u] = step[u]
      /\ loop' = loop /\ pc' = pc /\ spawned' = spawned /\ joined' = joined
      /\ thread_end' = thread_end /\ Waiting'
  BY <1>1, ThreadSteps DEF StepName
<1>3. i \in Int /\ helper[t].last \in Int /\ i <= helper[t].last
  BY <1>1 DEF ParforInv, Typed, Done
<1>4. /\ helper' \in [Thread -> [next : Int, last : Int]]
      /\ helper'[t].next = i + 1 /\ helper'[t].last = helper[t].last
      /\ \A u \in Thread : u # t => helper'[u] = helper[u]
  BY <1>1, <1>3 DEF ParforInv, Typed
<1>5. Chunks' /\ \A u \in Begun : Begin(u)' = Begin(u)
  <2>1. \A u \in Thread : helper'[u].last = helper[u].last
    BY <1>4
  <2> QED BY <1>2, <1>4, <2>1, SameChunks DEF ParforInv
<1>6. Typed'
  BY <1>1, <1>2, <1>3, <1>4 DEF ParforInv, Typed
<1>7. Progress'
  <2>1. Begun' = Begun /\ Begun \subseteq Thread
    BY <1>2, BegunThreads DEF ParforInv, Begun
  <2>2. Begin(t) \in Int /\ Begin(t) <= i
    <3>1. t # 1 => t - 1 \in Thread
      BY <1>2, BegunThreads DEF ParforInv
    <3>2. Begin(t) \in Int
      BY <3>1 DEF ParforInv, Typed, Begin
    <3> QED BY <1>2, <3>2 DEF ParforInv, Progress
  <2>3. \A u \in Begun : /\ Begin(u) <= helper'[u].next
                         /\ helper'[u].next = Begin(u) \/ helper'[u].next <= helper'[u].last + 1
    BY <1>3, <1>4, <2>1, <2>2 DEF ParforInv, Progress
  <2>4. \A r \in ran' : /\ r[1] \in Begun
                        /\ Begin(r[1]) <= r[2] /\ r[2] < helper'[r[1]].next /\ r[2] <= helper'[r[1]].last
    <3> SUFFICES ASSUME NEW r \in ran'
                 PROVE  /\ r[1] \in Begun /\ Begin(r[1]) <= r[2]
                        /\ r[2] < helper'[r[1]].next /\ r[2] <= helper'[r[1]].last
      OBVIOUS
    <3>1. CASE r = <<t, i>>
      BY <1>2, <1>3, <1>4, <2>2, <3>1
    <3>2. CASE r \in ran
      <4>1. /\ r[1] \in Begun /\ r[2] \in Int
            /\ Begin(r[1]) <= r[2] /\ r[2] < helper[r[1]].next /\ r[2] <= helper[r[1]].last
        BY <3>2 DEF ParforInv, Typed, Progress
      <4> QED BY <1>3, <1>4, <2>1, <4>1
    <3> QED BY <1>1, <3>1, <3>2
  <2>5. ASSUME thread_error' = 0, NEW u \in Begun
        PROVE  /\ step'[u] # "reporting" =>
                     \A k \in Int : Begin(u) <= k /\ k < helper'[u].next => <<u, k>> \in ran'
               /\ step'[u] = "ended" => Done(u)'
    <3>1. CASE u = t
      <4>1. \A k \in Int : Begin(t) <= k /\ k < i => <<t, k>> \in ran
        BY <1>1, <1>2, <2>5 DEF ParforInv, Progress
      <4>2. \A k \in Int : k < i + 1 => k < i \/ k = i
        BY <1>3
      <4> QED BY <1>1, <1>2, <1>4, <3>1, <4>1, <4>2
    <3>2. CASE u # t
      BY <1>1, <1>2, <1>4, <2>1, <2>5, <3>2 DEF ParforInv, Progress, Done
    <3> QED BY <3>1, <3>2
  <2> QED BY <1>5, <2>1, <2>3, <2>4, <2>5, ProgressFrom
<1> QED BY <1>2, <1>5, <1>6, <1>7 DEF ParforInv

\* A thread that skips an iteration is about to report it, or an error was reported.
LEMMA FailBodyKeeps ==
    ASSUME ParforInv, NEW t \in Thread, FailBody(t)
    PROVE  ParforInv'
<1> DEFINE to == IF thread_error = 0 THEN "reporting" ELSE "ended"
<1>1. /\ ~Done(t) /\ helper' = [helper EXCEPT ![t].next = @ + 1]
      /\ ran' = ran /\ thread_error' = thread_error /\ Step(t, "top", to)
  BY DEF FailBody, Advance
<1>2. to \in StepName /\ to # "none"
  BY DEF StepName
<1>3. /\ t \in Begun /\ step' \in [Thread -> StepName] /\ step'[t] = to
      /\ \A u \in Thread : u # t => step'[u] = step[u]
      /\ loop' = loop /\ pc' = pc /\ spawned' = spawned /\ joined' = joined
      /\ thread_end' = thread_end /\ Waiting'
  BY <1>1, <1>2, ThreadSteps
<1>4. helper[t].next \in Int /\ helper[t].last \in Int /\ helper[t].next <= helper[t].last
  BY <1>1 DEF ParforInv, Typed, Done
<1>5. /\ helper' \in [Thread -> [next : Int, last : Int]]
      /\ helper'[t].next = helper[t].next + 1 /\ helper'[t].last = helper[t].last
      /\ \A u \in Thread : u # t => helper'[u] = helper[u]
  BY <1>1, <1>4 DEF ParforInv, Typed
<1>6. Chunks' /\ \A u \in Begun : Begin(u)' = Begin(u)
  <2>1. \A u \in Thread : helper'[u].last = helper[u].last
    BY <1>5
  <2> QED BY <1>3, <1>5, <2>1, SameChunks DEF ParforInv
<1>7. Typed'
  BY <1>1, <1>3, <1>5 DEF ParforInv, Typed
<1>8. Progress'
  <2>1. Begun' = Begun /\ Begun \subseteq Thread
    BY <1>3, BegunThreads DEF ParforInv, Begun
  <2>2. Begin(t) \in Int /\ Begin(t) <= helper[t].next
    <3>1. t # 1 => t - 1 \in Thread
      BY <1>3, BegunThreads DEF ParforInv
    <3>2. Begin(t) \in Int
      BY <3>1 DEF ParforInv, Typed, Begin
    <3> QED BY <1>3, <3>2 DEF ParforInv, Progress
  <2>3. \A u \in Begun : /\ Begin(u) <= helper'[u].next
                         /\ helper'[u].next = Begin(u) \/ helper'[u].next <= helper'[u].last + 1
    BY <1>4, <1>5, <2>1, <2>2 DEF ParforInv, Progress
  <2>4. ASSUME NEW r \in ran
        PROVE  /\ r[1] \in Begun /\ Begin(r[1]) <= r[2]
               /\ r[2] < helper'[r[1]].next /\ r[2] <= helper'[r[1]].last
    <3>1. /\ r[1] \in Begun /\ r[2] \in Int
          /\ Begin(r[1]) <= r[2] /\ r[2] < helper[r[1]].next /\ r[2] <= helper[r[1]].last
      BY <2>4 DEF ParforInv, Typed, Progress
    <3> QED BY <1>4, <1>5, <2>1, <3>1
  <2>6. \A r \in ran' : /\ r[1] \in Begun
                        /\ Begin(r[1]) <= r[2] /\ r[2] < helper'[r[1]].next /\ r[2] <= helper'[r[1]].last
    BY <1>1, <2>4
  <2>5. ASSUME thread_error' = 0, NEW u \in Begun
        PROVE  /\ step'[u] # "reporting" =>
                     \A k \in Int : Begin(u) <= k /\ k < helper'[u].next => <<u, k>> \in ran'
               /\ step'[u] = "ended" => Done(u)'
    <3>1. CASE u = t
      BY <1>1, <1>3, <2>5, <3>1
    <3>2. CASE u # t
      BY <1>1, <1>3, <1>5, <2>1, <2>5, <3>2 DEF ParforInv, Progress, Done
    <3> QED BY <3>1, <3>2
  <2>7. ran' = ran
    BY <1>1
  <2> QED BY <1>6, <2>1, <2>3, <2>6, <2>5, <2>7, ProgressFrom
<1> QED BY <1>3, <1>6, <1>7, <1>8 DEF ParforInv

\* A report leaves the error string non-empty, and it stays so.
LEMMA WriteErrorKeeps ==
    ASSUME ParforInv, NEW t \in Thread, WriteError(t)
    PROVE  ParforInv'
<1>1. /\ helper' = helper /\ ran' = ran /\ Step(t, "reporting", "ended")
      /\ thread_error' \in Thread \cup {-1} /\ thread_error' # 0
  <2>1. helper' = helper /\ ran' = ran /\ Step(t, "reporting", "ended")
        /\ thread_error' \in Thread \cup {-1}
    BY DEF WriteError
  <2> QED BY <2>1, ThreadsAssumption DEF Thread
<1>2. /\ step' \in [Thread -> StepName] /\ loop' = loop /\ pc' = pc /\ spawned' = spawned
      /\ joined' = joined /\ thread_end' = thread_end /\ Waiting'
  BY <1>1, ThreadSteps DEF StepName
<1>3. Typed'
  BY <1>1, <1>2 DEF ParforInv, Typed
<1>4. Chunks' /\ \A u \in Begun : Begin(u)' = Begin(u)
  <2>1. helper' \in [Thread -> [next : Int, last : Int]]
    BY <1>1 DEF ParforInv, Typed
  <2> QED BY <1>1, <1>2, <2>1, SameChunks DEF ParforInv
<1>5. Progress'
  <2>1. Begun' = Begun
    BY <1>2 DEF Begun
  <2>2. \A u \in Begun : /\ Begin(u) <= helper'[u].next
                         /\ helper'[u].next = Begin(u) \/ helper'[u].next <= helper'[u].last + 1
    BY <1>1 DEF ParforInv, Progress
  <2>3. \A r \in ran' : /\ r[1] \in Begun
                        /\ Begin(r[1]) <= r[2] /\ r[2] < helper'[r[1]].next /\ r[2] <= helper'[r[1]].last
    BY <1>1 DEF ParforInv, Progress
  <2>4. thread_error' # 0
    BY <1>1
  <2> QED BY <1>4, <2>1, <2>2, <2>3, <2>4, ProgressFrom
<1> QED BY <1>2, <1>3, <1>4, <1>5 DEF ParforInv

------------------------------------------------------------------------------
(* The inductive invariant *)

\* The invariant holds before the first thread is started.
LEMMA InitInv == Init => ParforInv
<1> SUFFICES ASSUME Init PROVE ParforInv
  OBVIOUS
<1>1. /\ loop.first \in Int /\ loop.last \in Int /\ loop.num_threads \in Thread
      /\ pc = "spawn" /\ spawned = 0 /\ joined = 0 /\ ran = {} /\ thread_error = 0
      /\ thread_end = 0
      /\ helper = [t \in Thread |-> [next |-> 0, last |-> 0]]
      /\ step = [t \in Thread |-> "none"]
  BY LoopAssumption DEF Init
<1>2. Begun = {}
  BY <1>1 DEF Begun
<1>3. Typed
  <2>1. 0 \in 0 .. loop.num_threads
    BY <1>1, ThreadsAssumption DEF Thread
  <2> QED BY <1>1, <2>1 DEF Typed, StepName
<1>4. Chunks /\ Progress
  BY <1>1, <1>2 DEF Chunks, Progress
<1>5. Waiting
  BY <1>1, ThreadsAssumption DEF Waiting, Thread
<1> QED BY <1>3, <1>4, <1>5 DEF ParforInv

\* The interpreter's thread after the last start: it touches no thread.
LEMMA WaitKeeps ==
    ASSUME ParforInv, Join \/ Raise \/ Reduce
    PROVE  ParforInv'
<1>1. /\ loop' = loop /\ spawned' = spawned /\ thread_end' = thread_end /\ helper' = helper
      /\ step' = step /\ ran' = ran /\ thread_error' = thread_error
      /\ pc = "spawn" /\ spawned = loop.num_threads
  BY DEF Join, Raise, Reduce, Joining, chunkVars, threadVars
<1>2. /\ pc' \in {"spawn", "done", "failed"} /\ joined' \in 0 .. loop.num_threads
      /\ \A t \in 1 .. joined' : step[t] = "ended"
      /\ pc' # "spawn" => joined' = loop.num_threads
      /\ pc' = "done" => thread_error = 0
  <2>1. joined \in 0 .. loop.num_threads /\ loop.num_threads \in Nat
        /\ \A t \in 1 .. joined : step[t] = "ended"
    BY BegunThreads DEF ParforInv, Typed, Waiting
  <2>2. CASE Join
    <3>1. joined' = joined + 1 /\ joined < loop.num_threads /\ step[joined + 1] = "ended"
          /\ pc' = "spawn"
      BY <1>1, <2>2 DEF Join
    <3>2. \A t \in 1 .. (joined + 1) : t \in 1 .. joined \/ t = joined + 1
      BY <2>1
    <3> QED BY <2>1, <3>1, <3>2
  <2>3. CASE Raise
    BY <2>1, <2>3 DEF Raise
  <2>4. CASE Reduce
    BY <2>1, <2>4 DEF Reduce
  <2> QED BY <2>2, <2>3, <2>4
<1>3. Typed'
  BY <1>1, <1>2 DEF ParforInv, Typed
<1>4. Chunks' /\ \A u \in Begun : Begin(u)' = Begin(u)
  <2>1. helper' \in [Thread -> [next : Int, last : Int]]
    BY <1>1 DEF ParforInv, Typed
  <2> QED BY <1>1, <2>1, SameChunks DEF ParforInv
<1>5. Progress'
  BY <1>1, <1>4, SameProgress DEF ParforInv
<1>6. Waiting'
  BY <1>1, <1>2 DEF ParforInv, Waiting
<1> QED BY <1>3, <1>4, <1>5, <1>6 DEF ParforInv

\* Every step preserves the invariant.
LEMMA NextKeeps == ParforInv /\ [Next]_vars => ParforInv'
<1> SUFFICES ASSUME ParforInv, [Next]_vars PROVE ParforInv'
  OBVIOUS
<1>1. CASE Spawn
  BY <1>1, SpawnKeeps
<1>2. CASE Join \/ Raise \/ Reduce
  BY <1>2, WaitKeeps
<1>3. ASSUME NEW t \in Thread, ThreadNext(t) PROVE ParforInv'
  <2>1. CASE RunBody(t)
    BY <2>1, RunBodyKeeps
  <2>2. CASE LoadCount(t)
    <3>1. /\ helper' = helper /\ ran' = ran /\ thread_error' = thread_error
          /\ Step(t, "top", "copying") \/ Step(t, "used", "dropping")
      BY <2>2 DEF LoadCount
    <3> QED BY <3>1, MoveKeeps DEF StepName
  <2>3. CASE StoreCount(t)
    <3>1. /\ helper' = helper /\ ran' = ran /\ thread_error' = thread_error
          /\ Step(t, "copying", "using") \/ Step(t, "dropping", "top")
      BY <2>3 DEF StoreCount
    <3> QED BY <3>1, MoveKeeps DEF StepName
  <2>4. CASE FailBody(t)
    BY <2>4, FailBodyKeeps
  <2>5. CASE WriteError(t)
    BY <2>5, WriteErrorKeeps
  <2>6. CASE EndThread(t)
    <3>1. /\ helper' = helper /\ ran' = ran /\ thread_error' = thread_error
          /\ Done(t) /\ Step(t, "top", "ended")
      BY <2>6 DEF EndThread
    <3> QED BY <3>1, MoveKeeps DEF StepName
  <2> QED BY <1>3, <2>1, <2>2, <2>3, <2>4, <2>5, <2>6 DEF ThreadNext
<1>4. CASE UNCHANGED vars
  <2>1. /\ loop' = loop /\ pc' = pc /\ spawned' = spawned /\ joined' = joined
        /\ thread_end' = thread_end /\ helper' = helper /\ step' = step /\ ran' = ran
        /\ thread_error' = thread_error
    BY <1>4 DEF vars, chunkVars, threadVars
  <2>2. Typed'
    BY <2>1 DEF ParforInv, Typed
  <2>3. Chunks' /\ \A u \in Begun : Begin(u)' = Begin(u)
    <3>1. helper' \in [Thread -> [next : Int, last : Int]]
      BY <2>1 DEF ParforInv, Typed
    <3> QED BY <2>1, <3>1, SameChunks DEF ParforInv
  <2>4. Progress'
    BY <2>1, <2>3, SameProgress DEF ParforInv
  <2>5. Waiting'
    BY <2>1 DEF ParforInv, Waiting
  <2> QED BY <2>2, <2>3, <2>4, <2>5 DEF ParforInv
<1> QED BY <1>1, <1>2, <1>3, <1>4 DEF Next

\* The invariant of a parfor loop holds whatever its range and its threads.
THEOREM ParforInvariant == Spec => []ParforInv
BY InitInv, NextKeeps, PTL DEF Spec

------------------------------------------------------------------------------
(* What it is for *)

\* Two threads have no value in common, and none outside the range.
LEMMA ChunksDisjoint ==
    ASSUME ParforInv
    PROVE  /\ \A r, q \in ran : r[2] = q[2] => r = q
           /\ \A r \in ran : r[2] \in Iteration
<1>1. ASSUME NEW r \in ran
      PROVE  /\ r = <<r[1], r[2]>> /\ r[1] \in Begun /\ r[1] \in Nat /\ r[2] \in Int
             /\ Begin(r[1]) <= r[2] /\ r[2] <= helper[r[1]].last
             /\ helper[r[1]].last \in Int /\ Begin(r[1]) \in Int
  <2>1. r \in Thread \X Int
    BY <1>1 DEF ParforInv, Typed
  <2>2. r[1] \in Begun /\ Begin(r[1]) <= r[2] /\ r[2] <= helper[r[1]].last
    BY <1>1 DEF ParforInv, Progress
  <2>3. r[1] \in Nat \ {0} /\ (r[1] # 1 => r[1] - 1 \in Thread)
    BY <2>2, BegunThreads DEF ParforInv
  <2>4. helper[r[1]].last \in Int /\ Begin(r[1]) \in Int
    BY <2>1, <2>3 DEF ParforInv, Typed, Begin
  <2> QED BY <2>1, <2>2, <2>3, <2>4
<1>2. loop.first \in Int /\ loop.last \in Int
  BY DEF ParforInv, Typed
<1>3. ASSUME NEW r \in ran PROVE loop.first <= loop.last
  <2> SUFFICES ASSUME loop.last < loop.first PROVE FALSE
    BY <1>2
  <2>1. helper[r[1]].last < Begin(r[1])
    BY <1>1 DEF ParforInv, Chunks
  <2> QED BY <1>1, <2>1
<1>4. ASSUME NEW r \in ran PROVE r[2] \in Iteration
  <2>1. loop.first <= Begin(r[1]) /\ helper[r[1]].last <= loop.last
    BY <1>1, <1>3 DEF ParforInv, Chunks
  <2> QED BY <1>1, <1>2, <2>1 DEF Iteration
<1>5. ASSUME NEW r \in ran, NEW q \in ran, r[2] = q[2] PROVE r = q
  <2>1. \A s, t \in Begun : s < t => helper[s].last < Begin(t)
    BY <1>3 DEF ParforInv, Chunks
  <2>2. ~(r[1] < q[1])
    BY <1>1, <1>5, <2>1
  <2>3. ~(q[1] < r[1])
    BY <1>1, <1>5, <2>1
  <2>4. r[1] = q[1]
    BY <1>1, <2>2, <2>3
  <2> QED BY <1>1, <1>5, <2>4
<1> QED BY <1>4, <1>5

\* A loop that has ended has joined every thread, and joined threads have ended.
LEMMA ThreadsJoined ==
    ASSUME ParforInv
    PROVE  NoThreadLeft
<1> SUFFICES ASSUME pc # "spawn", NEW t \in Thread
             PROVE  step[t] \in {"none", "ended"}
  BY DEF NoThreadLeft
<1>1. joined = spawned /\ (step[t] = "none" <=> t > spawned)
      /\ \A u \in 1 .. joined : step[u] = "ended"
  BY DEF ParforInv, Waiting
<1>2. t \in Nat \ {0} /\ spawned \in Nat
  BY BegunThreads DEF ParforInv, Thread
<1> QED BY <1>1, <1>2

\* When the loop is done, every value of the range was run: all threads ended, none failed.
LEMMA ChunksCover ==
    ASSUME ParforInv, pc = "done", NEW i \in Iteration
    PROVE  \E t \in Thread : <<t, i>> \in ran
<1>1. loop.first \in Int /\ loop.last \in Int /\ i \in Int
      /\ loop.first <= i /\ i <= loop.last /\ loop.first <= loop.last
  BY DEF ParforInv, Typed, Iteration
<1>2. spawned = loop.num_threads /\ joined = spawned /\ thread_error = 0
  BY DEF ParforInv, Waiting
<1>3. spawned \in Nat /\ spawned > 0 /\ Begun \subseteq Thread /\ spawned \in Begun
  BY <1>2, BegunThreads DEF ParforInv, Begun
<1>4. thread_end \in Int /\ i <= thread_end
  <2>1. thread_end = loop.last \/ thread_end = loop.first + spawned * ThreadRange - 1
    BY <1>1, <1>3 DEF ParforInv, Chunks
  <2>2. ThreadRange \in Int /\ spawned * ThreadRange >= loop.last - loop.first + 1
    BY <1>2, ThreadRangeCovers DEF ParforInv
  <2>3. PICK p \in Int : p = spawned * ThreadRange
    BY <1>3, <2>2
  <2>4. p >= loop.last - loop.first + 1
        /\ (thread_end = loop.last \/ thread_end = loop.first + p - 1)
    BY <2>1, <2>2, <2>3
  <2>5. thread_end \in Int
    BY DEF ParforInv, Typed
  <2> QED BY <1>1, <2>4, <2>5
<1>5. PICK t \in Begun : Begin(t) <= i /\ i <= helper[t].last
  BY <1>1, <1>3, <1>4 DEF ParforInv, Chunks
<1>6. step[t] = "ended"
  BY <1>2, <1>5 DEF ParforInv, Waiting, Begun
<1>7. Done(t) /\ \A k \in Int : Begin(t) <= k /\ k < helper[t].next => <<t, k>> \in ran
  BY <1>2, <1>5, <1>6 DEF ParforInv, Progress
<1>8. i < helper[t].next
  <2>1. helper[t].next \in Int /\ helper[t].last \in Int
    BY <1>3, <1>5 DEF ParforInv, Typed
  <2> QED BY <1>1, <1>5, <1>7, <2>1 DEF Done
<1> QED BY <1>1, <1>3, <1>5, <1>7, <1>8

\* No iteration of a parfor loop is run twice or by mistake, and a loop that raises no
\* error has run them all.
THEOREM ParforRunsOnce == Spec => []RunOnce
<1>1. ParforInv => RunOnce
  BY ChunksDisjoint, ChunksCover DEF RunOnce
<1> QED BY <1>1, ParforInvariant, PTL

\* A parfor loop leaves no thread behind.
THEOREM ParforJoins == Spec => []NoThreadLeft
BY ParforInvariant, ThreadsJoined, PTL

------------------------------------------------------------------------------
(* Accumulating *)

\* A set of naturals that is not empty has a least element.
LEMMA LeastNatural ==
    ASSUME NEW S, S \subseteq Nat, S # {}
    PROVE  \E m \in S : \A k \in S : m <= k
<1> DEFINE R == OpToRel(<, Nat)
<1>1. IsWellFoundedOn(R, Nat)
  BY NatLessThanWellFounded, Zenon
<1>2. \A k, m \in Nat : k < m => <<k, m>> \in R
  BY DEF OpToRel
<1> HIDE DEF R
<1>3. PICK m \in S : \A k \in S : ~(<<k, m>> \in R)
  BY <1>1, WFMin
<1>4. \A k \in S : ~(k < m)
  BY <1>2, <1>3
<1> QED BY <1>4

\* Induction: a set that has 0 and the successors of its naturals has every natural.
LEMMA SetInduction ==
    ASSUME NEW S, 0 \in S, \A n \in Nat : n \in S => n + 1 \in S
    PROVE  \A n \in Nat : n \in S
<1> SUFFICES ASSUME ~(Nat \subseteq S) PROVE FALSE
  OBVIOUS
<1>1. PICK m \in Nat \ S : \A k \in Nat \ S : m <= k
  BY LeastNatural
<1>2. m # 0 /\ m - 1 \in Nat /\ m - 1 \in S
  BY <1>1
<1> QED BY <1>1, <1>2

\* f[k] is r combined with the first k of x.
IsAccumulated(f, r, x, n) ==
    /\ f \in [0 .. n -> Int]
    /\ f[0] = r
    /\ \A k \in 1 .. n : f[k] = Combine(f[k - 1], x[k])

\* Operators on integers give integers.
LEMMA CombineType == ASSUME NEW a \in Int, NEW b \in Int PROVE Combine(a, b) \in Int
BY DEF Combine

\* They are associative and commutative.
LEMMA CombineSwaps ==
    ASSUME NEW a \in Int, NEW b \in Int, NEW c \in Int
    PROVE  /\ Combine(Combine(a, b), c) = Combine(a, Combine(b, c))
           /\ Combine(a, b) = Combine(b, a)
<1>1. a * b \in Int /\ b * c \in Int /\ (a * b) * c = a * (b * c) /\ a * b = b * a
  OBVIOUS
<1> QED BY <1>1 DEF Combine

\* There is such a function for every sequence of integers.
LEMMA AccumulatedExists ==
    ASSUME NEW n \in Nat, NEW r \in Int, NEW x, \A k \in 1 .. n : x[k] \in Int
    PROVE  \E f : IsAccumulated(f, r, x, n)
<1> DEFINE S == {m \in Nat : m <= n => \E f : IsAccumulated(f, r, x, m)}
<1>1. 0 \in S
  <2>1. IsAccumulated([k \in 0 .. 0 |-> r], r, x, 0)
    BY DEF IsAccumulated
  <2> QED BY <2>1
<1>2. ASSUME NEW m \in Nat, m \in S PROVE m + 1 \in S
  <2> SUFFICES ASSUME m + 1 <= n PROVE \E f : IsAccumulated(f, r, x, m + 1)
    OBVIOUS
  <2>1. PICK f : IsAccumulated(f, r, x, m)
    BY <1>2
  <2> DEFINE g == [k \in 0 .. m + 1 |-> IF k <= m THEN f[k] ELSE Combine(f[m], x[m + 1])]
  <2>2. f \in [0 .. m -> Int] /\ x[m + 1] \in Int /\ f[m] \in Int
    BY <2>1 DEF IsAccumulated
  <2>3. Combine(f[m], x[m + 1]) \in Int
    BY <2>2, CombineType
  <2>4. g \in [0 .. m + 1 -> Int] /\ g[0] = r
    BY <2>1, <2>2, <2>3 DEF IsAccumulated
  <2>5. ASSUME NEW k \in 1 .. m + 1 PROVE g[k] = Combine(g[k - 1], x[k])
    <3>1. CASE k <= m
      BY <2>1, <3>1 DEF IsAccumulated
    <3>2. CASE k = m + 1
      BY <3>2
    <3> QED BY <3>1, <3>2
  <2> QED BY <2>4, <2>5 DEF IsAccumulated
<1> HIDE DEF S
<1>3. n \in S
  BY <1>1, <1>2, SetInduction
<1> QED BY <1>3 DEF S

\* It is the one Accumulate is defined by.
LEMMA AccumulateIs ==
    ASSUME NEW n \in Nat, NEW r \in Int, NEW x, NEW f, IsAccumulated(f, r, x, n)
    PROVE  Accumulate(r, x, n) = f[n] /\ f[n] \in Int
<1> DEFINE Eq(g) == g = [k \in 0 .. n |-> IF k = 0 THEN r ELSE Combine(g[k - 1], x[k])]
           acc == CHOOSE g : Eq(g)
<1>1. f \in [0 .. n -> Int] /\ f[0] = r /\ \A k \in 1 .. n : f[k] = Combine(f[k - 1], x[k])
  BY DEF IsAccumulated
<1>2. Eq(f)
  <2>1. \A k \in 0 .. n : k # 0 => k \in 1 .. n
    OBVIOUS
  <2> QED BY <1>1, <2>1
<1>3. Eq(acc)
  BY <1>2
<1>4. acc[0] = r /\ \A k \in 1 .. n : acc[k] = Combine(acc[k - 1], x[k])
  <2> HIDE DEF acc
  <2> QED BY <1>3
<1> DEFINE S == {m \in Nat : m <= n => acc[m] = f[m]}
<1>5. 0 \in S
  BY <1>1, <1>4
<1>6. ASSUME NEW m \in Nat, m \in S PROVE m + 1 \in S
  <2> HIDE DEF acc
  <2> SUFFICES ASSUME m + 1 <= n PROVE acc[m + 1] = f[m + 1]
    OBVIOUS
  <2>1. m + 1 \in 1 .. n /\ (m + 1) - 1 = m /\ acc[m] = f[m]
    BY <1>6
  <2> QED BY <1>1, <1>4, <2>1
<1>7. n \in S
  <2> HIDE DEF S
  <2> QED BY <1>5, <1>6, SetInduction
<1>8. Accumulate(r, x, n) = acc[n]
  BY DEF Accumulate
<1> QED BY <1>1, <1>7, <1>8

\* One value more; y may differ from x after its first n.
LEMMA AccumulateNext ==
    ASSUME NEW n \in Nat, NEW r \in Int, NEW x, NEW y,
           \A k \in 1 .. n + 1 : x[k] \in Int, \A k \in 1 .. n : y[k] = x[k]
    PROVE  /\ Accumulate(r, y, n) \in Int
           /\ Accumulate(r, x, n + 1) = Combine(Accumulate(r, y, n), x[n + 1])
<1>1. PICK f : IsAccumulated(f, r, x, n + 1)
  BY AccumulatedExists
<1>2. f \in [0 .. n + 1 -> Int] /\ f[0] = r /\ \A k \in 1 .. n + 1 : f[k] = Combine(f[k - 1], x[k])
  BY <1>1 DEF IsAccumulated
<1> DEFINE g == [k \in 0 .. n |-> f[k]]
<1>3. IsAccumulated(g, r, y, n)
  <2>1. g \in [0 .. n -> Int] /\ g[0] = r
    BY <1>2
  <2>2. ASSUME NEW k \in 1 .. n PROVE g[k] = Combine(g[k - 1], y[k])
    <3>1. k \in 1 .. n + 1 /\ k - 1 \in 0 .. n /\ y[k] = x[k]
      OBVIOUS
    <3>2. g[k] = f[k] /\ g[k - 1] = f[k - 1]
      BY <3>1
    <3> HIDE DEF g
    <3> QED BY <1>2, <3>1, <3>2
  <2> QED BY <2>1, <2>2 DEF IsAccumulated
<1>4. Accumulate(r, y, n) = g[n] /\ g[n] \in Int
  BY <1>3, AccumulateIs
<1>5. Accumulate(r, x, n + 1) = f[n + 1]
  BY <1>1, AccumulateIs
<1> QED BY <1>2, <1>4, <1>5

\* Nothing was combined yet.
LEMMA AccumulateNone == ASSUME NEW r \in Int, NEW x PROVE Accumulate(r, x, 0) = r
<1> DEFINE f == [k \in 0 .. 0 |-> r]
<1>1. IsAccumulated(f, r, x, 0) /\ f[0] = r
  BY DEF IsAccumulated
<1> HIDE DEF f
<1> QED BY <1>1, AccumulateIs

\* A number is an integer.
LEMMA AccumulateType ==
    ASSUME NEW n \in Nat, NEW r \in Int, NEW x, \A k \in 1 .. n : x[k] \in Int
    PROVE  Accumulate(r, x, n) \in Int
BY AccumulatedExists, AccumulateIs

\* The integers from a up to b, b left out, combined with the value r begins with.
Over(a, b) == Accumulate(loop.value, [k \in 1 .. b - a |-> a + k - 1], b - a)

\* None, one more.
LEMMA OverNext ==
    ASSUME loop.value \in Int, NEW a \in Int, NEW b \in Int, a <= b
    PROVE  /\ Over(a, b) \in Int
           /\ Over(a, a) = loop.value
           /\ Over(a, b + 1) = Combine(Over(a, b), b)
<1> DEFINE n == b - a
           y == [k \in 1 .. n |-> a + k - 1]
           x == [k \in 1 .. n + 1 |-> a + k - 1]
<1>1. n \in Nat /\ n + 1 = (b + 1) - a /\ a - a = 0
  OBVIOUS
<1>2. (\A k \in 1 .. n + 1 : x[k] \in Int) /\ (\A k \in 1 .. n : y[k] = x[k]) /\ x[n + 1] = b
  BY <1>1
<1>3. Over(a, b) = Accumulate(loop.value, y, n)
  BY DEF Over
<1>4. Over(a, b + 1) = Accumulate(loop.value, x, n + 1)
  BY <1>1 DEF Over
<1> HIDE DEF n, x, y
<1>5. Accumulate(loop.value, y, n) \in Int
      /\ Accumulate(loop.value, x, n + 1) = Combine(Accumulate(loop.value, y, n), x[n + 1])
  BY <1>1, <1>2, AccumulateNext
<1>6. Over(a, a) = loop.value
  BY <1>1, AccumulateNone DEF Over
<1> QED BY <1>2, <1>3, <1>4, <1>5, <1>6

\* The value r begins with changes nothing.
Neutral == loop.value = IF loop.op = "PLUS" THEN 0 ELSE 1

LEMMA CombineNeutral == ASSUME Neutral, NEW a \in Int PROVE Combine(a, loop.value) = a
BY DEF Neutral, Combine

\* Chunks that follow one another combine.
LEMMA OverJoins ==
    ASSUME Neutral, NEW a \in Int, NEW b \in Int, NEW c \in Int, a <= b, b <= c
    PROVE  Combine(Over(a, b), Over(b, c)) = Over(a, c)
<1>1. loop.value \in Int
  BY DEF Neutral
<1> DEFINE S == {m \in Nat : Combine(Over(a, b), Over(b, b + m)) = Over(a, b + m)}
<1>2. 0 \in S
  <2>1. Over(b, b) = loop.value /\ Over(a, b) \in Int
    BY <1>1, OverNext
  <2>2. b + 0 = b
    OBVIOUS
  <2>3. Combine(Over(a, b), Over(b, b)) = Over(a, b)
    BY <2>1, CombineNeutral
  <2> QED BY <2>2, <2>3
<1>3. ASSUME NEW m \in Nat, m \in S PROVE m + 1 \in S
  <2>1. b + m \in Int /\ a <= b + m /\ b <= b + m /\ b + (m + 1) = (b + m) + 1
    OBVIOUS
  <2>2. /\ Over(b, b + m) \in Int /\ Over(b, (b + m) + 1) = Combine(Over(b, b + m), b + m)
        /\ Over(a, b + m) \in Int /\ Over(a, (b + m) + 1) = Combine(Over(a, b + m), b + m)
        /\ Over(a, b) \in Int
    BY <1>1, <2>1, OverNext
  <2>3. Combine(Over(a, b), Combine(Over(b, b + m), b + m))
          = Combine(Combine(Over(a, b), Over(b, b + m)), b + m)
    BY <2>1, <2>2, CombineSwaps
  <2>4. Combine(Over(a, b), Over(b, b + m)) = Over(a, b + m)
    BY <1>3
  <2>5. Combine(Over(a, b), Over(b, (b + m) + 1)) = Over(a, (b + m) + 1)
    BY <2>2, <2>3, <2>4
  <2> QED BY <2>1, <2>5
<1>4. c - b \in Nat /\ b + (c - b) = c
  OBVIOUS
<1>5. c - b \in S
  <2> HIDE DEF S
  <2> QED BY <1>2, <1>3, <1>4, SetInduction
<1> QED BY <1>4, <1>5

------------------------------------------------------------------------------
(* Types *)

\* The reduction is one of those given.
Given == [op |-> loop.op, value |-> loop.value] \in Reduction

LEMMA InitTypeOK == Init => TypeOK /\ Given
<1> SUFFICES ASSUME Init PROVE TypeOK /\ Given
  OBVIOUS
<1>1. PICK f \in First, l \in Last, n \in Thread, r \in Reduction, b \in Broadcast :
        loop = [first |-> f, last |-> l, num_threads |-> n, op |-> r.op, value |-> r.value,
                broadcast |-> b]
  BY DEF Init
<1>2. r \in [op : {"PLUS", "TIMES"}, value : Int] /\ b \in BOOLEAN
  BY <1>1, ReductionAssumption, BroadcastAssumption
<1>3. Given
  <2>1. r = [op |-> r.op, value |-> r.value]
    BY <1>2
  <2> QED BY <1>1, <2>1 DEF Given
<1>4. loop \in [first : First, last : Last, num_threads : Thread,
                op : {"PLUS", "TIMES"}, value : Int, broadcast : BOOLEAN]
  BY <1>1, <1>2
<1>5. 0 \in 0 .. loop.num_threads
  BY <1>1, ThreadsAssumption DEF Thread
<1> QED BY <1>1, <1>2, <1>3, <1>4, <1>5 DEF Init, TypeOK

\* What the invariant leaves to show of the types.
Numbers ==
    /\ loop \in [first : First, last : Last, num_threads : Thread,
                 op : {"PLUS", "TIMES"}, value : Int, broadcast : BOOLEAN]
    /\ thread_start \in Int /\ reduced \in [Thread -> Int] /\ result \in Int
    /\ m_refCount \in Int /\ loaded \in [Thread -> Int]

LEMMA TypesFromNumbers == ASSUME ParforInv, Numbers PROVE TypeOK
<1>1. joined \in 0 .. spawned /\ spawned \in 0 .. loop.num_threads
  <2>1. joined \in 0 .. loop.num_threads /\ spawned \in 0 .. loop.num_threads
        /\ (joined > 0 => spawned = loop.num_threads) /\ loop.num_threads \in Nat
    BY BegunThreads DEF ParforInv, Typed, Waiting
  <2> QED BY <2>1
<1> QED BY <1>1 DEF ParforInv, Typed, Numbers, TypeOK, StepName

LEMMA NumbersKeep == ParforInv /\ Numbers /\ Given /\ [Next]_vars => Numbers' /\ Given'
<1> SUFFICES ASSUME ParforInv, Numbers, Given, [Next]_vars PROVE Numbers' /\ Given'
  OBVIOUS
<1>1. /\ loop \in [first : First, last : Last, num_threads : Thread,
                   op : {"PLUS", "TIMES"}, value : Int, broadcast : BOOLEAN]
      /\ thread_start \in Int /\ reduced \in [Thread -> Int] /\ result \in Int
      /\ m_refCount \in Int /\ loaded \in [Thread -> Int]
  BY DEF Numbers
<1>2. /\ loop.num_threads \in Nat /\ 1 .. loop.num_threads \subseteq Thread
      /\ thread_end \in Int /\ spawned \in Nat /\ helper \in [Thread -> [next : Int, last : Int]]
      /\ loop.first \in Int
  <2>1. loop.num_threads \in Thread /\ spawned \in 0 .. loop.num_threads
    BY DEF ParforInv, Typed
  <2> QED BY <2>1, ThreadsAssumption DEF ParforInv, Typed, Thread
<1>3. CASE Spawn
  <2>1. /\ loop' = loop /\ loaded' = loaded /\ result' = result
        /\ thread_start' = IF spawned = 0 THEN loop.first ELSE thread_end + 1
        /\ reduced' = [reduced EXCEPT ![spawned'] = result]
        /\ m_refCount' = IF loop.broadcast THEN m_refCount + 1 ELSE m_refCount
    BY <1>3 DEF Spawn
  <2>2. thread_start' \in Int /\ m_refCount' \in Int /\ reduced' \in [Thread -> Int]
    <3>1. thread_start' \in Int
      BY <1>2, <2>1
    <3>2. m_refCount' = m_refCount \/ m_refCount' = m_refCount + 1
      BY <2>1
    <3>3. reduced' \in [Thread -> Int]
      BY <1>1, <2>1
    <3> QED BY <1>1, <3>1, <3>2, <3>3
  <2> QED BY <1>1, <2>1, <2>2 DEF Numbers, Given
<1>4. CASE Join \/ Raise \/ UNCHANGED vars
  <2>1. /\ loop' = loop /\ thread_start' = thread_start /\ reduced' = reduced
        /\ result' = result /\ m_refCount' = m_refCount /\ loaded' = loaded
    BY <1>4 DEF Join, Raise, vars, chunkVars, threadVars
  <2> QED BY <1>1, <2>1 DEF Numbers, Given
<1>5. CASE Reduce
  <2>1. /\ loop' = loop /\ thread_start' = thread_start /\ reduced' = reduced /\ loaded' = loaded
        /\ result' = Accumulate(result, reduced, loop.num_threads)
        /\ m_refCount' = IF loop.broadcast THEN m_refCount - loop.num_threads ELSE m_refCount
    BY <1>5 DEF Reduce, chunkVars, threadVars
  <2>2. \A k \in 1 .. loop.num_threads : reduced[k] \in Int
    BY <1>1, <1>2
  <2>3. result' \in Int
    BY <1>1, <1>2, <2>1, <2>2, AccumulateType
  <2>4. m_refCount' \in Int
    BY <1>1, <1>2, <2>1
  <2> QED BY <1>1, <2>1, <2>3, <2>4 DEF Numbers, Given
<1>6. ASSUME NEW t \in Thread, ThreadNext(t) PROVE Numbers' /\ Given'
  <2>1. loop' = loop /\ thread_start' = thread_start /\ result' = result
    BY <1>6 DEF ThreadNext, RunBody, LoadCount, StoreCount, FailBody, WriteError, EndThread,
                Step, chunkVars
  <2>2. CASE RunBody(t)
    <3>1. /\ reduced' = [reduced EXCEPT ![t] = Combine(@, helper[t].next)]
          /\ m_refCount' = m_refCount /\ loaded' = loaded
      BY <2>2 DEF RunBody
    <3>2. Combine(reduced[t], helper[t].next) \in Int
      BY <1>1, <1>2, CombineType
    <3> QED BY <1>1, <2>1, <3>1, <3>2 DEF Numbers, Given
  <2>3. CASE LoadCount(t) \/ StoreCount(t)
    <3>1. /\ reduced' = reduced
          /\ \/ loaded' = [loaded EXCEPT ![t] = m_refCount] /\ m_refCount' = m_refCount
             \/ loaded' = loaded /\ m_refCount' \in {loaded[t] + 1, loaded[t] - 1}
      BY <2>3 DEF LoadCount, StoreCount
    <3> QED BY <1>1, <2>1, <3>1 DEF Numbers, Given
  <2>4. CASE FailBody(t) \/ WriteError(t) \/ EndThread(t)
    <3>1. reduced' = reduced /\ m_refCount' = m_refCount /\ loaded' = loaded
      BY <2>4 DEF FailBody, WriteError, EndThread
    <3> QED BY <1>1, <2>1, <3>1 DEF Numbers, Given
  <2> QED BY <1>6, <2>2, <2>3, <2>4 DEF ThreadNext
<1> QED BY <1>3, <1>4, <1>5, <1>6 DEF Next

\* Every value of a parfor loop keeps its type.
THEOREM ParforTypeCorrect == Spec => []TypeOK
<1>1. Init => ParforInv /\ Numbers /\ Given
  BY InitInv, InitTypeOK DEF TypeOK, Numbers
<1>2. ParforInv /\ Numbers /\ Given /\ [Next]_vars => (ParforInv /\ Numbers /\ Given)'
  BY NextKeeps, NumbersKeep
<1>3. ParforInv /\ Numbers => TypeOK
  BY TypesFromNumbers
<1> QED BY <1>1, <1>2, <1>3, PTL DEF Spec

------------------------------------------------------------------------------
(* The reduction *)

\* A thread that is not about to report has combined the values it has run.
PartsReduced ==
    /\ pc = "spawn" => result = loop.value
    /\ thread_error = 0 =>
          \A t \in Begun : step[t] # "reporting" => reduced[t] = Over(Begin(t), helper[t].next)

\* Where the chunks begin, and that they do not end before.
LEMMA BeginType ==
    ASSUME ParforInv, NEW t \in Begun
    PROVE  /\ t \in Thread /\ Begin(t) \in Int
           /\ helper[t].next \in Int /\ helper[t].last \in Int
           /\ Begin(t) <= helper[t].next
<1>1. t \in Thread /\ (t # 1 => t - 1 \in Thread)
  BY BegunThreads DEF ParforInv
<1>2. Begin(t) \in Int /\ helper[t].next \in Int /\ helper[t].last \in Int
  BY <1>1 DEF ParforInv, Typed, Begin
<1> QED BY <1>1, <1>2 DEF ParforInv, Progress

\* Only the thread that steps changes its part.
LEMMA PartsFrom ==
    ASSUME ParforInv, PartsReduced, NEW t \in Thread,
           loop' = loop, pc' = pc, spawned' = spawned, result' = result,
           thread_error' = 0 => thread_error = 0,
           \A u \in Begun : Begin(u)' = Begin(u),
           \A u \in Thread : u # t => /\ step'[u] = step[u] /\ reduced'[u] = reduced[u]
                                      /\ helper'[u] = helper[u],
           thread_error' = 0 /\ step'[t] # "reporting" /\ t \in Begun =>
              reduced'[t] = Over(Begin(t), helper'[t].next)
    PROVE  PartsReduced'
<1>1. Begun' = Begun
  BY DEF Begun
<1>2. pc' = "spawn" => result' = loop'.value
  BY DEF PartsReduced
<1>3. \A a, b : Over(a, b)' = Over(a, b)
  BY DEF Over, Accumulate, Combine
<1>4. ASSUME thread_error' = 0, NEW u \in Begun', step'[u] # "reporting"
      PROVE  reduced'[u] = Over(Begin(u), helper[u].next)'
  <2>1. u \in Begun /\ u \in Thread /\ Begin(u)' = Begin(u)
    BY <1>1, BeginType
  <2>2. reduced'[u] = Over(Begin(u), helper'[u].next)
    <3>1. CASE u = t
      BY <1>4, <2>1, <3>1
    <3>2. CASE u # t
      BY <1>4, <2>1, <3>2 DEF PartsReduced
    <3> QED BY <3>1, <3>2
  <2>3. Over(Begin(u), helper[u].next)' = Over(Begin(u), helper'[u].next)
    BY <2>1 DEF Over, Accumulate, Combine
  <2> QED BY <2>2, <2>3
<1> QED BY <1>2, <1>4 DEF PartsReduced

LEMMA SpawnParts == ASSUME ParforInv, ParforInv', Numbers, PartsReduced, Spawn PROVE PartsReduced'
<1>1. PICK n \in Thread : n = spawned'
  <2>1. loop.num_threads \in Thread /\ spawned \in 0 .. loop.num_threads
        /\ spawned < loop.num_threads /\ spawned' = spawned + 1
    BY DEF ParforInv, Typed, Spawn
  <2> QED BY <2>1, ThreadsAssumption DEF Thread
<1>2. /\ loop' = loop /\ pc' = pc /\ result' = result /\ thread_error' = thread_error
      /\ result = loop.value /\ spawned' = spawned + 1 /\ spawned \in Nat /\ loop.value \in Int
      /\ thread_start' = IF spawned = 0 THEN loop.first ELSE thread_end + 1
      /\ helper' = [helper EXCEPT ![n] = [next |-> thread_start', last |-> thread_end']]
      /\ step' = [step EXCEPT ![n] = "top"] /\ reduced' = [reduced EXCEPT ![n] = result]
      /\ helper \in [Thread -> [next : Int, last : Int]] /\ step \in [Thread -> StepName]
      /\ reduced \in [Thread -> Int]
  <2>1. spawned \in Nat
    BY BegunThreads DEF ParforInv
  <2> QED BY <1>1, <2>1 DEF Spawn, PartsReduced, Numbers, ParforInv, Typed
<1>3. n \in Begun' /\ \A t \in Begun' : t # n => t \in Begun /\ t \in Thread
  <2>1. n = spawned + 1 /\ spawned \in Nat
    BY <1>1, <1>2
  <2>2. \A t \in 1 .. spawned + 1 : t # spawned + 1 => t \in 1 .. spawned
    BY <2>1
  <2> QED BY <1>1, <2>1, <2>2, BeginType DEF Begun
<1>4. ASSUME NEW t \in Begun', thread_error' = 0, step'[t] # "reporting"
      PROVE  reduced'[t] = Over(Begin(t), helper[t].next)'
  <2>1. CASE t = n
    <3>1. Begin(n)' = helper'[n].next /\ Begin(n)' \in Int /\ reduced'[n] = loop.value
      <4>1. CASE spawned = 0
        BY <1>1, <1>2, <4>1, BeginType DEF Begin, ParforInv, Typed
      <4>2. CASE spawned # 0
        <5>1. n # 1 /\ n - 1 = spawned /\ spawned \in Begun /\ spawned \in Thread /\ spawned # n
          <6>1. n = spawned + 1 /\ spawned \in Nat /\ spawned # 0
            BY <1>1, <1>2, <4>2
          <6>2. n # 1 /\ n - 1 = spawned /\ spawned # n /\ spawned \in 1 .. spawned
            BY <6>1
          <6> QED BY <6>2, BeginType DEF Begun
        <5>2. thread_end = helper[spawned].last /\ thread_end \in Int
          BY <1>2, <4>2 DEF ParforInv, Typed, Chunks
        <5>3. helper'[spawned] = helper[spawned]
          BY <1>2, <5>1
        <5> QED BY <1>1, <1>2, <4>2, <5>1, <5>2, <5>3 DEF Begin
      <4> QED BY <4>1, <4>2
    <3>2. PICK a \in Int : a = Begin(n)' /\ a = helper'[n].next
      BY <3>1
    <3>3. Over(a, a) = loop.value
      BY <1>2, OverNext
    <3>4. Over(Begin(n), helper[n].next)' = Over(a, a)
      BY <1>2, <3>2 DEF Over, Accumulate, Combine
    <3> QED BY <2>1, <3>1, <3>3, <3>4
  <2>2. CASE t # n
    <3>1. t \in Begun /\ t \in Thread /\ (t # 1 => t - 1 \in Begun /\ t - 1 \in Thread)
      BY <1>3, <2>2, BegunThreads DEF ParforInv
    <3>2. t - 1 # n
      BY <1>1, <1>2, <3>1 DEF Begun
    <3>3. /\ helper'[t] = helper[t] /\ (t # 1 => helper'[t - 1] = helper[t - 1])
          /\ step'[t] = step[t] /\ reduced'[t] = reduced[t]
      BY <1>2, <2>2, <3>1, <3>2
    <3>4. Begin(t)' = Begin(t)
      BY <1>2, <3>3 DEF Begin
    <3>5. reduced[t] = Over(Begin(t), helper[t].next)
      BY <1>2, <1>4, <3>1, <3>3 DEF PartsReduced
    <3>6. Over(Begin(t), helper[t].next)' = Over(Begin(t), helper'[t].next)
      BY <1>2, <3>4 DEF Over, Accumulate, Combine
    <3> QED BY <3>3, <3>5, <3>6
  <2> QED BY <2>1, <2>2
<1> QED BY <1>2, <1>4 DEF PartsReduced

LEMMA RunBodyParts ==
    ASSUME ParforInv, ParforInv', Numbers, PartsReduced, NEW t \in Thread, RunBody(t)
    PROVE  PartsReduced'
<1> DEFINE i == helper[t].next
<1>1. /\ ~Done(t) /\ helper' = [helper EXCEPT ![t].next = @ + 1]
      /\ reduced' = [reduced EXCEPT ![t] = Combine(@, i)] /\ thread_error' = thread_error
      /\ \/ Step(t, "using", "used") \/ Step(t, "top", "top")
  BY DEF RunBody, Advance
<1>2. /\ t \in Begun /\ step[t] # "reporting"
      /\ \A u \in Thread : u # t => step'[u] = step[u]
      /\ loop' = loop /\ pc' = pc /\ spawned' = spawned
  BY <1>1, ThreadSteps DEF StepName
<1>3. /\ helper \in [Thread -> [next : Int, last : Int]] /\ reduced \in [Thread -> Int]
      /\ loop.value \in Int /\ result' = result
  BY <1>1 DEF ParforInv, Typed, Numbers, Step
<1>4. /\ helper' \in [Thread -> [next : Int, last : Int]] /\ helper'[t].next = i + 1
      /\ \A u \in Thread : helper'[u].last = helper[u].last
      /\ \A u \in Thread : u # t => helper'[u] = helper[u] /\ reduced'[u] = reduced[u]
      /\ reduced'[t] = Combine(reduced[t], i)
  BY <1>1, <1>3
<1>5. thread_end' = thread_end
  BY <1>1 DEF Step, chunkVars
<1>6. \A u \in Begun : Begin(u)' = Begin(u)
  BY <1>2, <1>4, <1>5, SameChunks DEF ParforInv
<1>7. ASSUME thread_error = 0 PROVE reduced'[t] = Over(Begin(t), i + 1)
  <2>1. Begin(t) \in Int /\ i \in Int /\ Begin(t) <= i
    BY <1>2, BeginType
  <2>2. reduced[t] = Over(Begin(t), i)
    BY <1>2, <1>7 DEF PartsReduced
  <2> QED BY <1>3, <1>4, <2>1, <2>2, OverNext
<1> HIDE DEF i
<1> QED BY <1>1, <1>2, <1>3, <1>4, <1>6, <1>7, PartsFrom

LEMMA FailBodyParts ==
    ASSUME ParforInv, ParforInv', Numbers, PartsReduced, NEW t \in Thread, FailBody(t)
    PROVE  PartsReduced'
<1>1. /\ helper' = [helper EXCEPT ![t].next = @ + 1] /\ reduced' = reduced
      /\ thread_error' = thread_error
      /\ Step(t, "top", IF thread_error = 0 THEN "reporting" ELSE "ended")
  BY DEF FailBody, Advance
<1>2. /\ step' = [step EXCEPT ![t] = IF thread_error = 0 THEN "reporting" ELSE "ended"]
      /\ loop' = loop /\ pc' = pc /\ spawned' = spawned /\ result' = result
      /\ thread_end' = thread_end
      /\ helper \in [Thread -> [next : Int, last : Int]] /\ step \in [Thread -> StepName]
  BY <1>1 DEF Step, ParforInv, Typed, chunkVars
<1>3. /\ helper' \in [Thread -> [next : Int, last : Int]]
      /\ \A u \in Thread : helper'[u].last = helper[u].last
      /\ \A u \in Thread : u # t => step'[u] = step[u] /\ helper'[u] = helper[u]
      /\ thread_error' = 0 => step'[t] = "reporting"
  BY <1>1, <1>2
<1>4. \A u \in Begun : Begin(u)' = Begin(u)
  BY <1>2, <1>3, SameChunks DEF ParforInv
<1> QED BY <1>1, <1>2, <1>3, <1>4, PartsFrom

\* A thread moves on and runs nothing.
LEMMA MoveParts ==
    ASSUME ParforInv, PartsReduced, NEW t \in Thread, NEW from, NEW to, Step(t, from, to),
           helper' = helper, reduced' = reduced, thread_error' = 0 => thread_error = 0,
           thread_error' = 0 => from # "reporting"
    PROVE  PartsReduced'
<1>1. /\ step[t] = from /\ step' = [step EXCEPT ![t] = to]
      /\ loop' = loop /\ pc' = pc /\ spawned' = spawned /\ result' = result
      /\ thread_end' = thread_end /\ step \in [Thread -> StepName]
      /\ helper \in [Thread -> [next : Int, last : Int]]
  BY DEF Step, ParforInv, Typed, chunkVars
<1>2. \A u \in Thread : u # t => step'[u] = step[u]
  BY <1>1
<1>3. \A u \in Begun : Begin(u)' = Begin(u)
  BY <1>1, SameChunks DEF ParforInv
<1>4. thread_error' = 0 /\ t \in Begun => reduced[t] = Over(Begin(t), helper[t].next)
  BY <1>1 DEF PartsReduced
<1> QED BY <1>1, <1>2, <1>3, <1>4, PartsFrom

LEMMA PartsKeep ==
    ParforInv /\ ParforInv' /\ Numbers /\ PartsReduced /\ [Next]_vars => PartsReduced'
<1> SUFFICES ASSUME ParforInv, ParforInv', Numbers, PartsReduced, [Next]_vars
             PROVE  PartsReduced'
  OBVIOUS
<1>1. CASE Spawn
  BY <1>1, SpawnParts
<1>2. CASE Join \/ Raise \/ Reduce \/ UNCHANGED vars
  <2>1. /\ loop' = loop /\ spawned' = spawned /\ step' = step /\ reduced' = reduced
        /\ helper' = helper /\ thread_error' = thread_error
        /\ pc' = "spawn" => pc = "spawn" /\ result' = result
    BY <1>2 DEF Join, Raise, Reduce, vars, chunkVars, threadVars
  <2>2. Begun' = Begun /\ \A t \in Begun : Begin(t)' = Begin(t)
    BY <2>1 DEF Begun, Begin
  <2>3. ASSUME NEW t \in Begun
        PROVE  Over(Begin(t), helper[t].next)' = Over(Begin(t), helper[t].next)
    <3>1. Begin(t)' = Begin(t)
      BY <2>2
    <3>2. Over(Begin(t), helper[t].next)' = Over(Begin(t), helper'[t].next)
      BY <2>1, <3>1 DEF Over, Accumulate, Combine
    <3> QED BY <2>1, <3>2
  <2> QED BY <2>1, <2>2, <2>3 DEF PartsReduced
<1>3. ASSUME NEW t \in Thread, ThreadNext(t) PROVE PartsReduced'
  <2>1. CASE RunBody(t)
    BY <2>1, RunBodyParts
  <2>2. CASE LoadCount(t)
    <3>1. /\ helper' = helper /\ reduced' = reduced /\ thread_error' = thread_error
          /\ Step(t, "top", "copying") \/ Step(t, "used", "dropping")
      BY <2>2 DEF LoadCount
    <3> QED BY <3>1, MoveParts
  <2>3. CASE StoreCount(t)
    <3>1. /\ helper' = helper /\ reduced' = reduced /\ thread_error' = thread_error
          /\ Step(t, "copying", "using") \/ Step(t, "dropping", "top")
      BY <2>3 DEF StoreCount
    <3> QED BY <3>1, MoveParts
  <2>4. CASE FailBody(t)
    BY <2>4, FailBodyParts
  <2>5. CASE WriteError(t)
    <3>1. /\ helper' = helper /\ reduced' = reduced /\ Step(t, "reporting", "ended")
          /\ thread_error' \in {t} \cup {-1}
      BY <2>5 DEF WriteError
    <3>2. thread_error' # 0
      BY <3>1, ThreadsAssumption DEF Thread
    <3> QED BY <3>1, <3>2, MoveParts
  <2>6. CASE EndThread(t)
    <3>1. /\ helper' = helper /\ reduced' = reduced /\ thread_error' = thread_error
          /\ Step(t, "top", "ended")
      BY <2>6 DEF EndThread
    <3> QED BY <3>1, MoveParts
  <2> QED BY <1>3, <2>1, <2>2, <2>3, <2>4, <2>5, <2>6 DEF ThreadNext
<1> QED BY <1>1, <1>2, <1>3 DEF Next

\* Where the first m chunks end.
Upto(m) == IF m = 0 THEN loop.first ELSE helper[m].last + 1

\* What Reduce computes is what the for loop computes.
LEMMA ReduceIsSequential ==
    ASSUME ParforInv, Numbers, PartsReduced, Neutral, Reduce
    PROVE  Accumulate(result, reduced, loop.num_threads) = Sequential
<1> DEFINE n == loop.num_threads
           v == loop.value
<1>1. /\ n \in Nat \ {0} /\ spawned = n /\ Begun = 1 .. n /\ thread_error = 0 /\ result = v
      /\ v \in Int /\ loop.first \in Int /\ loop.last \in Int /\ thread_end \in Int
      /\ \A t \in 1 .. n : step[t] = "ended" /\ reduced[t] \in Int
  <2>1. joined = n /\ spawned = n /\ thread_error = 0 /\ pc = "spawn"
    BY DEF Reduce, Joining
  <2>2. n \in Nat \ {0} /\ Begun \subseteq Thread
    BY BegunThreads DEF ParforInv
  <2> QED BY <2>1, <2>2 DEF ParforInv, Typed, Waiting, PartsReduced, Numbers, Begun
<1>2. ASSUME NEW t \in 1 .. n
      PROVE  /\ Begin(t) \in Int /\ helper[t].next \in Int /\ helper[t].last \in Int
             /\ helper[t].next > helper[t].last
             /\ reduced[t] = Over(Begin(t), helper[t].next)
             /\ Begin(t) <= helper[t].next
             /\ helper[t].next = Begin(t) \/ helper[t].next <= helper[t].last + 1
  BY <1>1, BeginType DEF ParforInv, Progress, PartsReduced, Done
<1> HIDE DEF n, v
<1>3. CASE loop.last < loop.first
  <2>1. ASSUME NEW t \in 1 .. n PROVE reduced[t] = v
    <3>1. helper[t].last < Begin(t)
      BY <1>1, <1>3 DEF ParforInv, Chunks
    <3>2. helper[t].next = Begin(t)
      BY <1>2, <3>1
    <3> QED BY <1>1, <1>2, <3>2, OverNext DEF v
  <2> DEFINE S == {m \in Nat : m <= n => Accumulate(v, reduced, m) = v}
  <2>2. 0 \in S
    BY <1>1, AccumulateNone
  <2>3. ASSUME NEW m \in Nat, m \in S PROVE m + 1 \in S
    <3> SUFFICES ASSUME m + 1 <= n PROVE Accumulate(v, reduced, m + 1) = v
      OBVIOUS
    <3>1. Accumulate(v, reduced, m) = v /\ m + 1 \in 1 .. n
      BY <1>1, <2>3
    <3>2. \A k \in 1 .. m + 1 : reduced[k] \in Int
      BY <1>1, <2>1
    <3>3. Accumulate(v, reduced, m + 1) = Combine(v, reduced[m + 1])
      BY <1>1, <3>1, <3>2, AccumulateNext
    <3> QED BY <1>1, <2>1, <3>1, <3>3, CombineNeutral DEF v
  <2>4. Accumulate(v, reduced, n) = v
    <3> HIDE DEF S
    <3>1. n \in S
      BY <1>1, <2>2, <2>3, SetInduction
    <3> QED BY <1>1, <3>1 DEF S
  <2>5. Sequential = v
    BY <1>1, <1>3, AccumulateNone DEF Sequential, LoopLength, v
  <2> QED BY <1>1, <2>4, <2>5 DEF n, v
<1>4. CASE loop.first <= loop.last
  <2>1. ASSUME NEW t \in 1 .. n
        PROVE  /\ helper[t].next = Upto(t) /\ Begin(t) = Upto(t - 1)
               /\ Upto(t) \in Int /\ Upto(t - 1) \in Int /\ Upto(t - 1) <= Upto(t)
               /\ loop.first <= Upto(t - 1)
    <3>1. Begin(t) <= helper[t].last + 1 /\ loop.first <= Begin(t)
      BY <1>1, <1>4 DEF ParforInv, Chunks
    <3>2. helper[t].next = helper[t].last + 1
      <4>1. /\ helper[t].next \in Int /\ helper[t].last \in Int
            /\ helper[t].next > helper[t].last /\ helper[t].next <= helper[t].last + 1
        BY <1>2, <3>1
      <4> QED BY <4>1
    <3>4. t # 0
      BY <1>1
    <3>3. Begin(t) = Upto(t - 1)
      BY <1>1 DEF Begin, Upto
    <3> QED BY <1>1, <1>2, <3>1, <3>2, <3>3, <3>4 DEF Upto
  <2> DEFINE S == {m \in Nat : m <= n => Accumulate(v, reduced, m) = Over(loop.first, Upto(m))}
  <2>2. 0 \in S
    <3>1. Accumulate(v, reduced, 0) = v
      BY <1>1, AccumulateNone
    <3>2. Over(loop.first, loop.first) = v
      <4>1. loop.value \in Int /\ loop.first \in Int /\ loop.first <= loop.first
        BY <1>1 DEF v
      <4>2. Over(loop.first, loop.first) = loop.value
        BY <4>1, OverNext
      <4> QED BY <4>2 DEF v
    <3>3. Upto(0) = loop.first
      BY DEF Upto
    <3> QED BY <3>1, <3>2, <3>3
  <2>3. ASSUME NEW m \in Nat, m \in S PROVE m + 1 \in S
    <3> SUFFICES ASSUME m + 1 <= n
                 PROVE  Accumulate(v, reduced, m + 1) = Over(loop.first, Upto(m + 1))
      OBVIOUS
    <3>1. Accumulate(v, reduced, m) = Over(loop.first, Upto(m)) /\ m + 1 \in 1 .. n
      BY <1>1, <2>3
    <3>2. \A k \in 1 .. m + 1 : reduced[k] \in Int
      BY <1>1
    <3>3. Accumulate(v, reduced, m + 1) = Combine(Accumulate(v, reduced, m), reduced[m + 1])
      BY <1>1, <3>2, AccumulateNext
    <3>4. (m + 1) - 1 = m
      OBVIOUS
    <3>5. /\ reduced[m + 1] = Over(Upto(m), Upto(m + 1))
          /\ Upto(m) \in Int /\ Upto(m + 1) \in Int
          /\ loop.first <= Upto(m) /\ Upto(m) <= Upto(m + 1)
      BY <1>2, <2>1, <3>1, <3>4
    <3> QED BY <1>1, <3>1, <3>3, <3>5, OverJoins
  <2>4. Accumulate(v, reduced, n) = Over(loop.first, Upto(n))
    <3> HIDE DEF S
    <3>1. n \in S
      BY <1>1, <2>2, <2>3, SetInduction
    <3> QED BY <1>1, <3>1 DEF S
  <2>5. Upto(n) = loop.last + 1
    <3>1. thread_end = loop.last \/ thread_end = loop.first + n * ThreadRange - 1
      BY <1>1, <1>4 DEF ParforInv, Chunks
    <3>2. ThreadRange \in Int /\ n * ThreadRange >= loop.last - loop.first + 1
      BY ThreadRangeCovers DEF ParforInv, n
    <3>3. PICK p \in Int : p = n * ThreadRange
      BY <1>1, <3>2
    <3>4. thread_end >= loop.last
      BY <1>1, <3>1, <3>2, <3>3
    <3>5. n \in 1 .. n /\ thread_end = helper[n].last /\ helper[n].last <= loop.last
      BY <1>1 DEF ParforInv, Chunks
    <3> QED BY <1>1, <3>4, <3>5 DEF Upto
  <2>6. Sequential = Over(loop.first, loop.last + 1)
    <3>1. (loop.last + 1) - loop.first = loop.last - loop.first + 1 /\ ~(loop.last < loop.first)
      BY <1>1, <1>4
    <3> QED BY <3>1 DEF Sequential, LoopLength, Over
  <2> QED BY <1>1, <2>4, <2>5, <2>6 DEF n, v
<1> QED BY <1>1, <1>3, <1>4

\* The result stays when the loop is done.
LEMMA ReducedKeeps ==
    ASSUME ParforInv, Numbers, PartsReduced, Neutral, ReducedLikeFor, [Next]_vars
    PROVE  ReducedLikeFor'
<1> SUFFICES ASSUME pc' = "done" PROVE result' = Sequential'
  BY DEF ReducedLikeFor
<1>1. loop' = loop => Sequential' = Sequential
  BY DEF Sequential, LoopLength, Accumulate, Combine
<1>2. CASE Reduce
  BY <1>1, <1>2, ReduceIsSequential DEF Reduce
<1>3. CASE Spawn \/ Join \/ Raise
  BY <1>3 DEF Spawn, Join, Raise, Joining
<1>4. ASSUME NEW t \in Thread, ThreadNext(t) PROVE loop' = loop /\ pc' = pc /\ result' = result
  BY <1>4 DEF ThreadNext, RunBody, LoadCount, StoreCount, FailBody, WriteError, EndThread, Step
<1>5. CASE UNCHANGED vars
  BY <1>1, <1>5 DEF vars, ReducedLikeFor
<1> QED BY <1>1, <1>2, <1>3, <1>4, <1>5 DEF Next, ReducedLikeFor

\* A parfor loop that begins with the identity of its reduction leaves in r what the for
\* loop leaves, however its values are divided among the threads.
THEOREM ParforReduces == FromIdentity => (Spec => []ReducedLikeFor)
<1> DEFINE Inv == ParforInv /\ Numbers /\ Given /\ PartsReduced
<1>1. Init => Inv /\ ReducedLikeFor
  <2> SUFFICES ASSUME Init PROVE Inv /\ ReducedLikeFor
    OBVIOUS
  <2>1. ParforInv /\ Numbers /\ Given
    BY InitInv, InitTypeOK DEF TypeOK, Numbers
  <2>2. pc = "spawn" /\ result = loop.value /\ spawned = 0
    BY DEF Init
  <2>3. Begun = {}
    BY <2>2 DEF Begun
  <2> QED BY <2>1, <2>2, <2>3 DEF PartsReduced, ReducedLikeFor
<1>2. Inv /\ [Next]_vars => Inv'
  BY NextKeeps, NumbersKeep, PartsKeep
<1>3. ASSUME FromIdentity PROVE Inv /\ ReducedLikeFor /\ [Next]_vars => ReducedLikeFor'
  <2>1. Given => Neutral
    BY <1>3 DEF Given, Neutral, FromIdentity
  <2> QED BY <2>1, ReducedKeeps
<1> HIDE DEF Inv
<1>4. FromIdentity /\ Spec => []ReducedLikeFor
  <2> SUFFICES ASSUME FromIdentity PROVE Spec => []ReducedLikeFor
    OBVIOUS
  <2>1. Inv /\ ReducedLikeFor /\ [Next]_vars => ReducedLikeFor'
    BY <1>3
  <2> QED BY <1>1, <1>2, <2>1, PTL DEF Spec
<1> QED BY <1>4

------------------------------------------------------------------------------
(* The end of the loop *)

LEMMA LeftTypes ==
    ASSUME ParforInv
    PROVE  CallerLeft \in Nat /\ \A t \in Thread : ThreadLeft(t) \in Nat
<1>1. Typed
  BY DEF ParforInv
<1>2. CallerLeft \in Nat
  <2>1. loop.num_threads \in Nat /\ spawned \in 0 .. loop.num_threads /\ joined \in 0 .. loop.num_threads
    BY <1>1, ThreadsAssumption DEF Typed, Thread
  <2> QED BY <2>1 DEF CallerLeft
<1>3. ASSUME NEW t \in Thread PROVE ThreadLeft(t) \in Nat
  <2>1. LoopLength \in Nat
    BY <1>1 DEF Typed, LoopLength
  <2>2. step[t] \in StepName /\ helper[t].next \in Int /\ helper[t].last \in Int
    BY <1>1 DEF Typed
  <2>3. step[t] # "none" => Place[step[t]] \in Nat
    BY <2>2 DEF StepName, Place
  <2>4. (IF Done(t) THEN 0 ELSE helper[t].last - helper[t].next + 1) \in Nat
    BY <2>2 DEF Done
  <2> QED BY <2>1, <2>3, <2>4 DEF ThreadLeft
<1> QED BY <1>2, <1>3

\* A thread that does not move has as much left as before.
LEMMA SameLeft ==
    ASSUME NEW t \in Thread, loop' = loop, step'[t] = step[t], helper'[t] = helper[t]
    PROVE  ThreadLeft(t)' = ThreadLeft(t)
BY DEF ThreadLeft, Done, LoopLength

\* A chunk is no longer than the loop.
LEMMA SpawnLeft ==
    ASSUME ParforInv, ParforInv', Spawn
    PROVE  /\ CallerLeft' < CallerLeft
           /\ \A t \in Thread : ThreadLeft(t)' <= ThreadLeft(t)
<1>1. PICK s : s = spawned + 1
  OBVIOUS
<1>2. /\ loop' = loop /\ pc' = pc /\ joined' = joined /\ spawned' = s
      /\ spawned < loop.num_threads
      /\ step' = [step EXCEPT ![s] = "top"]
      /\ helper' = [helper EXCEPT ![s] = [next |-> thread_start', last |-> thread_end']]
  BY <1>1 DEF Spawn
<1>3. /\ loop.num_threads \in Thread /\ spawned \in 0 .. loop.num_threads
      /\ joined \in 0 .. loop.num_threads
      /\ helper \in [Thread -> [next : Int, last : Int]] /\ step \in [Thread -> StepName]
      /\ helper' \in [Thread -> [next : Int, last : Int]]
      /\ loop.first \in Int /\ loop.last \in Int
  BY DEF ParforInv, Typed
<1>4. s \in Thread /\ s \in 1 .. spawned' /\ s > spawned
  BY <1>1, <1>2, <1>3, ThreadsAssumption DEF Thread
<1>5. CallerLeft' < CallerLeft
  <2>1. loop.num_threads \in Nat
    BY <1>3, ThreadsAssumption DEF Thread
  <2> QED BY <1>1, <1>2, <1>3, <2>1 DEF CallerLeft
<1>6. ThreadLeft(s) = 6 * LoopLength + 4
  <2>1. step[s] = "none"
    BY <1>4 DEF ParforInv, Waiting
  <2> QED BY <2>1 DEF ThreadLeft
<1>7. ThreadLeft(s)' = 6 * (IF Done(s)' THEN 0 ELSE helper'[s].last - helper'[s].next + 1) + 3
  <2>1. step'[s] = "top"
    BY <1>2, <1>3, <1>4
  <2> QED BY <2>1 DEF ThreadLeft, Place
<1>8. (IF Done(s)' THEN 0 ELSE helper'[s].last - helper'[s].next + 1) <= LoopLength
  <2>1. /\ Begin(s)' <= helper'[s].next
        /\ helper'[s].last <= loop.last
        /\ loop.last < loop.first => helper'[s].last < Begin(s)'
        /\ loop.first <= loop.last => loop.first <= Begin(s)'
    BY <1>2, <1>4 DEF ParforInv, Chunks, Progress, Begun
  <2>2. Begin(s)' \in Int
    <3>1. s # 1 => s - 1 \in Thread
      BY <1>4, ThreadsAssumption DEF Thread
    <3> QED BY <1>2, <1>3, <3>1 DEF Begin
  <2>3. helper'[s].next \in Int /\ helper'[s].last \in Int
    BY <1>3, <1>4
  <2>4. Done(s)' <=> helper'[s].next > helper'[s].last
    BY DEF Done
  <2> HIDE DEF Begin
  <2> QED BY <1>3, <2>1, <2>2, <2>3, <2>4 DEF LoopLength
<1>9. ThreadLeft(s)' <= ThreadLeft(s)
  <2>1. /\ (IF Done(s)' THEN 0 ELSE helper'[s].last - helper'[s].next + 1) \in Int
        /\ LoopLength \in Int
    BY <1>3, <1>4 DEF LoopLength
  <2> QED BY <1>6, <1>7, <1>8, <2>1
<1>10. ASSUME NEW t \in Thread PROVE ThreadLeft(t)' <= ThreadLeft(t)
  <2>1. t # s => ThreadLeft(t)' = ThreadLeft(t)
    BY <1>2, <1>3, SameLeft
  <2>2. ThreadLeft(t) \in Nat
    BY LeftTypes
  <2> QED BY <1>9, <2>1, <2>2
<1> QED BY <1>5, <1>10

\* A step of a thread is one less for it.
LEMMA ThreadLeftFalls ==
    ASSUME ParforInv, NEW t \in Thread, NEW from, NEW to \in StepName,
           from \notin {"none", "ended"}, to # "none", Step(t, from, to),
           \/ helper' = helper /\ Place[to] < Place[from]
           \/ ~Done(t) /\ Advance(t) /\ Place[to] < Place[from] + 6
    PROVE  /\ CallerLeft' = CallerLeft
           /\ \A u \in Thread : u # t => ThreadLeft(u)' = ThreadLeft(u)
           /\ ThreadLeft(t)' < ThreadLeft(t)
<1>1. /\ step[t] = from /\ step'[t] = to
      /\ \A u \in Thread : u # t => step'[u] = step[u]
      /\ loop' = loop /\ pc' = pc /\ spawned' = spawned /\ joined' = joined
  BY ThreadSteps
<1>2. helper \in [Thread -> [next : Int, last : Int]] /\ step[t] \in StepName
  BY DEF ParforInv, Typed
<1>3. /\ \A u \in Thread : u # t => helper'[u] = helper[u]
      /\ helper'[t].last = helper[t].last
      /\ helper' = helper \/ helper'[t].next = helper[t].next + 1
  BY <1>2 DEF Advance
<1>4. Place[from] \in Nat /\ Place[to] \in Nat
  BY <1>1, <1>2 DEF StepName, Place
<1>5. /\ ThreadLeft(t) = 6 * (IF Done(t) THEN 0 ELSE helper[t].last - helper[t].next + 1) + Place[from]
      /\ ThreadLeft(t)' = 6 * (IF Done(t)' THEN 0 ELSE helper'[t].last - helper'[t].next + 1) + Place[to]
  BY <1>1 DEF ThreadLeft, Place
<1>6. helper[t].next \in Int /\ helper[t].last \in Int
  BY <1>2
<1>7. (Done(t) <=> helper[t].next > helper[t].last) /\ (Done(t)' <=> helper'[t].next > helper'[t].last)
  BY DEF Done
<1>8. ThreadLeft(t)' < ThreadLeft(t)
  <2>1. CASE helper' = helper /\ Place[to] < Place[from]
    BY <1>4, <1>5, <1>6, <1>7, <2>1
  <2>2. CASE ~Done(t) /\ Advance(t) /\ Place[to] < Place[from] + 6
    <3>1. helper'[t].next = helper[t].next + 1
      BY <1>2, <2>2 DEF Advance
    <3> QED BY <1>3, <1>4, <1>5, <1>6, <1>7, <2>2, <3>1
  <2> QED BY <2>1, <2>2
<1> QED BY <1>1, <1>3, <1>8, SameLeft DEF CallerLeft

LEMMA ThreadNextFalls ==
    ASSUME ParforInv, NEW t \in Thread, ThreadNext(t)
    PROVE  /\ CallerLeft' = CallerLeft
           /\ \A u \in Thread : u # t => ThreadLeft(u)' = ThreadLeft(u)
           /\ ThreadLeft(t)' < ThreadLeft(t)
<1>1. ASSUME NEW from, NEW to, from \in StepName \ {"none", "ended"}, to \in StepName \ {"none"},
             Step(t, from, to),
             \/ helper' = helper /\ Place[to] < Place[from]
             \/ ~Done(t) /\ Advance(t) /\ Place[to] < Place[from] + 6
      PROVE  /\ CallerLeft' = CallerLeft
             /\ \A u \in Thread : u # t => ThreadLeft(u)' = ThreadLeft(u)
             /\ ThreadLeft(t)' < ThreadLeft(t)
  BY <1>1, ThreadLeftFalls
<1>2. CASE RunBody(t)
  <2>1. Step(t, "using", "used") \/ Step(t, "top", "top")
    BY <1>2 DEF RunBody
  <2>2. ~Done(t) /\ Advance(t)
    BY <1>2 DEF RunBody
  <2>3. Place["used"] < Place["using"] + 6 /\ Place["top"] < Place["top"] + 6
    BY DEF Place
  <2> QED BY <1>1, <2>1, <2>2, <2>3 DEF StepName
<1>3. CASE LoadCount(t)
  <2>1. (Step(t, "top", "copying") \/ Step(t, "used", "dropping")) /\ helper' = helper
    BY <1>3 DEF LoadCount
  <2>2. Place["copying"] < Place["top"] /\ Place["dropping"] < Place["used"]
    BY DEF Place
  <2> QED BY <1>1, <2>1, <2>2 DEF StepName
<1>4. CASE StoreCount(t)
  <2>1. (Step(t, "copying", "using") \/ Step(t, "dropping", "top")) /\ helper' = helper
    BY <1>4 DEF StoreCount
  <2>2. Place["using"] < Place["copying"] /\ Place["top"] < Place["dropping"]
    BY DEF Place
  <2> QED BY <1>1, <2>1, <2>2 DEF StepName
<1>5. CASE FailBody(t)
  <2>1. (Step(t, "top", "reporting") \/ Step(t, "top", "ended")) /\ ~Done(t) /\ Advance(t)
    BY <1>5 DEF FailBody
  <2>2. Place["reporting"] < Place["top"] + 6 /\ Place["ended"] < Place["top"] + 6
    BY DEF Place
  <2> QED BY <1>1, <2>1, <2>2 DEF StepName
<1>6. CASE WriteError(t)
  <2>1. Step(t, "reporting", "ended") /\ helper' = helper
    BY <1>6 DEF WriteError
  <2>2. Place["ended"] < Place["reporting"]
    BY DEF Place
  <2> QED BY <1>1, <2>1, <2>2 DEF StepName
<1>7. CASE EndThread(t)
  <2>1. Step(t, "top", "ended") /\ helper' = helper
    BY <1>7 DEF EndThread
  <2>2. Place["ended"] < Place["top"]
    BY DEF Place
  <2> QED BY <1>1, <2>1, <2>2 DEF StepName
<1> QED BY <1>2, <1>3, <1>4, <1>5, <1>6, <1>7 DEF ThreadNext

\* The interpreter's thread joins, and ends the loop, once each.
LEMMA WaitFalls ==
    ASSUME ParforInv, Join \/ Raise \/ Reduce
    PROVE  CallerLeft' < CallerLeft /\ \A t \in Thread : ThreadLeft(t)' = ThreadLeft(t)
<1>1. /\ loop' = loop /\ spawned' = spawned /\ step' = step /\ helper' = helper
      /\ \/ pc' = pc /\ joined' = joined + 1
         \/ pc = "spawn" /\ pc' # "spawn" /\ joined' = joined
  BY DEF Join, Raise, Reduce, Joining, threadVars
<1>2. loop.num_threads \in Int /\ spawned \in Int /\ joined \in Int
  <2>1. loop.num_threads \in Thread /\ spawned \in 0 .. loop.num_threads
        /\ joined \in 0 .. loop.num_threads
    BY DEF ParforInv, Typed
  <2> QED BY <2>1 DEF Thread
<1> QED BY <1>1, <1>2, SameLeft DEF CallerLeft

\* However its threads are scheduled, a parfor loop comes to its end after a number of steps
\* that its range and its threads bound: whatever a thread has left is a natural number, no
\* step adds to it, and each step takes from somebody's.
THEOREM ParforRunsOut ==
    Spec => LoopRunsOut /\ [](CallerLeft \in Nat /\ \A t \in Thread : ThreadLeft(t) \in Nat)
<1>1. ParforInv => CallerLeft \in Nat /\ \A t \in Thread : ThreadLeft(t) \in Nat
  BY LeftTypes
<1>2. ParforInv' => (CallerLeft \in Nat /\ \A t \in Thread : ThreadLeft(t) \in Nat)'
  BY <1>1, PTL
<1>3. ParforInv /\ ParforInv' /\ [Next]_vars =>
        [/\ CallerLeft' <= CallerLeft
         /\ \A t \in Thread : ThreadLeft(t)' <= ThreadLeft(t)
         /\ CallerLeft' < CallerLeft \/ \E t \in Thread : ThreadLeft(t)' < ThreadLeft(t)]_vars
  <2> SUFFICES ASSUME ParforInv, ParforInv', Next
               PROVE  /\ CallerLeft' <= CallerLeft
                      /\ \A t \in Thread : ThreadLeft(t)' <= ThreadLeft(t)
                      /\ CallerLeft' < CallerLeft \/ \E t \in Thread : ThreadLeft(t)' < ThreadLeft(t)
    OBVIOUS
  <2>2. CallerLeft' \in Nat /\ \A t \in Thread : ThreadLeft(t)' \in Nat
    BY <1>2
  <2>1. CallerLeft \in Nat /\ \A t \in Thread : ThreadLeft(t) \in Nat
    BY LeftTypes
  <2>3. CASE Spawn
    <3>1. CallerLeft' < CallerLeft /\ \A t \in Thread : ThreadLeft(t)' <= ThreadLeft(t)
      BY <2>3, SpawnLeft
    <3> QED BY <2>1, <2>2, <3>1
  <2>4. CASE Join \/ Raise \/ Reduce
    <3>1. CallerLeft' < CallerLeft /\ \A t \in Thread : ThreadLeft(t)' = ThreadLeft(t)
      BY <2>4, WaitFalls
    <3> QED BY <2>1, <2>2, <3>1
  <2>5. CASE \E t \in Thread : ThreadNext(t)
    <3>1. PICK t \in Thread : ThreadNext(t)
      BY <2>5
    <3>2. /\ CallerLeft' = CallerLeft
          /\ \A u \in Thread : u # t => ThreadLeft(u)' = ThreadLeft(u)
          /\ ThreadLeft(t)' < ThreadLeft(t)
      BY <3>1, ThreadNextFalls
    <3> QED BY <2>1, <2>2, <3>2
  <2> QED BY <2>3, <2>4, <2>5 DEF Next
<1> QED BY <1>1, <1>3, ParforInvariant, PTL DEF Spec, LoopRunsOut
==============================================================================
