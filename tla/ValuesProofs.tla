---------------------------- MODULE ValuesProofs ----------------------------
(***************************************************************************)
(* Values, for every number of variables, blocks, elements and threads, as *)
(* long as programs are careful: reference counts equal the holders, and   *)
(* nobody can tell that values share memory (ValueSemantics is implemented).*)
(***************************************************************************)
EXTENDS Values, Integers, TLAPS, FiniteSetTheorems

(* The blocks h may hold, a matrix holding numbers only. *)
Matrix    == [kind : {"matrix"}, m_refCount : Nat \ {0}, elems : [Item -> Number]]
Container == [kind : {"cells", "struct"}, m_refCount : Nat \ {0}, elems : [Slot -> Number \cup Block]]

Shape(h) == h \in [Block -> {FREE} \cup Matrix \cup Container]

(* The elements of h that hold b. *)
Elements(h, b) ==
  {p \in Block \X (Slot \cup Item) : p[2] \in DOMAIN h[p[1]].elems /\ h[p[1]].elems[p[2]] = b}

(* How many holders of b, by its count, are no elements. *)
Outside(h, b) == h[b].m_refCount - Cardinality(Elements(h, b))

(* Elements are numbers and matrices in use, and not ignored ones. *)
Linked(h) ==
  \A c \in Block : \A i \in DOMAIN h[c].elems :
    h[c].elems[i] \in Block => h[h[c].elems[i]].kind = "matrix" /\ ~IgnoreCoW(h[c].elems[i])

(* No count is too low for the elements alone, and ignored blocks are in use. *)
Solvent(h) ==
  \A b \in Block : /\ Outside(h, b) >= 0
                   /\ IgnoreCoW(b) => h[b].kind # "free"

Sane(h) == Shape(h) /\ Linked(h) /\ Solvent(h)

-----------------------------------------------------------------------------
(* Counting. *)

LEMMA IndicesFinite == IsFiniteSet(Block \X (Slot \cup Item)) /\ IsFiniteSet(Slot) /\ IsFiniteSet(Item)
<1>1. IsFiniteSet(Slot) /\ IsFiniteSet(Item) /\ MaxBlocks \in Nat
  BY ValuesAssumption
<1>2. IsFiniteSet(Slot \cup Item) /\ IsFiniteSet(Block)
  <2>1. IsFiniteSet(Slot \cup Item)
    BY <1>1, FS_Union
  <2>2. MaxBlocks \in Int /\ 1 \in Int
    BY <1>1
  <2>3. IsFiniteSet(Block)
    BY <2>2, FS_Interval DEF Block
  <2> QED BY <2>1, <2>3
<1> QED
  BY <1>1, <1>2, FS_Product

LEMMA TimesType ==
  ASSUME NEW e, NEW b, IsFiniteSet(DOMAIN e)
  PROVE  Times(e, b) \in Nat
<1>1. {i \in DOMAIN e : e[i] = b} \in SUBSET DOMAIN e
  OBVIOUS
<1>2. IsFiniteSet({i \in DOMAIN e : e[i] = b})
  BY <1>1, FS_Subset
<1> QED
  BY <1>2, FS_CardinalityType DEF Times

(* Nothing holds b. *)
LEMMA TimesNone ==
  ASSUME NEW e, NEW b, \A i \in DOMAIN e : e[i] # b
  PROVE  Times(e, b) = 0
<1>1. {i \in DOMAIN e : e[i] = b} = {}
  OBVIOUS
<1> QED
  BY <1>1, FS_EmptySet DEF Times

LEMMA TimesSome ==
  ASSUME NEW e, NEW b, IsFiniteSet(DOMAIN e), NEW i \in DOMAIN e, e[i] = b
  PROVE  Times(e, b) \in Nat /\ Times(e, b) >= 1
<1> DEFINE S == {j \in DOMAIN e : e[j] = b}
<1>1. S \in SUBSET DOMAIN e /\ S # {}
  OBVIOUS
<1>2. IsFiniteSet(S)
  BY <1>1, FS_Subset
<1>3. Cardinality(S) \in Nat /\ Cardinality(S) # 0
  BY <1>1, <1>2, FS_CardinalityType, FS_EmptySet
<1>4. Times(e, b) = Cardinality(S)
  BY DEF Times
<1> HIDE DEF S
<1> QED
  BY <1>3, <1>4

(* Once at most: two places that hold b are one. *)
LEMMA TimesOnce ==
  ASSUME NEW e, NEW b, IsFiniteSet(DOMAIN e), Times(e, b) <= 1,
         NEW i \in DOMAIN e, e[i] = b, NEW j \in DOMAIN e, e[j] = b
  PROVE  i = j
<1> DEFINE S == {k \in DOMAIN e : e[k] = b}
<1>1. S \in SUBSET DOMAIN e /\ i \in S /\ j \in S
  OBVIOUS
<1>2. IsFiniteSet(S)
  BY <1>1, FS_Subset
<1>3. Cardinality(S) \in Nat /\ Cardinality(S) # 0 /\ Cardinality(S) <= 1
  BY <1>1, <1>2, FS_CardinalityType, FS_EmptySet DEF Times
<1>4. Cardinality(S) = 1
  <2> HIDE DEF S
  <2> QED BY <1>3
<1>5. \E x : S = {x}
  BY <1>2, <1>4, FS_Singleton
<1> QED
  BY <1>1, <1>5

(* One place of e takes v. *)
LEMMA TimesChange ==
  ASSUME NEW e, NEW b, NEW i \in DOMAIN e, NEW v, IsFiniteSet(DOMAIN e)
  PROVE  Times([e EXCEPT ![i] = v], b)
           = Times(e, b) - (IF e[i] = b THEN 1 ELSE 0) + (IF v = b THEN 1 ELSE 0)
<1> DEFINE f == [e EXCEPT ![i] = v]
           S == {j \in DOMAIN e : e[j] = b}
           T == {j \in DOMAIN e : f[j] = b}
           R == S \ {i}
<1>1. S \in SUBSET DOMAIN e /\ R = T \ {i}
  OBVIOUS
<1>2. IsFiniteSet(S)
  BY <1>1, FS_Subset
<1>3. IsFiniteSet(R) /\ Cardinality(R) = IF i \in S THEN Cardinality(S) - 1 ELSE Cardinality(S)
  BY <1>2, FS_RemoveElement
<1>4. T = IF v = b THEN R \cup {i} ELSE R
  OBVIOUS
<1>5. IsFiniteSet(R \cup {i}) /\ Cardinality(R \cup {i}) = Cardinality(R) + 1
  <2>1. i \notin R
    OBVIOUS
  <2> HIDE DEF R
  <2> QED BY <2>1, <1>3, FS_AddElement
<1>6. Times(e, b) = Cardinality(S) /\ Times(f, b) = Cardinality(T)
  BY DEF Times
<1>7. Cardinality(S) \in Nat
  BY <1>2, FS_CardinalityType
<1>8. i \in S <=> e[i] = b
  OBVIOUS
<1> HIDE DEF S, T, R, f
<1>9. Cardinality(T) = Cardinality(R) + (IF v = b THEN 1 ELSE 0)
  BY <1>3, <1>4, <1>5, <1>7
<1>10. Times(f, b) = Times(e, b) - (IF e[i] = b THEN 1 ELSE 0) + (IF v = b THEN 1 ELSE 0)
  BY <1>3, <1>6, <1>7, <1>8, <1>9
<1> QED
  BY <1>10 DEF f

LEMMA ElementsFinite ==
  ASSUME NEW h, NEW b
  PROVE  IsFiniteSet(Elements(h, b)) /\ Cardinality(Elements(h, b)) \in Nat
<1>1. Elements(h, b) \in SUBSET (Block \X (Slot \cup Item))
  BY DEF Elements
<1>2. IsFiniteSet(Elements(h, b))
  BY <1>1, IndicesFinite, FS_Subset
<1> QED
  BY <1>2, FS_CardinalityType

(* The elements of c that hold b. *)
LEMMA RowCounts ==
  ASSUME NEW h, NEW b, NEW c \in Block, DOMAIN h[c].elems \subseteq Slot \cup Item,
         IsFiniteSet(DOMAIN h[c].elems)
  PROVE  Cardinality({p \in Elements(h, b) : p[1] = c}) = Times(h[c].elems, b)
<1> DEFINE S == {i \in DOMAIN h[c].elems : h[c].elems[i] = b}
           T == {p \in Elements(h, b) : p[1] = c}
           f == [i \in S |-> <<c, i>>]
<1>1. S \in SUBSET DOMAIN h[c].elems
  OBVIOUS
<1>2. IsFiniteSet(S)
  BY <1>1, FS_Subset
<1>3. \A i \in S : <<c, i>> \in T
  BY DEF Elements
<1>4. \A p \in T : p[2] \in S /\ p = <<c, p[2]>>
  BY DEF Elements
<1>5. f \in Bijection(S, T)
  <2>1. f \in [S -> T]
    BY <1>3
  <2>2. IsInjective(f)
    BY DEF IsInjective
  <2>3. \A p \in T : \E i \in S : f[i] = p
    BY <1>4
  <2> HIDE DEF f, S, T
  <2> QED BY <2>1, <2>2, <2>3 DEF Bijection, Injection, Surjection
<1>6. ExistsBijection(S, T)
  BY <1>5 DEF ExistsBijection
<1> HIDE DEF T, f
<1>7. Cardinality(T) = Cardinality(S)
  BY <1>2, <1>6, FS_Bijection
<1> QED
  BY <1>7 DEF Times, T

(* The elements of c change from o to e. *)
LEMMA ElementsChange ==
  ASSUME NEW h, NEW k, NEW b, NEW c \in Block, NEW o, NEW e, h[c].elems = o, k[c].elems = e,
         DOMAIN o \subseteq Slot \cup Item, IsFiniteSet(DOMAIN o),
         DOMAIN e \subseteq Slot \cup Item, IsFiniteSet(DOMAIN e),
         \A d \in Block : d # c => k[d].elems = h[d].elems
  PROVE  Cardinality(Elements(k, b)) = Cardinality(Elements(h, b)) - Times(o, b) + Times(e, b)
<1> DEFINE Row(g) == {p \in Elements(g, b) : p[1] = c}
           Rest(g) == {p \in Elements(g, b) : p[1] # c}
<1>1. ASSUME NEW g
      PROVE  /\ IsFiniteSet(Rest(g))
             /\ Cardinality(Elements(g, b)) = Cardinality(Row(g)) + Cardinality(Rest(g))
             /\ Cardinality(Row(g)) \in Nat /\ Cardinality(Rest(g)) \in Nat
  <2>1. Row(g) \in SUBSET Elements(g, b) /\ Rest(g) \in SUBSET Elements(g, b)
    OBVIOUS
  <2>2. IsFiniteSet(Row(g)) /\ IsFiniteSet(Rest(g))
    BY <2>1, ElementsFinite, FS_Subset
  <2>3. Elements(g, b) = Row(g) \cup Rest(g) /\ Row(g) \cap Rest(g) = {}
    OBVIOUS
  <2>4. Cardinality(Row(g)) \in Nat /\ Cardinality(Rest(g)) \in Nat
    BY <2>2, FS_CardinalityType
  <2> HIDE DEF Row, Rest
  <2>5. Cardinality(Elements(g, b))
          = Cardinality(Row(g)) + Cardinality(Rest(g)) - Cardinality(Row(g) \cap Rest(g))
    BY <2>2, <2>3, FS_Union
  <2>6. Cardinality(Row(g) \cap Rest(g)) = 0
    BY <2>3, FS_EmptySet
  <2> QED
    BY <2>2, <2>4, <2>5, <2>6
<1>2. Rest(k) = Rest(h)
  BY DEF Elements
<1>3. Cardinality(Row(h)) = Times(o, b) /\ Cardinality(Row(k)) = Times(e, b)
  BY RowCounts
<1> HIDE DEF Row, Rest
<1> QED
  BY <1>1, <1>2, <1>3

(* Heaps with the same elements, as far as b goes. *)
LEMMA ElementsSame ==
  ASSUME NEW h, NEW k, NEW b,
         \A d \in Block : \A i \in Slot \cup Item :
           (i \in DOMAIN k[d].elems /\ k[d].elems[i] = b)
             <=> (i \in DOMAIN h[d].elems /\ h[d].elems[i] = b)
  PROVE  Elements(k, b) = Elements(h, b)
BY DEF Elements

-----------------------------------------------------------------------------
(* Blocks. *)

LEMMA ShapeFacts ==
  ASSUME NEW h, Shape(h), NEW b \in Block
  PROVE  /\ h[b].kind \in {"free", "matrix", "cells", "struct"}
         /\ h[b].kind = "free" <=> h[b] = FREE
         /\ h[b].m_refCount \in Nat
         /\ h[b].m_refCount = 0 <=> h[b].kind = "free"
         /\ h[b].kind = "free" => DOMAIN h[b].elems = {}
         /\ h[b].kind = "matrix" => h[b] \in Matrix
         /\ h[b].kind \in {"cells", "struct"} => h[b] \in Container
<1>1. h[b] = FREE \/ h[b] \in Matrix \/ h[b] \in Container
  BY DEF Shape
<1>2. CASE h[b] = FREE
  BY <1>2 DEF FREE
<1>3. CASE h[b] \in Matrix
  BY <1>3 DEF Matrix, FREE
<1>4. CASE h[b] \in Container
  BY <1>4 DEF Container, FREE
<1> QED
  BY <1>1, <1>2, <1>3, <1>4

LEMMA ElemsFacts ==
  ASSUME NEW h, Shape(h), NEW b \in Block
  PROVE  /\ DOMAIN h[b].elems \subseteq Slot \cup Item /\ IsFiniteSet(DOMAIN h[b].elems)
         /\ \A i \in DOMAIN h[b].elems :
              /\ h[b].elems[i] \in Number \cup Block
              /\ h[b].elems[i] \in Block => h[b].kind \in {"cells", "struct"} /\ i \in Slot
<1>0. Number \cap Block = {}
  BY ValuesAssumption DEF Block
<1>1. CASE h[b].kind = "free"
  BY <1>1, ShapeFacts, FS_EmptySet
<1>2. CASE h[b].kind = "matrix"
  BY <1>0, <1>2, ShapeFacts, IndicesFinite DEF Matrix
<1>3. CASE h[b].kind \in {"cells", "struct"}
  BY <1>3, ShapeFacts, IndicesFinite DEF Container
<1> QED
  BY <1>1, <1>2, <1>3, ShapeFacts

(* A block that an element holds is counted for it. *)
LEMMA HeldIsCounted ==
  ASSUME NEW h, Shape(h), NEW c \in Block, NEW i \in DOMAIN h[c].elems, h[c].elems[i] \in Block
  PROVE  Cardinality(Elements(h, h[c].elems[i])) >= 1
<1> DEFINE b == h[c].elems[i]
<1>1. <<c, i>> \in Elements(h, b)
  BY ElemsFacts DEF Elements
<1>2. IsFiniteSet(Elements(h, b)) /\ Cardinality(Elements(h, b)) \in Nat
  BY ElementsFinite
<1>3. Cardinality(Elements(h, b)) # 0
  BY <1>1, <1>2, FS_EmptySet
<1> HIDE DEF b
<1>4. Cardinality(Elements(h, b)) >= 1
  BY <1>2, <1>3
<1> QED
  BY <1>4 DEF b

LEMMA OutsideType ==
  ASSUME NEW h, Shape(h), NEW b \in Block
  PROVE  /\ Outside(h, b) \in Int
         /\ Cardinality(Elements(h, b)) \in Nat
         /\ h[b].m_refCount = Outside(h, b) + Cardinality(Elements(h, b))
BY ShapeFacts, ElementsFinite DEF Outside

(* Blocks keep their contents until they are freed. *)
Keeps(h, k) ==
  \A d \in Block : \/ k[d].kind = "free"
                   \/ k[d].kind = h[d].kind /\ k[d].elems = h[d].elems

(* Of what it does not free, a step writes the blocks of W at most. *)
Alters(h, k, W) ==
  \A d \in Block \ W : k[d].kind = "free" \/ (k[d].kind = h[d].kind /\ k[d].elems = h[d].elems)

(* Holders of matrices go, e says which. *)
LEMMA DropAllSpec ==
  ASSUME NEW h, Sane(h), NEW e, IsFiniteSet(DOMAIN e),
         \A i \in DOMAIN e : e[i] \in Block => h[e[i]].kind = "matrix" /\ ~IgnoreCoW(e[i]),
         \A d \in Block : Outside(h, d) >= Times(e, d)
  PROVE  /\ Sane(DropAll(h, e))
         /\ \A d \in Block : Outside(DropAll(h, e), d) = Outside(h, d) - Times(e, d)
         /\ Keeps(h, DropAll(h, e))
         /\ \A d \in Block : h[d].kind # "matrix" => DropAll(h, e)[d] = h[d]
<1> DEFINE k == DropAll(h, e)
<1>1. Shape(h) /\ Linked(h) /\ Solvent(h)
  BY DEF Sane
<1>2. \A d \in Block : Times(e, d) \in Nat
  BY TimesType
<1>3. \A d \in Block : Times(e, d) > 0 => Counted(d) /\ h[d].kind = "matrix"
  <2> TAKE d \in Block
  <2>1. HAVE Times(e, d) > 0
  <2>2. \E i \in DOMAIN e : e[i] = d
    BY <2>1, TimesNone
  <2> QED BY <2>2 DEF Counted
<1>4. \A d \in Block : k[d] = IF Times(e, d) > 0 THEN Less(h[d], Times(e, d)) ELSE h[d]
  BY <1>3 DEF DropAll
<1>5. \A d \in Block : Times(e, d) > 0 =>
         /\ h[d].m_refCount >= Times(e, d) + Cardinality(Elements(h, d))
         /\ h[d] \in Matrix
  BY <1>1, <1>2, <1>3, OutsideType, ShapeFacts
<1>6. \A d \in Block :
         /\ k[d] = FREE \/ k[d] \in Matrix \cup Container
         /\ k[d].m_refCount = h[d].m_refCount - Times(e, d)
         /\ k[d] = FREE \/ (k[d].kind = h[d].kind /\ k[d].elems = h[d].elems)
         /\ k[d] = FREE => Cardinality(Elements(h, d)) = 0
         /\ h[d].kind # "matrix" => k[d] = h[d]
  <2> TAKE d \in Block
  <2>1. CASE Times(e, d) > 0
    <3>0. Cardinality(Elements(h, d)) \in Nat
      BY ElementsFinite
    <3>1. CASE h[d].m_refCount > Times(e, d)
      <4>1. k[d] = [h[d] EXCEPT !.m_refCount = @ - Times(e, d)]
        BY <1>4, <2>1, <3>1 DEF Less
      <4>2. h[d] \in Matrix /\ Times(e, d) \in Nat
        BY <1>2, <1>5, <2>1
      <4>3. k[d] \in Matrix /\ k[d].m_refCount = h[d].m_refCount - Times(e, d)
            /\ k[d].kind = h[d].kind /\ k[d].elems = h[d].elems
        BY <4>1, <4>2, <3>1 DEF Matrix
      <4>4. k[d] # FREE
        BY <4>3 DEF Matrix, FREE
      <4> HIDE DEF k
      <4> QED BY <1>3, <2>1, <4>3, <4>4
    <3>2. CASE ~ (h[d].m_refCount > Times(e, d))
      <4>1. k[d] = FREE
        BY <1>4, <2>1, <3>2 DEF Less
      <4>2. h[d].m_refCount \in Nat /\ Times(e, d) \in Nat
            /\ h[d].m_refCount >= Times(e, d) + Cardinality(Elements(h, d))
        BY <1>1, <1>2, <1>5, <2>1, ShapeFacts
      <4>3. h[d].m_refCount = Times(e, d) /\ Cardinality(Elements(h, d)) = 0
        BY <3>0, <3>2, <4>2
      <4>4. FREE.m_refCount = 0
        BY DEF FREE
      <4> HIDE DEF k
      <4> QED BY <1>3, <2>1, <4>1, <4>2, <4>3, <4>4
    <3> QED BY <3>1, <3>2
  <2>2. CASE ~ (Times(e, d) > 0)
    <3>1. k[d] = h[d] /\ Times(e, d) = 0
      BY <1>2, <1>4, <2>2
    <3>2. h[d] = FREE \/ h[d] \in Matrix \cup Container
      BY <1>1 DEF Shape
    <3>3. h[d].m_refCount \in Nat
      BY <1>1, ShapeFacts
    <3>4. h[d] = FREE => Cardinality(Elements(h, d)) = 0
      <4>1. Cardinality(Elements(h, d)) \in Nat /\ Outside(h, d) >= 0
        BY <1>1, ElementsFinite DEF Solvent
      <4> QED BY <1>1, <4>1, OutsideType DEF FREE
    <3> HIDE DEF k
    <3> QED BY <3>1, <3>2, <3>3, <3>4
  <2> QED BY <2>1, <2>2
<1>7. k \in [Block -> {FREE} \cup Matrix \cup Container]
  <2>1. k = [d \in Block |-> k[d]]
    BY DEF DropAll
  <2> HIDE DEF k
  <2> QED BY <1>6, <2>1
<1> HIDE DEF k
<1>8. Shape(k) /\ Keeps(h, k)
  <2>1. Shape(k)
    BY <1>7 DEF Shape
  <2>2. Keeps(h, k)
    <3> SUFFICES ASSUME NEW d \in Block
                 PROVE  k[d].kind = "free" \/ (k[d].kind = h[d].kind /\ k[d].elems = h[d].elems)
      BY DEF Keeps
    <3>1. CASE k[d] = FREE
      BY <2>1, <3>1, ShapeFacts
    <3>2. CASE k[d] # FREE
      BY <1>6, <3>2
    <3> QED BY <3>1, <3>2
  <2> QED BY <2>1, <2>2
<1>9. \A b \in Block : Elements(k, b) = Elements(h, b)
  <2> TAKE b \in Block
  <2>1. \A d \in Block : \A i \in Slot \cup Item :
           (i \in DOMAIN k[d].elems /\ k[d].elems[i] = b)
             <=> (i \in DOMAIN h[d].elems /\ h[d].elems[i] = b)
    <3> TAKE d \in Block
    <3>1. CASE k[d].elems = h[d].elems
      BY <3>1
    <3>2. CASE k[d].elems # h[d].elems
      <4>1. k[d] = FREE /\ h[d].kind = "matrix"
        BY <1>6, <3>2
      <4>2. DOMAIN k[d].elems = {}
        BY <1>8, <4>1, ShapeFacts
      <4>3. \A i \in DOMAIN h[d].elems : h[d].elems[i] # b
        BY <1>1, <4>1, ElemsFacts
      <4> QED BY <4>2, <4>3
    <3> QED BY <3>1, <3>2
  <2> QED BY <2>1, ElementsSame
<1>10. \A d \in Block : Outside(k, d) = Outside(h, d) - Times(e, d)
  <2> TAKE d \in Block
  <2>1. k[d].m_refCount = h[d].m_refCount - Times(e, d) /\ Elements(k, d) = Elements(h, d)
    BY <1>6, <1>9
  <2>2. h[d].m_refCount \in Nat /\ Times(e, d) \in Nat /\ Cardinality(Elements(h, d)) \in Nat
    BY <1>1, <1>2, ShapeFacts, ElementsFinite
  <2> QED BY <2>1, <2>2 DEF Outside
<1>11. Linked(k)
  <2> SUFFICES ASSUME NEW c \in Block, NEW i \in DOMAIN k[c].elems, k[c].elems[i] \in Block
               PROVE  k[k[c].elems[i]].kind = "matrix" /\ ~IgnoreCoW(k[c].elems[i])
    BY DEF Linked
  <2>1. k[c].elems = h[c].elems
    BY <1>8, ShapeFacts DEF Keeps
  <2>2. h[h[c].elems[i]].kind = "matrix" /\ ~IgnoreCoW(h[c].elems[i])
    BY <1>1, <2>1 DEF Linked
  <2>3. Cardinality(Elements(h, h[c].elems[i])) >= 1
    BY <1>1, <2>1, HeldIsCounted
  <2>4. k[h[c].elems[i]] # FREE
    BY <1>6, <2>1, <2>3
  <2> QED BY <1>6, <2>1, <2>2, <2>4
<1>12. Solvent(k)
  <2> SUFFICES ASSUME NEW d \in Block
               PROVE  Outside(k, d) >= 0 /\ (IgnoreCoW(d) => k[d].kind # "free")
    BY DEF Solvent
  <2>1. Outside(k, d) >= 0
    BY <1>1, <1>2, <1>10, OutsideType
  <2>2. ASSUME IgnoreCoW(d) PROVE k[d].kind # "free"
    <3>1. ~ (Times(e, d) > 0)
      BY <1>3, <2>2 DEF Counted
    <3>2. k[d] = h[d]
      BY <1>4, <3>1 DEF k
    <3> QED BY <1>1, <2>2, <3>2 DEF Solvent
  <2> QED BY <2>1, <2>2
<1>13. Sane(k)
  BY <1>8, <1>11, <1>12 DEF Sane
<1> QED
  BY <1>6, <1>8, <1>10, <1>13 DEF k

(* A change of counts only. *)
LEMMA Recount ==
  ASSUME NEW h, Sane(h), NEW k, Shape(k),
         \A d \in Block : k[d].kind = h[d].kind /\ k[d].elems = h[d].elems,
         \A d \in Block : Outside(h, d) + k[d].m_refCount - h[d].m_refCount >= 0
  PROVE  /\ Sane(k)
         /\ \A d \in Block : Outside(k, d) = Outside(h, d) + k[d].m_refCount - h[d].m_refCount
<1>1. Shape(h) /\ Linked(h) /\ Solvent(h)
  BY DEF Sane
<1>2. \A d \in Block : Elements(k, d) = Elements(h, d)
  BY ElementsSame
<1>3. \A d \in Block : Outside(k, d) = Outside(h, d) + k[d].m_refCount - h[d].m_refCount
  <2> TAKE d \in Block
  <2>1. h[d].m_refCount \in Nat /\ k[d].m_refCount \in Nat /\ Cardinality(Elements(h, d)) \in Nat
    BY <1>1, ShapeFacts, ElementsFinite
  <2> QED BY <1>2, <2>1 DEF Outside
<1>4. Linked(k)
  BY <1>1, ElemsFacts DEF Linked
<1>5. Solvent(k)
  BY <1>1, <1>3 DEF Solvent
<1> QED
  BY <1>3, <1>4, <1>5 DEF Sane

(* A holder that is no element lets go of b. *)
LEMMA ReleaseSpec ==
  ASSUME NEW h, Sane(h), NEW b \in Block, ~IgnoreCoW(b), Outside(h, b) >= 1
  PROVE  /\ Sane(Release(h, b))
         /\ \A d \in Block : Outside(Release(h, b), d)
                               = Outside(h, d) - (IF d = b THEN 1 ELSE 0)
         /\ Keeps(h, Release(h, b))
<1>1. Shape(h) /\ Linked(h) /\ Solvent(h)
  BY DEF Sane
<1>2. /\ h[b].m_refCount \in Nat /\ h[b].m_refCount >= 1 /\ h[b].kind # "free"
      /\ Cardinality(Elements(h, b)) \in Nat
      /\ h[b].m_refCount = Outside(h, b) + Cardinality(Elements(h, b))
      /\ Outside(h, b) \in Int
  BY <1>1, OutsideType, ShapeFacts
<1>3. CASE h[b].m_refCount # 1
  <2> DEFINE k == [h EXCEPT ![b].m_refCount = @ - 1]
  <2>1. Release(h, b) = k
    BY <1>3 DEF Release
  <2>2. /\ h[b] \in Matrix \cup Container
        /\ h[b].m_refCount - 1 \in Nat \ {0}
    BY <1>1, <1>2, <1>3, ShapeFacts
  <2>3. [h[b] EXCEPT !.m_refCount = @ - 1] \in Matrix \cup Container
    BY <2>2 DEF Matrix, Container
  <2>4. Shape(k)
    BY <1>1, <2>3 DEF Shape
  <2>5. \A d \in Block : /\ k[d].kind = h[d].kind /\ k[d].elems = h[d].elems
                        /\ k[d].m_refCount = h[d].m_refCount - (IF d = b THEN 1 ELSE 0)
    <3> TAKE d \in Block
    <3>1. CASE d = b
      <4>1. k[d] = [h[b] EXCEPT !.m_refCount = @ - 1]
        BY <1>1, <3>1 DEF Shape
      <4> HIDE DEF k
      <4> QED BY <2>2, <3>1, <4>1 DEF Matrix, Container
    <3>2. CASE d # b
      <4>1. k[d] = h[d] /\ h[d].m_refCount \in Nat
        BY <1>1, <3>2, ShapeFacts DEF Shape
      <4> HIDE DEF k
      <4> QED BY <3>2, <4>1
    <3> QED BY <3>1, <3>2
  <2> HIDE DEF k
  <2>6. \A d \in Block : Outside(h, d) + k[d].m_refCount - h[d].m_refCount
                         = Outside(h, d) - (IF d = b THEN 1 ELSE 0)
    BY <1>1, <2>5, OutsideType, ShapeFacts
  <2>7. \A d \in Block : Outside(h, d) + k[d].m_refCount - h[d].m_refCount >= 0
    BY <1>1, <1>2, <2>6, OutsideType DEF Solvent
  <2>8. Sane(k) /\ \A d \in Block : Outside(k, d) = Outside(h, d) - (IF d = b THEN 1 ELSE 0)
    BY <2>4, <2>5, <2>6, <2>7, Recount
  <2>9. Keeps(h, k)
    BY <2>5 DEF Keeps
  <2> QED BY <2>1, <2>8, <2>9
<1>4. CASE h[b].m_refCount = 1
  <2> DEFINE e == h[b].elems
             g == [h EXCEPT ![b] = FREE]
  <2>1. Release(h, b) = DropAll(g, e)
    BY <1>4 DEF Release
  <2>2. Outside(h, b) = 1 /\ Cardinality(Elements(h, b)) = 0
    BY <1>2, <1>4
  <2>3. Shape(g) /\ g[b] = FREE /\ \A d \in Block \ {b} : g[d] = h[d]
    BY <1>1 DEF Shape
  <2>4. DOMAIN g[b].elems = {} /\ g[b].m_refCount = 0
    BY <2>3, ShapeFacts
  <2>5. IsFiniteSet(DOMAIN e) /\ DOMAIN e \subseteq Slot \cup Item
    BY <1>1, ElemsFacts
  <2>6. \A c \in Block : \A i \in DOMAIN h[c].elems : h[c].elems[i] # b
    BY <1>1, <2>2, HeldIsCounted
  <2>7. \A d \in Block : Times(e, d) \in Nat /\ Times(g[b].elems, d) = 0
    BY <2>4, <2>5, TimesType, TimesNone
  <2>8. Times(e, b) = 0
    BY <2>6, TimesNone
  <2> HIDE DEF g
  <2>9. \A d \in Block : Cardinality(Elements(g, d)) = Cardinality(Elements(h, d)) - Times(e, d)
    <3> TAKE d \in Block
    <3>1. Cardinality(Elements(g, d))
            = Cardinality(Elements(h, d)) - Times(h[b].elems, d) + Times(g[b].elems, d)
      <4>0. PICK p, q : p = h[b].elems /\ q = g[b].elems
        OBVIOUS
      <4>1. /\ DOMAIN q \subseteq Slot \cup Item /\ IsFiniteSet(DOMAIN q)
            /\ DOMAIN p \subseteq Slot \cup Item /\ IsFiniteSet(DOMAIN p)
        BY <2>4, <2>5, <4>0, FS_EmptySet
      <4>2. \A c \in Block : c # b => g[c].elems = h[c].elems
        BY <2>3
      <4>3. Cardinality(Elements(g, d)) = Cardinality(Elements(h, d)) - Times(p, d) + Times(q, d)
        BY <4>0, <4>1, <4>2, ElementsChange
      <4> QED BY <4>0, <4>3
    <3>2. Cardinality(Elements(h, d)) \in Nat
      BY ElementsFinite
    <3> QED BY <2>7, <3>1, <3>2
  <2>10. \A d \in Block : Outside(g, d) = Outside(h, d) + Times(e, d) - (IF d = b THEN 1 ELSE 0)
    <3> TAKE d \in Block
    <3>1. Cardinality(Elements(h, d)) \in Nat /\ h[d].m_refCount \in Nat
      BY <1>1, ElementsFinite, ShapeFacts
    <3>2. g[d].m_refCount = h[d].m_refCount - (IF d = b THEN 1 ELSE 0)
      BY <1>4, <2>3, <2>4, <3>1
    <3> HIDE DEF e
    <3> QED BY <2>7, <2>9, <3>1, <3>2 DEF Outside
  <2>11. \A d \in Block : Outside(g, d) >= Times(e, d) /\ Outside(g, d) >= 0
    <3> TAKE d \in Block
    <3>1. Outside(h, d) \in Int /\ Outside(h, d) >= 0 /\ Times(e, d) \in Nat
      BY <1>1, <2>7, OutsideType DEF Solvent
    <3>2. d = b => Outside(h, d) = 1
      BY <2>2
    <3> HIDE DEF e
    <3> QED BY <2>10, <3>1, <3>2
  <2>12. Linked(g)
    <3> SUFFICES ASSUME NEW c \in Block, NEW i \in DOMAIN g[c].elems, g[c].elems[i] \in Block
                 PROVE  g[g[c].elems[i]].kind = "matrix" /\ ~IgnoreCoW(g[c].elems[i])
      BY DEF Linked
    <3>1. c # b /\ g[c] = h[c]
      BY <2>3, <2>4
    <3>2. h[c].elems[i] # b /\ h[h[c].elems[i]].kind = "matrix" /\ ~IgnoreCoW(h[c].elems[i])
      BY <1>1, <2>6, <3>1 DEF Linked
    <3> QED BY <2>3, <3>1, <3>2
  <2>13. Sane(g)
    <3>1. \A d \in Block : IgnoreCoW(d) => g[d].kind # "free"
      BY <1>1, <2>3 DEF Solvent
    <3> QED BY <2>3, <2>11, <2>12, <3>1 DEF Sane, Solvent
  <2>14. \A i \in DOMAIN e : e[i] \in Block => g[e[i]].kind = "matrix" /\ ~IgnoreCoW(e[i])
    BY <1>1, <2>3, <2>6 DEF Linked
  <2> DEFINE k == DropAll(g, e)
  <2>15. /\ Sane(k) /\ Keeps(g, k)
         /\ \A d \in Block : Outside(k, d) = Outside(g, d) - Times(e, d)
         /\ \A d \in Block : g[d].kind # "matrix" => k[d] = g[d]
    BY <2>5, <2>11, <2>13, <2>14, DropAllSpec
  <2> HIDE DEF k, e
  <2>16. \A d \in Block : Outside(k, d) = Outside(h, d) - (IF d = b THEN 1 ELSE 0)
    BY <1>1, <2>7, <2>10, <2>15, OutsideType
  <2>17. Keeps(h, k)
    <3>1. k[b].kind = "free"
      BY <2>3, <2>15, ShapeFacts
    <3> SUFFICES ASSUME NEW d \in Block
                 PROVE  k[d].kind = "free" \/ (k[d].kind = h[d].kind /\ k[d].elems = h[d].elems)
      BY DEF Keeps
    <3>2. CASE d = b
      BY <3>1, <3>2
    <3>3. CASE d # b
      BY <2>3, <2>15, <3>3 DEF Keeps
    <3> QED BY <3>2, <3>3
  <2> QED BY <2>1, <2>15, <2>16, <2>17 DEF k
<1> QED
  BY <1>3, <1>4

(* A holder that may be a number goes. *)
LEMMA DropSpec ==
  ASSUME NEW h, Sane(h), NEW v, Counted(v) => Outside(h, v) >= 1
  PROVE  /\ Sane(Drop(h, v))
         /\ \A d \in Block : Outside(Drop(h, v), d)
                               = Outside(h, d) - (IF d = v /\ Counted(v) THEN 1 ELSE 0)
         /\ Keeps(h, Drop(h, v))
<1>1. CASE Counted(v)
  BY <1>1, ReleaseSpec DEF Drop, Counted
<1>2. CASE ~Counted(v)
  <2>1. Drop(h, v) = h
    BY <1>2 DEF Drop
  <2>2. \A d \in Block : Outside(h, d) = Outside(h, d) - 0
    BY OutsideType DEF Sane
  <2> QED BY <1>2, <2>1, <2>2 DEF Keeps
<1> QED
  BY <1>1, <1>2

(* v is counted once more, for a holder to come. *)
LEMMA IncrSpec ==
  ASSUME NEW h, Sane(h), NEW v, Counted(v) => h[v].kind # "free"
  PROVE  /\ Sane(Incr(h, v))
         /\ \A d \in Block : Outside(Incr(h, v), d)
                               = Outside(h, d) + (IF d = v /\ Counted(v) THEN 1 ELSE 0)
         /\ \A d \in Block : Incr(h, v)[d].kind = h[d].kind /\ Incr(h, v)[d].elems = h[d].elems
<1>1. Shape(h) /\ Solvent(h)
  BY DEF Sane
<1>2. CASE Counted(v)
  <2> DEFINE k == [h EXCEPT ![v].m_refCount = @ + 1]
  <2>1. Incr(h, v) = k /\ v \in Block
    BY <1>2 DEF Incr, Counted
  <2>2. h[v] \in Matrix \cup Container
    BY <1>1, <1>2, <2>1, ShapeFacts
  <2>3. [h[v] EXCEPT !.m_refCount = @ + 1] \in Matrix \cup Container
    BY <2>2 DEF Matrix, Container
  <2>4. Shape(k)
    BY <1>1, <2>1, <2>3 DEF Shape
  <2>5. \A d \in Block : /\ k[d].kind = h[d].kind /\ k[d].elems = h[d].elems
                        /\ k[d].m_refCount = h[d].m_refCount + (IF d = v THEN 1 ELSE 0)
    <3> TAKE d \in Block
    <3>1. CASE d = v
      <4>1. k[d] = [h[v] EXCEPT !.m_refCount = @ + 1]
        BY <1>1, <3>1 DEF Shape
      <4> HIDE DEF k
      <4> QED BY <2>2, <3>1, <4>1 DEF Matrix, Container
    <3>2. CASE d # v
      <4>1. k[d] = h[d] /\ h[d].m_refCount \in Nat
        BY <1>1, <3>2, ShapeFacts DEF Shape
      <4> HIDE DEF k
      <4> QED BY <3>2, <4>1
    <3> QED BY <3>1, <3>2
  <2> HIDE DEF k
  <2>6. \A d \in Block : /\ Outside(h, d) + k[d].m_refCount - h[d].m_refCount
                             = Outside(h, d) + (IF d = v THEN 1 ELSE 0)
                        /\ Outside(h, d) + k[d].m_refCount - h[d].m_refCount >= 0
    BY <1>1, <2>5, OutsideType, ShapeFacts DEF Solvent
  <2> QED BY <1>2, <2>1, <2>4, <2>5, <2>6, Recount
<1>3. CASE ~Counted(v)
  <2>1. Incr(h, v) = h
    BY <1>3 DEF Incr
  <2>2. \A d \in Block : Outside(h, d) = Outside(h, d) + 0
    BY <1>1, OutsideType
  <2> QED BY <1>3, <2>1, <2>2
<1> QED
  BY <1>2, <1>3

(* Elements a block of this kind may have in h. *)
Fits(h, kind, e) ==
  /\ e \in [Index(kind) -> Number \cup Block]
  /\ \A i \in Index(kind) : e[i] \in Block =>
        kind # "matrix" /\ h[e[i]].kind = "matrix" /\ ~IgnoreCoW(e[i])

LEMMA FitsFacts ==
  ASSUME NEW h, NEW kind \in Kind, NEW e, Fits(h, kind, e)
  PROVE  /\ IsFiniteSet(DOMAIN e) /\ DOMAIN e = Index(kind) /\ DOMAIN e \subseteq Slot \cup Item
         /\ \A d \in Block : Times(e, d) \in Nat
         /\ \A d \in Block : Times(e, d) > 0 => Counted(d) /\ h[d].kind = "matrix"
         /\ kind = "matrix" => \A d \in Block : Times(e, d) = 0
<1>1. DOMAIN e = Index(kind) /\ IsFiniteSet(Index(kind)) /\ Index(kind) \subseteq Slot \cup Item
  BY IndicesFinite DEF Fits, Index
<1>2. \A d \in Block : Times(e, d) \in Nat
  BY <1>1, TimesType
<1>3. ASSUME NEW d \in Block, Times(e, d) # 0
      PROVE  Counted(d) /\ h[d].kind = "matrix" /\ kind # "matrix"
  <2>1. \E i \in DOMAIN e : e[i] = d
    BY <1>3, TimesNone
  <2> QED BY <1>1, <2>1 DEF Fits, Counted
<1> QED
  BY <1>1, <1>2, <1>3

(* The elements of a block fit where it is. *)
LEMMA OwnElemsFit ==
  ASSUME NEW h, Sane(h), NEW b \in Block, h[b].kind # "free"
  PROVE  h[b].kind \in Kind /\ Fits(h, h[b].kind, h[b].elems)
<1>1. h[b] \in Matrix \/ h[b] \in Container
  BY ShapeFacts DEF Sane
<1>2. Number \cap Block = {}
  BY ValuesAssumption DEF Block
<1> QED
  BY <1>1, <1>2 DEF Sane, Linked, Fits, Index, Matrix, Container, Kind

(* A new block is written to a free place, and held by one who is no element. *)
LEMMA AllocateSpec ==
  ASSUME NEW h, Sane(h), FreeBlocks(h) # {}, NEW kind \in Kind, NEW e, Fits(h, kind, e)
  PROVE  /\ Fresh(h) \in Block /\ h[Fresh(h)].kind = "free" /\ ~IgnoreCoW(Fresh(h))
         /\ Sane(Allocate(h, kind, e))
         /\ \A d \in Block : Outside(Allocate(h, kind, e), d)
                               = Outside(h, d) + (IF d = Fresh(h) THEN 1 ELSE 0)
         /\ \A d \in Block : d # Fresh(h) =>
               /\ Allocate(h, kind, e)[d].kind = h[d].kind
               /\ Allocate(h, kind, e)[d].elems = h[d].elems
               /\ Times(e, d) = 0 => Allocate(h, kind, e)[d].m_refCount = h[d].m_refCount
         /\ Allocate(h, kind, e)[Fresh(h)].kind = kind
         /\ Allocate(h, kind, e)[Fresh(h)].m_refCount = 1
         /\ Allocate(h, kind, e)[Fresh(h)].elems = e
<1> DEFINE n == Fresh(h)
           new == [kind |-> kind, m_refCount |-> 1, elems |-> e]
           k == Allocate(h, kind, e)
<1>1. Shape(h) /\ Linked(h) /\ Solvent(h)
  BY DEF Sane
<1>2. n \in FreeBlocks(h)
  BY DEF Fresh
<1>3. n \in Block /\ h[n] = FREE /\ h[n].kind = "free"
  BY <1>1, <1>2, ShapeFacts DEF FreeBlocks
<1> HIDE DEF n
<1>4. ~IgnoreCoW(n) /\ Outside(h, n) >= 0
  BY <1>1, <1>3 DEF Solvent
<1>5. h[n].m_refCount = 0 /\ DOMAIN h[n].elems = {} /\ Cardinality(Elements(h, n)) \in Nat
  BY <1>1, <1>3, ShapeFacts, ElementsFinite
<1>6. Cardinality(Elements(h, n)) = 0 /\ Outside(h, n) = 0
  BY <1>4, <1>5 DEF Outside
<1>7. /\ \A d \in Block : Times(e, d) \in Nat
      /\ \A d \in Block : Times(e, d) > 0 => Counted(d) /\ h[d].kind = "matrix"
      /\ IsFiniteSet(DOMAIN e) /\ DOMAIN e \subseteq Slot \cup Item
  BY FitsFacts
<1>8. Times(e, n) = 0
  BY <1>3, <1>7
<1>9. /\ k = [IncrAll(h, e) EXCEPT ![n] = new]
      /\ IncrAll(h, e) = [d \in Block |-> IF Counted(d)
                          THEN [h[d] EXCEPT !.m_refCount = @ + Times(e, d)] ELSE h[d]]
  BY DEF Allocate, IncrAll, n
<1>10. k[n] = new /\ k = [d \in Block |-> k[d]]
       /\ \A d \in Block \ {n} : k[d] = IF Counted(d)
             THEN [h[d] EXCEPT !.m_refCount = @ + Times(e, d)] ELSE h[d]
  BY <1>3, <1>9, Zenon
<1> HIDE DEF k
<1>11. ASSUME NEW d \in Block \ {n}
       PROVE  /\ k[d] \in {FREE} \cup Matrix \cup Container
              /\ k[d].kind = h[d].kind /\ k[d].elems = h[d].elems
              /\ k[d].m_refCount = h[d].m_refCount + Times(e, d)
  <2>1. CASE Times(e, d) > 0
    <3>1. h[d] \in Matrix
      BY <1>1, <1>7, <2>1, ShapeFacts
    <3>2. k[d] = [h[d] EXCEPT !.m_refCount = @ + Times(e, d)]
      BY <1>7, <1>10, <2>1
    <3> QED BY <1>7, <3>1, <3>2 DEF Matrix
  <2>2. CASE ~ (Times(e, d) > 0)
    <3>1. Times(e, d) = 0
      BY <1>7, <2>2
    <3>2. h[d].m_refCount \in Nat /\ h[d] \in {FREE} \cup Matrix \cup Container
      BY <1>1, ShapeFacts DEF Shape
    <3>3. k[d] = h[d]
      <4>1. h[d].m_refCount + Times(e, d) = h[d].m_refCount
        BY <3>1, <3>2
      <4>2. [h[d] EXCEPT !.m_refCount = h[d].m_refCount] = h[d]
        BY <3>2 DEF FREE, Matrix, Container
      <4> QED BY <1>10, <4>1, <4>2
    <3> QED BY <3>1, <3>2, <3>3
  <2> QED BY <2>1, <2>2
<1>12. new \in Matrix \cup Container
  <2>1. Number \cap Block = {}
    BY ValuesAssumption DEF Block
  <2>2. CASE kind = "matrix"
    <3>1. e \in [Item -> Number]
      BY <2>2 DEF Fits, Index
    <3> QED BY <2>2, <3>1 DEF Matrix
  <2>3. CASE kind # "matrix"
    <3>1. e \in [Slot -> Number \cup Block] /\ kind \in {"cells", "struct"}
      BY <2>3 DEF Fits, Index, Kind
    <3> QED BY <3>1 DEF Container
  <2> QED BY <2>2, <2>3
<1>13. Shape(k)
  BY <1>10, <1>11, <1>12 DEF Shape
<1>14. k[n].kind = kind /\ k[n].m_refCount = 1 /\ k[n].elems = e
  BY <1>10
<1>15. \A d \in Block : Cardinality(Elements(k, d)) = Cardinality(Elements(h, d)) + Times(e, d)
  <2> TAKE d \in Block
  <2>1. Cardinality(Elements(k, d))
          = Cardinality(Elements(h, d)) - Times(h[n].elems, d) + Times(k[n].elems, d)
    <3>0. PICK p, q : p = h[n].elems /\ q = k[n].elems
      OBVIOUS
    <3>1. DOMAIN p \subseteq Slot \cup Item /\ IsFiniteSet(DOMAIN p)
      BY <1>1, <1>3, <3>0, ElemsFacts
    <3>2. DOMAIN q \subseteq Slot \cup Item /\ IsFiniteSet(DOMAIN q)
      BY <1>7, <1>14, <3>0
    <3>3. \A c \in Block : c # n => k[c].elems = h[c].elems
      BY <1>11
    <3>4. Cardinality(Elements(k, d)) = Cardinality(Elements(h, d)) - Times(p, d) + Times(q, d)
      BY <1>3, <3>0, <3>1, <3>2, <3>3, ElementsChange
    <3> QED BY <3>0, <3>4
  <2>2. Times(h[n].elems, d) = 0
    BY <1>5, TimesNone
  <2>3. Cardinality(Elements(h, d)) \in Nat
    BY ElementsFinite
  <2> QED BY <1>7, <1>14, <2>1, <2>2, <2>3
<1>16. \A d \in Block : Outside(k, d) = Outside(h, d) + (IF d = n THEN 1 ELSE 0)
  <2> TAKE d \in Block
  <2>1. Cardinality(Elements(h, d)) \in Nat /\ h[d].m_refCount \in Nat /\ Times(e, d) \in Nat
    BY <1>1, <1>7, ElementsFinite, ShapeFacts
  <2>2. CASE d = n
    BY <1>5, <1>6, <1>8, <1>14, <1>15, <2>2 DEF Outside
  <2>3. CASE d # n
    BY <1>11, <1>15, <2>1, <2>3 DEF Outside
  <2> QED BY <2>2, <2>3
<1>17. Linked(k)
  <2> SUFFICES ASSUME NEW c \in Block, NEW i \in DOMAIN k[c].elems, k[c].elems[i] \in Block
               PROVE  k[k[c].elems[i]].kind = "matrix" /\ ~IgnoreCoW(k[c].elems[i])
    BY DEF Linked
  <2>1. h[k[c].elems[i]].kind = "matrix" /\ ~IgnoreCoW(k[c].elems[i])
    <3>1. CASE c = n
      BY <1>14, <3>1 DEF Fits
    <3>2. CASE c # n
      BY <1>1, <1>11, <3>2 DEF Linked
    <3> QED BY <3>1, <3>2
  <2>2. k[c].elems[i] # n
    BY <1>3, <2>1
  <2> QED BY <1>11, <2>1, <2>2
<1>18. Sane(k)
  <2>1. \A d \in Block : Outside(k, d) >= 0
    BY <1>1, <1>16, OutsideType DEF Solvent
  <2>2. \A d \in Block : IgnoreCoW(d) => k[d].kind # "free"
    BY <1>1, <1>4, <1>11 DEF Solvent
  <2> QED BY <1>13, <1>17, <2>1, <2>2 DEF Sane, Solvent
<1>19. \A d \in Block \ {n} : Times(e, d) = 0 => k[d].m_refCount = h[d].m_refCount
  BY <1>1, <1>11, ShapeFacts
<1> QED
  BY <1>3, <1>4, <1>10, <1>11, <1>16, <1>18, <1>19 DEF n, k

(* b is in use once its count is at least 1. *)
LEMMA InUse ==
  ASSUME NEW h, Sane(h), NEW b \in Block, Outside(h, b) >= 1
  PROVE  h[b].kind # "free" /\ h[b].m_refCount >= 1
BY OutsideType, ShapeFacts DEF Sane

IsPut(k, h, b, i, v) == k = [h EXCEPT ![b].elems[i] = v]

(* One element changes from a number or a matrix to another. *)
LEMMA PutSpec ==
  ASSUME NEW h, Sane(h), NEW b \in Block, NEW i \in DOMAIN h[b].elems, NEW v,
         \/ v \in Number
         \/ /\ v \in Block /\ h[v].kind = "matrix" /\ ~IgnoreCoW(v)
            /\ Outside(h, v) >= 1 /\ h[b].kind # "matrix",
         NEW k, IsPut(k, h, b, i, v)
  PROVE  /\ Sane(k)
         /\ \A d \in Block : Outside(k, d) = Outside(h, d)
              + (IF h[b].elems[i] = d THEN 1 ELSE 0) - (IF v = d THEN 1 ELSE 0)
         /\ \A d \in Block : k[d].kind = h[d].kind /\ k[d].m_refCount = h[d].m_refCount
         /\ \A d \in Block \ {b} : k[d] = h[d]
         /\ k[b].elems = [h[b].elems EXCEPT ![i] = v]
<1> DEFINE o == h[b].elems[i]
<1>1. Shape(h) /\ Linked(h) /\ Solvent(h)
  BY DEF Sane
<1>2. IsFiniteSet(DOMAIN h[b].elems) /\ DOMAIN h[b].elems \subseteq Slot \cup Item
      /\ h[b].kind # "free" /\ v \in Number \cup Block /\ Number \cap Block = {}
  BY <1>1, ElemsFacts, ShapeFacts, ValuesAssumption DEF Block
<1>3. h[b] \in Matrix \/ h[b] \in Container
  BY <1>1, <1>2, ShapeFacts
<1>4. /\ k[b] = [h[b] EXCEPT !.elems[i] = v]
      /\ \A d \in Block \ {b} : k[d] = h[d]
      /\ k = [d \in Block |-> k[d]]
  BY <1>1 DEF Shape, IsPut
<1>5. /\ k[b].kind = h[b].kind /\ k[b].m_refCount = h[b].m_refCount
      /\ k[b].elems = [h[b].elems EXCEPT ![i] = v]
  BY <1>3, <1>4 DEF Matrix, Container
<1>6. k[b] \in Matrix \cup Container
  <2>1. CASE h[b] \in Matrix
    <3>1. v \in Number
      BY <2>1 DEF Matrix
    <3> QED BY <1>4, <2>1, <3>1 DEF Matrix
  <2>2. CASE h[b] \in Container
    BY <1>2, <1>4, <2>2 DEF Container
  <2> QED BY <1>3, <2>1, <2>2
<1>7. Shape(k)
  <2>1. \A d \in Block : k[d] \in {FREE} \cup Matrix \cup Container
    BY <1>1, <1>4, <1>6 DEF Shape
  <2>2. k = [d \in Block |-> k[d]]
    BY <1>4
  <2>3. k \in [Block -> {FREE} \cup Matrix \cup Container]
    BY <2>1, <2>2
  <2> QED BY <2>3 DEF Shape
<1>8. \A d \in Block : k[d].kind = h[d].kind /\ k[d].m_refCount = h[d].m_refCount
  BY <1>4, <1>5
<1>9. \A d \in Block : Cardinality(Elements(k, d)) = Cardinality(Elements(h, d))
          - (IF o = d THEN 1 ELSE 0) + (IF v = d THEN 1 ELSE 0)
  <2> TAKE d \in Block
  <2>1. Cardinality(Elements(k, d))
          = Cardinality(Elements(h, d)) - Times(h[b].elems, d) + Times(k[b].elems, d)
    <3>0. PICK p, e : p = h[b].elems /\ e = k[b].elems
      OBVIOUS
    <3>1. IsFiniteSet(DOMAIN k[b].elems) /\ DOMAIN k[b].elems \subseteq Slot \cup Item
      BY <1>2, <1>5
    <3>2. \A c \in Block : c # b => k[c].elems = h[c].elems
      BY <1>4
    <3>3. IsFiniteSet(DOMAIN h[b].elems) /\ DOMAIN h[b].elems \subseteq Slot \cup Item
      BY <1>2
    <3>4. /\ DOMAIN p \subseteq Slot \cup Item /\ IsFiniteSet(DOMAIN p)
          /\ DOMAIN e \subseteq Slot \cup Item /\ IsFiniteSet(DOMAIN e)
          /\ h[b].elems = p /\ k[b].elems = e
      BY <3>0, <3>1, <3>3
    <3>5. Cardinality(Elements(k, d)) = Cardinality(Elements(h, d)) - Times(p, d) + Times(e, d)
      BY <3>2, <3>4, ElementsChange
    <3> QED BY <3>0, <3>5
  <2>2. Times(k[b].elems, d) = Times(h[b].elems, d) - (IF o = d THEN 1 ELSE 0)
                               + (IF v = d THEN 1 ELSE 0)
    BY <1>2, <1>5, TimesChange
  <2>3. Cardinality(Elements(h, d)) \in Nat /\ Times(h[b].elems, d) \in Nat
    BY <1>2, ElementsFinite, TimesType
  <2> HIDE DEF o
  <2> QED BY <2>1, <2>2, <2>3
<1>10. \A d \in Block : Outside(k, d) = Outside(h, d)
          + (IF o = d THEN 1 ELSE 0) - (IF v = d THEN 1 ELSE 0)
  <2> TAKE d \in Block
  <2>1. Cardinality(Elements(h, d)) \in Nat /\ h[d].m_refCount \in Nat
    BY <1>1, ElementsFinite, ShapeFacts
  <2> HIDE DEF o
  <2> QED BY <1>8, <1>9, <2>1 DEF Outside
<1>11. \A d \in Block : Outside(k, d) >= 0
  <2> TAKE d \in Block
  <2>1. Outside(h, d) \in Int /\ Outside(h, d) >= 0 /\ (v = d => Outside(h, d) >= 1)
    BY <1>1, <1>2, OutsideType DEF Solvent
  <2> QED BY <1>10, <2>1
<1>12. Linked(k)
  <2> SUFFICES ASSUME NEW c \in Block, NEW j \in DOMAIN k[c].elems, k[c].elems[j] \in Block
               PROVE  k[k[c].elems[j]].kind = "matrix" /\ ~IgnoreCoW(k[c].elems[j])
    BY DEF Linked
  <2>1. CASE c = b /\ j = i
    <3>1. k[c].elems[j] = v
      BY <1>5, <2>1
    <3> QED BY <1>2, <1>8, <3>1
  <2>2. CASE c # b \/ j # i
    <3>1. j \in DOMAIN h[c].elems /\ k[c].elems[j] = h[c].elems[j]
      BY <1>4, <1>5, <2>2
    <3> QED BY <1>1, <1>8, <3>1 DEF Linked
  <2> QED BY <2>1, <2>2
<1>13. Sane(k)
  BY <1>1, <1>7, <1>8, <1>11, <1>12 DEF Sane, Solvent
<1> QED
  BY <1>4, <1>5, <1>8, <1>10, <1>13

(* Currency's assignment to an element counts what it must. *)
LEMMA StoreSpec ==
  ASSUME NEW h, Sane(h), NEW b \in Block, NEW i \in DOMAIN h[b].elems, NEW v,
         Outside(h, b) >= 1,
         \/ v \in Number
         \/ v \in Block /\ h[v].kind = "matrix" /\ ~IgnoreCoW(v) /\ h[b].kind # "matrix"
  PROVE  LET k == Store(h, b, i, v) IN
         /\ Sane(k)
         /\ \A d \in Block : Outside(k, d) = Outside(h, d)
         /\ \A d \in Block \ {b} : \/ k[d].kind = "free"
                                   \/ k[d].kind = h[d].kind /\ k[d].elems = h[d].elems
         /\ k[b].kind = h[b].kind /\ k[b].elems = [h[b].elems EXCEPT ![i] = v]
<1> DEFINE o == h[b].elems[i]
           h1 == Incr(h, v)
           h2 == [h1 EXCEPT ![b].elems[i] = v]
           k == Drop(h2, o)
<1>1. Shape(h) /\ Linked(h) /\ Solvent(h)
  BY DEF Sane
<1>2. Number \cap Block = {}
  BY ValuesAssumption DEF Block
<1>3. Counted(v) <=> v \in Block
  BY <1>2 DEF Counted
<1>4. /\ Sane(h1)
      /\ \A d \in Block : Outside(h1, d) = Outside(h, d) + (IF d = v THEN 1 ELSE 0)
      /\ \A d \in Block : h1[d].kind = h[d].kind /\ h1[d].elems = h[d].elems
  BY <1>2, <1>3, IncrSpec
<1>5. \A d \in Block : Outside(h, d) \in Int /\ Outside(h, d) >= 0
  BY <1>1, OutsideType DEF Solvent
<1>6. v \in Block => Outside(h1, v) >= 1
  <2> HIDE DEF h1
  <2> QED BY <1>4, <1>5
<1>7. /\ Sane(h2)
      /\ \A d \in Block : Outside(h2, d) = Outside(h1, d)
           + (IF o = d THEN 1 ELSE 0) - (IF v = d THEN 1 ELSE 0)
      /\ \A d \in Block : h2[d].kind = h1[d].kind
      /\ \A d \in Block \ {b} : h2[d] = h1[d]
      /\ h2[b].elems = [h1[b].elems EXCEPT ![i] = v]
  <2> HIDE DEF h1
  <2>1. i \in DOMAIN h1[b].elems /\ h1[b].elems[i] = o
    BY <1>4
  <2>2. v \in Block => h1[v].kind = "matrix" /\ h1[b].kind # "matrix"
    BY <1>2, <1>4
  <2>3. \/ v \in Number
        \/ /\ v \in Block /\ h1[v].kind = "matrix" /\ ~IgnoreCoW(v)
           /\ Outside(h1, v) >= 1 /\ h1[b].kind # "matrix"
    BY <1>6, <2>2
  <2>4. /\ Sane(h2)
        /\ \A d \in Block : Outside(h2, d) = Outside(h1, d)
             + (IF h1[b].elems[i] = d THEN 1 ELSE 0) - (IF v = d THEN 1 ELSE 0)
        /\ \A d \in Block : h2[d].kind = h1[d].kind
        /\ \A d \in Block \ {b} : h2[d] = h1[d]
        /\ h2[b].elems = [h1[b].elems EXCEPT ![i] = v]
    <3>1. IsPut(h2, h1, b, i, v)
      BY DEF IsPut
    <3> HIDE DEF h2
    <3> QED BY <1>4, <2>1, <2>3, <3>1, PutSpec
  <2> QED BY <2>1, <2>4
<1> HIDE DEF h1, h2
<1>8. \A d \in Block : Outside(h2, d) = Outside(h, d) + (IF o = d THEN 1 ELSE 0)
  BY <1>4, <1>5, <1>7
<1>9. Counted(o) <=> o \in Block
  BY <1>1 DEF Linked, Counted
<1>10. Counted(o) => Outside(h2, o) >= 1
  <2> HIDE DEF o
  <2> QED BY <1>5, <1>8, <1>9
<1>11. /\ Sane(k) /\ Keeps(h2, k)
       /\ \A d \in Block : Outside(k, d) = Outside(h2, d) - (IF d = o /\ Counted(o) THEN 1 ELSE 0)
  BY <1>7, <1>10, DropSpec
<1> HIDE DEF k
<1>12. \A d \in Block : Outside(k, d) = Outside(h, d)
  <2> HIDE DEF o
  <2> QED BY <1>5, <1>8, <1>9, <1>11
<1>13. k[b].kind # "free"
  BY <1>11, <1>12, InUse
<1>14. k[b].kind = h[b].kind /\ k[b].elems = [h[b].elems EXCEPT ![i] = v]
  BY <1>4, <1>7, <1>11, <1>13 DEF Keeps
<1>15. \A d \in Block \ {b} : \/ k[d].kind = "free"
                              \/ k[d].kind = h[d].kind /\ k[d].elems = h[d].elems
  BY <1>4, <1>7, <1>11 DEF Keeps
<1>16. Store(h, b, i, v) = k
  BY DEF Store, k, h2, h1
<1> QED
  BY <1>11, <1>12, <1>14, <1>15, <1>16

(* The copy that a write into a shared block makes. *)
LEMMA OwnShared ==
  ASSUME NEW h, Sane(h), NEW b \in Block, h[b].kind # "free", Shared(h, b), FreeBlocks(h) # {}
  PROVE  LET A == Allocate(h, h[b].kind, h[b].elems) IN
         /\ h[b].kind \in Kind /\ Fits(h, h[b].kind, h[b].elems)
         /\ Fresh(h) \in Block \ {b}
         /\ Own(h, b) = [A EXCEPT ![b].m_refCount = @ - 1]
         /\ A[b].kind = h[b].kind /\ A[b].elems = h[b].elems
         /\ A[b].m_refCount = h[b].m_refCount /\ h[b].m_refCount >= 2
<1> DEFINE A == Allocate(h, h[b].kind, h[b].elems)
<1>1. h[b].kind \in Kind /\ Fits(h, h[b].kind, h[b].elems)
  BY OwnElemsFit
<1>2. Times(h[b].elems, b) = 0
  <2>1. \A i \in DOMAIN h[b].elems : h[b].elems[i] # b
    BY ElemsFacts DEF Sane, Linked
  <2> QED BY <2>1, TimesNone
<1>3. PICK kind, e, B : kind = h[b].kind /\ e = h[b].elems /\ B = Allocate(h, kind, e)
  OBVIOUS
<1>4. /\ Fresh(h) \in Block /\ Fresh(h) # b
      /\ B[b].kind = h[b].kind /\ B[b].elems = h[b].elems
      /\ B[b].m_refCount = h[b].m_refCount
  <2>1. kind \in Kind /\ Fits(h, kind, e) /\ Times(e, b) = 0
    BY <1>1, <1>2, <1>3
  <2>2. /\ Fresh(h) \in Block /\ h[Fresh(h)].kind = "free"
        /\ \A d \in Block \ {Fresh(h)} : B[d].kind = h[d].kind /\ B[d].elems = h[d].elems
        /\ \A d \in Block \ {Fresh(h)} : Times(e, d) = 0 => B[d].m_refCount = h[d].m_refCount
    <3>1. Fresh(h) \in Block /\ h[Fresh(h)].kind = "free"
      BY <2>1, AllocateSpec
    <3>2. ASSUME NEW d \in Block, d # Fresh(h)
          PROVE  /\ Allocate(h, kind, e)[d].kind = h[d].kind
                 /\ Allocate(h, kind, e)[d].elems = h[d].elems
      BY <2>1, <3>2, AllocateSpec
    <3>3. ASSUME NEW d \in Block, d # Fresh(h), Times(e, d) = 0
          PROVE  Allocate(h, kind, e)[d].m_refCount = h[d].m_refCount
      BY <2>1, <3>3, AllocateSpec
    <3> QED BY <1>3, <3>1, <3>2, <3>3
  <2>3. Fresh(h) # b
    BY <2>2
  <2> QED BY <2>1, <2>2, <2>3
<1> HIDE DEF A
<1>5. h[b].m_refCount \in Nat /\ h[b].m_refCount >= 2
  <2>1. h[b].m_refCount \in Nat /\ h[b].m_refCount # 0
    BY ShapeFacts DEF Sane
  <2> QED BY <2>1 DEF Shared
<1>6. A[b].m_refCount = h[b].m_refCount /\ A[b].kind = h[b].kind /\ A[b].elems = h[b].elems
  BY <1>3, <1>4 DEF A
<1>7. Own(h, b) = [A EXCEPT ![b].m_refCount = @ - 1]
  <2>1. Counted(b)
    BY DEF Shared, Counted
  <2>2. Own(h, b) = Release(A, b)
    BY <2>1 DEF Own, Drop, A
  <2>3. A[b].m_refCount # 1
    BY <1>5, <1>6
  <2> QED BY <2>2, <2>3 DEF Release
<1> QED
  BY <1>1, <1>4, <1>5, <1>6, <1>7 DEF A

(* A holder of b that is no element makes its block its own. *)
LEMMA OwnSpec ==
  ASSUME NEW h, Sane(h), NEW b \in Block, Outside(h, b) >= 1, FreeBlocks(h) # {}
  PROVE  LET t == Target(h, b)
             k == Own(h, b)
         IN  /\ t \in Block /\ Sane(k)
             /\ \A d \in Block : Outside(k, d) = Outside(h, d)
                  - (IF d = b THEN 1 ELSE 0) + (IF d = t THEN 1 ELSE 0)
             /\ k[t].kind = h[b].kind /\ k[t].elems = h[b].elems
             /\ t = b \/ h[t].kind = "free"
             /\ \A d \in Block \ {t} : k[d].kind = h[d].kind /\ k[d].elems = h[d].elems
             /\ k[t].m_refCount = 1 \/ IgnoreCoW(t)
<1> DEFINE t == Target(h, b)
           k == Own(h, b)
<1>0. h[b].kind # "free"
  BY InUse
<1>1. CASE Shared(h, b)
  <2> DEFINE A == Allocate(h, h[b].kind, h[b].elems)
  <2>1. /\ h[b].kind \in Kind /\ Fits(h, h[b].kind, h[b].elems)
        /\ t \in Block \ {b} /\ t = Fresh(h)
        /\ k = [A EXCEPT ![b].m_refCount = @ - 1]
        /\ A[b].m_refCount = h[b].m_refCount /\ h[b].m_refCount >= 2
    BY <1>0, <1>1, OwnShared DEF Target
  <2>2. /\ Sane(A) /\ h[t].kind = "free"
        /\ \A d \in Block : Outside(A, d) = Outside(h, d) + (IF d = t THEN 1 ELSE 0)
        /\ A[t].kind = h[b].kind /\ A[t].m_refCount = 1 /\ A[t].elems = h[b].elems
        /\ \A d \in Block \ {t} : A[d].kind = h[d].kind /\ A[d].elems = h[d].elems
    BY <2>1, AllocateSpec
  <2> HIDE DEF A, k, t
  <2>3. A[b] \in Matrix \cup Container
    BY <1>0, <2>1, <2>2, ShapeFacts DEF Sane
  <2>4. A \in [Block -> {FREE} \cup Matrix \cup Container] /\ h[b].m_refCount \in Nat
    BY <2>2, ShapeFacts DEF Sane, Shape
  <2>5. /\ k[b].kind = A[b].kind /\ k[b].elems = A[b].elems
        /\ k[b].m_refCount = A[b].m_refCount - 1
        /\ k[b] \in Matrix \cup Container
        /\ \A d \in Block \ {b} : k[d] = A[d]
    <3>1. k[b] = [A[b] EXCEPT !.m_refCount = @ - 1] /\ \A d \in Block \ {b} : k[d] = A[d]
      BY <2>1, <2>4
    <3>2. A[b].m_refCount - 1 \in Nat \ {0}
      BY <2>1, <2>4
    <3> QED BY <2>3, <3>1, <3>2 DEF Matrix, Container
  <2>6. Shape(k)
    BY <2>1, <2>4, <2>5 DEF Shape
  <2>7. \A d \in Block : /\ k[d].kind = A[d].kind /\ k[d].elems = A[d].elems
                         /\ k[d].m_refCount = A[d].m_refCount - (IF d = b THEN 1 ELSE 0)
    <3>1. \A d \in Block : A[d].m_refCount \in Nat
      BY <2>2, ShapeFacts DEF Sane
    <3> QED BY <2>5, <3>1
  <2>8. \A d \in Block : /\ Outside(A, d) + k[d].m_refCount - A[d].m_refCount
                              = Outside(A, d) - (IF d = b THEN 1 ELSE 0)
                         /\ Outside(A, d) \in Int /\ Outside(A, d) >= 0
    BY <2>2, <2>7, OutsideType, ShapeFacts DEF Sane, Solvent
  <2>9. Outside(A, b) >= 1 /\ \A d \in Block : Outside(h, d) \in Int
    BY <2>1, <2>2, OutsideType DEF Sane
  <2>10. \A d \in Block : Outside(A, d) + k[d].m_refCount - A[d].m_refCount >= 0
    BY <2>8, <2>9
  <2>11. Sane(k) /\ \A d \in Block : Outside(k, d) = Outside(A, d) - (IF d = b THEN 1 ELSE 0)
    BY <2>2, <2>6, <2>7, <2>8, <2>10, Recount
  <2>12. \A d \in Block : Outside(k, d) = Outside(h, d)
           - (IF d = b THEN 1 ELSE 0) + (IF d = t THEN 1 ELSE 0)
    BY <2>2, <2>8, <2>9, <2>11
  <2>13. k[t].kind = h[b].kind /\ k[t].elems = h[b].elems /\ k[t].m_refCount = 1
    BY <2>1, <2>2, <2>5
  <2>14. \A d \in Block \ {t} : k[d].kind = h[d].kind /\ k[d].elems = h[d].elems
    BY <2>2, <2>7
  <2> QED BY <2>1, <2>2, <2>11, <2>12, <2>13, <2>14 DEF k, t
<1>2. CASE ~Shared(h, b)
  <2>1. t = b /\ k = h
    BY <1>2 DEF Target, Own
  <2>2. \A d \in Block : Outside(h, d) \in Int
    BY OutsideType DEF Sane
  <2>3. k[t].m_refCount = 1 \/ IgnoreCoW(t)
    BY <1>2, <2>1 DEF Shared
  <2> QED BY <2>1, <2>2, <2>3
<1> QED
  BY <1>1, <1>2

-----------------------------------------------------------------------------
(* The inductive invariant. *)

LoopCount(b) ==
  (IF loop.x = b THEN 1 ELSE 0) + (IF loop.reads = b THEN NumThreads ELSE 0)

RefType == ref \in [Var -> Number \cup Block \cup {NOTHING}] /\ stray \subseteq Block

(* What no element accounts for, variables and the loop do; a failed loop left
   more. *)
Balanced ==
  \A b \in Block :
    /\ b \in stray => Outside(heap, b) >= Times(ref, b) + LoopCount(b)
    /\ b \notin stray => Outside(heap, b) = Times(ref, b) + LoopCount(b)

(* An ignored block has one count more than its variables: that of `sliced`. *)
Ignored ==
  /\ ignore_cow_pointers \subseteq Block
  /\ \A b \in ignore_cow_pointers : b \in stray \/ b = loop.x
  /\ \A b \in ignore_cow_pointers : Outside(heap, b) >= Times(ref, b) + 1

(* A variable holds what the loop slices, and one what its threads hold. *)
LoopHolds ==
  loop # NoLoop =>
    /\ loop.x \in ignore_cow_pointers
    /\ \E x \in Var : ref[x] = loop.x
    /\ heap[loop.x].kind \in {"matrix", "cells"}
    /\ \/ loop.reads \in Number
       \/ /\ loop.reads \in Block /\ heap[loop.reads].kind = "matrix"
          /\ heap[loop.x].kind = "cells" /\ ~IgnoreCoW(loop.reads)
          /\ \E y \in Var : ref[y] = loop.reads

VInv == Sane(heap) /\ RefType /\ Balanced /\ Ignored /\ LoopHolds

LEMMA LoopCountType == ASSUME NEW b PROVE LoopCount(b) \in Nat
BY ValuesAssumption DEF LoopCount

LEMMA RefFacts ==
  ASSUME RefType
  PROVE  /\ Number \cap Block = {} /\ NOTHING \notin Number \cup Block
         /\ DOMAIN ref = Var /\ IsFiniteSet(Var)
         /\ \A d : Times(ref, d) \in Nat
         /\ \A x \in Var : ref[x] \in Number \cup Block \cup {NOTHING} /\ Times(ref, ref[x]) >= 1
<1>1. Number \cap Block = {} /\ NOTHING \notin Number \cup Block /\ IsFiniteSet(Var)
  BY ValuesAssumption DEF Block
<1>2. DOMAIN ref = Var /\ \A x \in Var : ref[x] \in Number \cup Block \cup {NOTHING}
  BY DEF RefType
<1>3. \A d : Times(ref, d) \in Nat
  BY <1>1, <1>2, TimesType
<1>4. \A x \in Var : Times(ref, ref[x]) >= 1
  BY <1>1, <1>2, TimesSome
<1> QED
  BY <1>1, <1>2, <1>3, <1>4

(* A block that a variable holds is in use. *)
LEMMA VarHolds ==
  ASSUME VInv
  PROVE  /\ \A d \in Block : Outside(heap, d) \in Int /\ Outside(heap, d) >= Times(ref, d) + LoopCount(d)
         /\ \A x \in Var : ref[x] \in Block => Outside(heap, ref[x]) >= 1 /\ heap[ref[x]].kind # "free"
<1>1. Sane(heap) /\ RefType /\ Balanced
  BY DEF VInv
<1>2. \A d \in Block : Outside(heap, d) \in Int /\ Times(ref, d) \in Nat /\ LoopCount(d) \in Nat
  BY <1>1, OutsideType, RefFacts, LoopCountType DEF Sane
<1>3. \A d \in Block : Outside(heap, d) >= Times(ref, d) + LoopCount(d)
  BY <1>1, <1>2 DEF Balanced
<1>4. ASSUME NEW x \in Var, ref[x] \in Block
      PROVE  Outside(heap, ref[x]) >= 1 /\ heap[ref[x]].kind # "free"
  <2>1. PICK o : o = ref[x]
    OBVIOUS
  <2>2. Outside(heap, o) >= 1
    <3>1. Times(ref, o) >= 1 /\ o \in Block
      BY <1>1, <1>4, <2>1, RefFacts
    <3> QED BY <1>2, <1>3, <3>1
  <2> QED BY <1>1, <1>4, <2>1, <2>2, InUse
<1> QED
  BY <1>2, <1>3, <1>4

(* Without a loop, what is ignored was left by one that failed. *)
LEMMA NoLoopFacts ==
  ASSUME VInv, loop = NoLoop
  PROVE  /\ \A b \in Block : LoopCount(b) = 0
         /\ ignore_cow_pointers \subseteq stray /\ stray \subseteq Block
         /\ \A b \in Block : b \in stray => Outside(heap, b) >= Times(ref, b)
         /\ \A b \in Block : b \notin stray => Outside(heap, b) = Times(ref, b)
<1>1. RefType /\ Balanced /\ Ignored
  BY DEF VInv
<1>2. loop.x = NOTHING /\ loop.reads = NOTHING /\ NOTHING \notin Block
  BY <1>1, RefFacts DEF NoLoop
<1>3. \A b \in Block : LoopCount(b) = 0
  BY <1>2 DEF LoopCount
<1>4. \A b \in Block : Times(ref, b) + 0 = Times(ref, b)
  BY <1>1, RefFacts
<1> QED
  BY <1>1, <1>2, <1>3, <1>4 DEF Balanced, Ignored, RefType

(* A statement leaves the heap k and the variables r, and each block with the
   holders it counts. *)
LEMMA Settle ==
  ASSUME VInv, Unlooped, NEW k, Sane(k), heap' = k,
         NEW r \in [Var -> Number \cup Block \cup {NOTHING}], ref' = r,
         \A d \in Block : Outside(k, d) - Times(r, d) >= Outside(heap, d) - Times(ref, d),
         \A d \in Block : ~IgnoreCoW(d) =>
           Outside(k, d) - Times(r, d) = Outside(heap, d) - Times(ref, d)
  PROVE  VInv'
<1>1. loop = NoLoop /\ UNCHANGED <<ignore_cow_pointers, loop, stray>>
  BY DEF Unlooped
<1>2. RefType /\ Ignored /\ RefType'
  BY <1>1 DEF VInv, RefType
<1>3. \A d \in Block : /\ Outside(k, d) \in Int /\ Outside(heap, d) \in Int
                       /\ Times(ref, d) \in Nat /\ Times(r, d) \in Nat
  <2>1. DOMAIN r = Var /\ IsFiniteSet(Var)
    BY ValuesAssumption
  <2>2. \A d \in Block : Times(r, d) \in Nat
    BY <2>1, TimesType
  <2> QED BY <1>2, <2>2, OutsideType, RefFacts, VarHolds DEF Sane
<1>4. /\ \A d \in Block : d \in stray => Outside(k, d) >= Times(r, d)
      /\ \A d \in Block : d \notin stray => Outside(k, d) = Times(r, d)
      /\ \A d \in Block : d \in ignore_cow_pointers => Outside(k, d) >= Times(r, d) + 1
  <2>1. \A d \in Block : d \in stray => Outside(k, d) >= Times(r, d)
    BY <1>1, <1>3, NoLoopFacts
  <2>2. \A d \in Block : d \notin stray => Outside(k, d) = Times(r, d)
    BY <1>1, <1>3, NoLoopFacts DEF IgnoreCoW
  <2>3. \A d \in Block : d \in ignore_cow_pointers => Outside(k, d) >= Times(r, d) + 1
    BY <1>2, <1>3 DEF Ignored
  <2> QED BY <2>1, <2>2, <2>3
<1>5. Sane(heap)'
  BY <1>1 DEF Sane, Shape, Linked, Solvent, IgnoreCoW
<1>6. \A b \in Block : LoopCount(b) = 0 /\ LoopCount(b)' = 0 /\ Times(r, b) + 0 = Times(r, b)
  BY <1>1, <1>3, NoLoopFacts DEF LoopCount
<1>7. Balanced'
  BY <1>1, <1>4, <1>6 DEF Balanced
<1>8. Ignored'
  BY <1>1, <1>2, <1>4 DEF Ignored
<1>9. LoopHolds'
  BY <1>1 DEF LoopHolds, NoLoop
<1> QED
  BY <1>2, <1>5, <1>7, <1>8, <1>9 DEF VInv

-----------------------------------------------------------------------------
(* The statements.  x takes v, which h counts already; then what x held goes. *)

(* What x held was counted, so that it may go. *)
LEMMA Rebind ==
  ASSUME VInv, Unlooped, NEW x \in Var, NEW v \in Number \cup Block \cup {NOTHING},
         v \in Block => ~IgnoreCoW(v),
         NEW h, Sane(h),
         \A d \in Block : Outside(h, d) = Outside(heap, d) + (IF d = v THEN 1 ELSE 0),
         heap' = Drop(h, ref[x]), ref' = [ref EXCEPT ![x] = v]
  PROVE  VInv'
<1>1. PICK o, r, k : o = ref[x] /\ r = [ref EXCEPT ![x] = v] /\ k = Drop(h, o)
  OBVIOUS
<1>2. RefType /\ o \in Number \cup Block \cup {NOTHING} /\ (o \in Block => Outside(heap, o) >= 1)
  BY <1>1, RefFacts, VarHolds DEF VInv
<1>3. r \in [Var -> Number \cup Block \cup {NOTHING}]
  BY <1>1, <1>2 DEF RefType
<1>4. \A d \in Block : /\ Outside(heap, d) \in Int /\ Outside(h, d) \in Int
                       /\ Times(ref, d) \in Nat
  BY <1>2, OutsideType, RefFacts, VarHolds DEF Sane
<1>5. Counted(o) => o \in Block /\ Outside(h, o) >= 1
  <2>1. o \in Block => Outside(h, o) >= 1
    BY <1>2, <1>4
  <2> QED BY <2>1 DEF Counted
<1>6. /\ Sane(k)
      /\ \A d \in Block : Outside(k, d) = Outside(h, d) - (IF d = o /\ Counted(o) THEN 1 ELSE 0)
  BY <1>1, <1>5, DropSpec
<1>7. \A d \in Block : Times(r, d)
        = Times(ref, d) - (IF o = d THEN 1 ELSE 0) + (IF v = d THEN 1 ELSE 0)
  <2>1. x \in DOMAIN ref /\ IsFiniteSet(DOMAIN ref)
    BY <1>2, RefFacts
  <2>2. PICK e : e = ref
    OBVIOUS
  <2>3. \A d : Times([e EXCEPT ![x] = v], d)
          = Times(e, d) - (IF e[x] = d THEN 1 ELSE 0) + (IF v = d THEN 1 ELSE 0)
    <3>1. x \in DOMAIN e /\ IsFiniteSet(DOMAIN e)
      BY <2>1, <2>2
    <3> QED BY <3>1, TimesChange
  <2> QED BY <1>1, <2>2, <2>3
<1>8. \A d \in Block : Outside(k, d) - Times(r, d) >= Outside(heap, d) - Times(ref, d)
  BY <1>4, <1>6, <1>7
<1>9. \A d \in Block : ~IgnoreCoW(d) =>
         Outside(k, d) - Times(r, d) = Outside(heap, d) - Times(ref, d)
  <2> TAKE d \in Block
  <2>1. HAVE ~IgnoreCoW(d)
  <2>2. d = o => Counted(o)
    BY <2>1 DEF Counted
  <2> QED BY <1>4, <1>6, <1>7, <2>2
<1>10. heap' = k /\ ref' = r
  BY <1>1
<1> QED
  BY <1>3, <1>6, <1>8, <1>9, <1>10, Settle

LEMMA AssignKeeps ==
  ASSUME VInv, Unlooped, NEW x \in Var, NEW v \in Number \cup Block \cup {NOTHING},
         v \in Block => ~IgnoreCoW(v) /\ heap[v].kind # "free",
         Assign(x, v)
  PROVE  VInv'
<1>1. PICK h : h = Incr(heap, v)
  OBVIOUS
<1>2. Sane(heap) /\ (Counted(v) <=> v \in Block)
  BY DEF VInv, Counted
<1>3. /\ Sane(h)
      /\ \A d \in Block : Outside(h, d) = Outside(heap, d) + (IF d = v THEN 1 ELSE 0)
  BY <1>1, <1>2, IncrSpec
<1>4. heap' = Drop(h, ref[x]) /\ ref' = [ref EXCEPT ![x] = v]
  BY <1>1 DEF Assign
<1> QED
  BY <1>3, <1>4, Rebind

LEMMA RoomIsFree ==
  ASSUME NEW n \in Nat \ {0}, Room(n)
  PROVE  FreeBlocks(heap) # {}
<1>1. FreeBlocks(heap) = {} => Cardinality(FreeBlocks(heap)) = 0
  BY FS_EmptySet
<1> QED
  BY <1>1 DEF Room

LEMMA CreateKeeps ==
  ASSUME VInv, NEW x \in Var, NEW kind \in Kind, NEW n \in Number, Create(x, kind, n)
  PROVE  VInv'
<1>1. PICK e, h, t : e = [i \in Index(kind) |-> n] /\ h = Allocate(heap, kind, e) /\ t = Fresh(heap)
  OBVIOUS
<1>2. Sane(heap) /\ FreeBlocks(heap) # {} /\ Unlooped
  BY RoomIsFree DEF VInv, Create
<1>3. Fits(heap, kind, e)
  BY <1>1, ValuesAssumption DEF Fits, Block
<1>4. /\ Sane(h) /\ t \in Block /\ ~IgnoreCoW(t)
      /\ \A d \in Block : Outside(h, d) = Outside(heap, d) + (IF d = t THEN 1 ELSE 0)
  BY <1>1, <1>2, <1>3, AllocateSpec
<1>5. heap' = Drop(h, ref[x]) /\ ref' = [ref EXCEPT ![x] = t]
  BY <1>1 DEF Create
<1> QED
  BY <1>2, <1>4, <1>5, Rebind

LEMMA CopyKeeps ==
  ASSUME Careful, VInv, NEW x \in Var, NEW y \in Var, Copy(x, y)
  PROVE  VInv'
<1>1. RefType /\ Unlooped /\ Assign(x, ref[y]) /\ ~IgnoreCoW(ref[y])
  BY DEF VInv, Copy, Sound
<1> QED
  BY <1>1, RefFacts, VarHolds, AssignKeeps

LEMMA TakeKeeps ==
  ASSUME VInv, NEW x \in Var, NEW y \in Var, NEW i \in Slot, Take(x, y, i)
  PROVE  VInv'
<1>1. PICK b, v : b = ref[y] /\ v = heap[b].elems[i]
  OBVIOUS
<1>2. Unlooped /\ Assign(x, v) /\ b \in Block /\ heap[b].kind \in {"cells", "struct"}
  BY <1>1 DEF Take, IsContainer, Is
<1>3. Sane(heap) /\ Shape(heap) /\ Linked(heap)
  BY DEF VInv, Sane
<1>4. heap[b] \in Container
  BY <1>2, <1>3, ShapeFacts
<1>5. v \in Number \cup Block /\ (v \in Block => heap[v].kind = "matrix" /\ ~IgnoreCoW(v))
  BY <1>1, <1>2, <1>3, <1>4 DEF Container, Linked
<1> QED
  BY <1>2, <1>5, AssignKeeps

(* x moves from the block b to the block t, or stays. *)
LEMMA Move ==
  ASSUME VInv, Unlooped, NEW x \in Var, NEW b \in Block, ref[x] = b, NEW t \in Block,
         NEW k, Sane(k),
         \A d \in Block : Outside(k, d) = Outside(heap, d)
           - (IF d = b THEN 1 ELSE 0) + (IF d = t THEN 1 ELSE 0),
         heap' = k, ref' = [ref EXCEPT ![x] = t]
  PROVE  VInv'
<1>1. PICK e, r : e = ref /\ r = [e EXCEPT ![x] = t]
  OBVIOUS
<1>2. RefType /\ x \in DOMAIN e /\ IsFiniteSet(DOMAIN e) /\ e[x] = b /\ ref' = r
  BY <1>1, RefFacts DEF VInv
<1>3. \A d : Times([e EXCEPT ![x] = t], d)
        = Times(e, d) - (IF e[x] = d THEN 1 ELSE 0) + (IF t = d THEN 1 ELSE 0)
  BY <1>2, TimesChange
<1>4. r \in [Var -> Number \cup Block \cup {NOTHING}]
  BY <1>1, <1>2 DEF RefType
<1>5. \A d \in Block : Outside(heap, d) \in Int /\ Times(ref, d) \in Nat
  BY <1>2, RefFacts, VarHolds
<1>6. \A d \in Block : Times(r, d)
        = Times(ref, d) - (IF b = d THEN 1 ELSE 0) + (IF t = d THEN 1 ELSE 0)
  BY <1>1, <1>2, <1>3
<1>7. \A d \in Block : Outside(k, d) - Times(r, d) = Outside(heap, d) - Times(ref, d)
  BY <1>5, <1>6
<1>8. \A d \in Block : Outside(k, d) - Times(r, d) >= Outside(heap, d) - Times(ref, d)
  BY <1>5, <1>7
<1> QED
  BY <1>2, <1>4, <1>7, <1>8, Settle

(* What is the same in every write: x moves from b to the block its write goes to. *)
Moves(x, b, t) ==
  /\ b = ref[x] /\ b \in Block /\ t = Target(heap, b) /\ t \in Block /\ FreeBlocks(heap) # {}
  /\ Unlooped /\ ref' = [ref EXCEPT ![x] = t] /\ Sane(heap')
  /\ \A d \in Block : Outside(heap', d) = Outside(heap, d)
       - (IF d = b THEN 1 ELSE 0) + (IF d = t THEN 1 ELSE 0)

LEMMA MovesKeep ==
  ASSUME VInv, NEW x \in Var, NEW b, NEW t, Moves(x, b, t)
  PROVE  VInv'
<1>1. PICK k : k = heap'
  OBVIOUS
<1>2. /\ Unlooped /\ b \in Block /\ ref[x] = b /\ t \in Block /\ Sane(k)
      /\ \A d \in Block : Outside(k, d) = Outside(heap, d)
           - (IF d = b THEN 1 ELSE 0) + (IF d = t THEN 1 ELSE 0)
      /\ heap' = k /\ ref' = [ref EXCEPT ![x] = t]
  BY <1>1 DEF Moves
<1> QED BY <1>2, Move

(* x(i) = n, in the block t, which is b or its copy. *)
WritesElement(x, b, t, i, n) ==
  /\ Moves(x, b, t) /\ heap[b].kind = "matrix" /\ heap'[t].kind = "matrix"
  /\ heap'[t].elems = [heap[b].elems EXCEPT ![i] = n] /\ Alters(heap, heap', {t})

LEMMA AssignElementWrites ==
  ASSUME VInv, NEW x \in Var, NEW i \in Item, NEW n \in Number, AssignElement(x, i, n)
  PROVE  \E b, t : WritesElement(x, b, t, i, n)
<1>1. PICK b, t, h, k : /\ b = ref[x] /\ t = Target(heap, b) /\ h = Own(heap, b)
                        /\ k = [h EXCEPT ![t].elems[i] = n]
  OBVIOUS
<1>2. /\ b \in Block /\ heap[b].kind = "matrix" /\ FreeBlocks(heap) # {} /\ Unlooped
      /\ ref[x] = b /\ heap' = k /\ ref' = [ref EXCEPT ![x] = t] /\ IsPut(k, h, t, i, n)
  BY <1>1, RoomIsFree DEF AssignElement, Is, IsPut
<1>3. Sane(heap) /\ Outside(heap, b) >= 1
  BY <1>1, <1>2, VarHolds DEF VInv
<1>4. /\ t \in Block /\ Sane(h)
      /\ \A d \in Block : Outside(h, d) = Outside(heap, d)
           - (IF d = b THEN 1 ELSE 0) + (IF d = t THEN 1 ELSE 0)
      /\ h[t].kind = heap[b].kind /\ h[t].elems = heap[b].elems
      /\ \A d \in Block \ {t} : h[d].kind = heap[d].kind /\ h[d].elems = heap[d].elems
  BY <1>1, <1>2, <1>3, OwnSpec
<1>5. i \in DOMAIN h[t].elems /\ h[t].elems[i] \in Number /\ Number \cap Block = {}
  <2>1. heap[b] \in Matrix
    BY <1>2, <1>3, ShapeFacts DEF Sane
  <2> QED BY <1>4, <2>1, ValuesAssumption DEF Matrix, Block
<1>6. /\ Sane(k)
      /\ \A d \in Block : Outside(k, d) = Outside(h, d)
           + (IF h[t].elems[i] = d THEN 1 ELSE 0) - (IF n = d THEN 1 ELSE 0)
      /\ \A d \in Block : k[d].kind = h[d].kind
      /\ \A d \in Block \ {t} : k[d] = h[d]
      /\ k[t].elems = [h[t].elems EXCEPT ![i] = n]
  <2>1. \/ n \in Number
        \/ /\ n \in Block /\ h[n].kind = "matrix" /\ ~IgnoreCoW(n)
           /\ Outside(h, n) >= 1 /\ h[t].kind # "matrix"
    OBVIOUS
  <2>2. Sane(h) /\ t \in Block /\ i \in DOMAIN h[t].elems /\ IsPut(k, h, t, i, n)
    BY <1>2, <1>4, <1>5
  <2> QED BY <2>1, <2>2, PutSpec
<1>7. \A d \in Block : Outside(h, d) \in Int /\ h[t].elems[i] # d /\ n # d
  BY <1>4, <1>5, OutsideType DEF Sane
<1>8. \A d \in Block : Outside(k, d) = Outside(h, d)
  BY <1>6, <1>7
<1>9. \A d \in Block : Outside(k, d) = Outside(heap, d)
        - (IF d = b THEN 1 ELSE 0) + (IF d = t THEN 1 ELSE 0)
  BY <1>4, <1>8
<1>10. k[t].kind = "matrix" /\ k[t].elems = [heap[b].elems EXCEPT ![i] = n] /\ Sane(k)
  BY <1>2, <1>4, <1>6
<1>11. Alters(heap, k, {t})
  BY <1>4, <1>6 DEF Alters
<1>12. Moves(x, b, t)
  BY <1>1, <1>2, <1>4, <1>9, <1>10 DEF Moves
<1> QED
  BY <1>2, <1>10, <1>11, <1>12 DEF WritesElement

LEMMA AssignElementKeeps ==
  ASSUME VInv, NEW x \in Var, NEW i \in Item, NEW n \in Number, AssignElement(x, i, n)
  PROVE  VInv'
<1>1. PICK b, t : WritesElement(x, b, t, i, n)
  BY AssignElementWrites
<1> QED BY <1>1, MovesKeep DEF WritesElement


(* x{i} = v, the same. *)
WritesCell(x, b, t, i, v) ==
  /\ Moves(x, b, t) /\ heap[b].kind \in {"cells", "struct"}
  /\ v \in Number \/ (v \in Block /\ heap[v].kind = "matrix" /\ ~IgnoreCoW(v))
  /\ heap'[t].kind = heap[b].kind /\ heap'[t].elems = [heap[b].elems EXCEPT ![i] = v]
  /\ Alters(heap, heap', {t})

LEMMA AssignCellWrites ==
  ASSUME Careful, VInv, NEW x \in Var, NEW i \in Slot, NEW v, AssignCell(x, i, v)
  PROVE  \E b, t : WritesCell(x, b, t, i, v)
<1>1. PICK b, t, h, k : /\ b = ref[x] /\ t = Target(heap, b) /\ h = Own(heap, b)
                        /\ k = Store(h, t, i, v)
  OBVIOUS
<1>2. /\ b \in Block /\ heap[b].kind \in {"cells", "struct"} /\ FreeBlocks(heap) # {} /\ Unlooped
      /\ ref[x] = b /\ heap' = k /\ ref' = [ref EXCEPT ![x] = t]
      /\ v \in Number \/ (v \in Block /\ heap[v].kind = "matrix" /\ ~IgnoreCoW(v))
  BY <1>1, RoomIsFree DEF AssignCell, IsContainer, Is, Sound
<1>3. Sane(heap) /\ Outside(heap, b) >= 1 /\ \A d \in Block : Outside(heap, d) \in Int /\ Outside(heap, d) >= 0
  BY <1>1, <1>2, VarHolds, OutsideType DEF VInv, Sane, Solvent
<1>4. /\ t \in Block /\ Sane(h)
      /\ \A d \in Block : Outside(h, d) = Outside(heap, d)
           - (IF d = b THEN 1 ELSE 0) + (IF d = t THEN 1 ELSE 0)
      /\ h[t].kind = heap[b].kind /\ h[t].elems = heap[b].elems
      /\ t = b \/ heap[t].kind = "free"
      /\ \A d \in Block \ {t} : h[d].kind = heap[d].kind /\ h[d].elems = heap[d].elems
  BY <1>1, <1>2, <1>3, OwnSpec
<1>5. i \in DOMAIN h[t].elems
  <2>1. heap[b] \in Container
    BY <1>2, <1>3, ShapeFacts DEF Sane
  <2> QED BY <1>4, <2>1 DEF Container
<1>6. Outside(h, t) >= 1
  BY <1>3, <1>4
<1>7. \/ v \in Number
      \/ v \in Block /\ h[v].kind = "matrix" /\ ~IgnoreCoW(v) /\ h[t].kind # "matrix"
  BY <1>2, <1>4
<1>8. /\ Sane(k)
      /\ \A d \in Block : Outside(k, d) = Outside(h, d)
      /\ \A d \in Block \ {t} : \/ k[d].kind = "free"
                                \/ k[d].kind = h[d].kind /\ k[d].elems = h[d].elems
      /\ k[t].kind = h[t].kind /\ k[t].elems = [h[t].elems EXCEPT ![i] = v]
  BY <1>1, <1>4, <1>5, <1>6, <1>7, StoreSpec
<1>9. \A d \in Block : Outside(k, d) = Outside(heap, d)
        - (IF d = b THEN 1 ELSE 0) + (IF d = t THEN 1 ELSE 0)
  BY <1>4, <1>8
<1>10. Alters(heap, k, {t})
  BY <1>4, <1>8 DEF Alters
<1>11. k[t].kind = heap[b].kind /\ k[t].elems = [heap[b].elems EXCEPT ![i] = v] /\ Sane(k)
  BY <1>4, <1>8
<1>12. Moves(x, b, t)
  BY <1>1, <1>2, <1>4, <1>9, <1>11 DEF Moves
<1> QED
  BY <1>2, <1>10, <1>11, <1>12 DEF WritesCell

LEMMA AssignCellKeeps ==
  ASSUME Careful, VInv, NEW x \in Var, NEW i \in Slot, NEW v, AssignCell(x, i, v)
  PROVE  VInv'
<1>1. PICK b, t : WritesCell(x, b, t, i, v)
  BY AssignCellWrites
<1> QED BY <1>1, MovesKeep DEF WritesCell

(* The matrix in an element is made the container's own and gets a number. *)
IsPutInner(k, h, t, i, m, j, n) ==
  k = [Own(h, m) EXCEPT ![t].elems[i] = Target(h, m), ![Target(h, m)].elems[j] = n]

IsCopy(k, h, t, i, m, u) == k = [Own(h, m) EXCEPT ![t].elems[i] = u]

(* The matrix is copied, the container has become x's own. *)
LEMMA InnerCopy ==
  ASSUME NEW h, Sane(h), FreeBlocks(h) # {}, NEW t \in Block, h[t].kind \in {"cells", "struct"},
         NEW i \in Slot, NEW m \in Block, h[t].elems[i] = m, Shared(h, m)
  PROVE  /\ Target(h, m) \in Block /\ h[m] \in Matrix
         /\ \E k : /\ Sane(k) /\ \A d \in Block : Outside(k, d) = Outside(h, d)
                  /\ k[Target(h, m)].kind = "matrix" /\ k[Target(h, m)].elems = h[m].elems
                  /\ k[t].kind = h[t].kind /\ k[t].elems = [h[t].elems EXCEPT ![i] = Target(h, m)]
                  /\ Alters(h, k, {t, Target(h, m)})
                  /\ IsCopy(k, h, t, i, m, Target(h, m))
<1>1. Shape(h) /\ Linked(h) /\ h[t] \in Container /\ i \in DOMAIN h[t].elems
  <2>1. Shape(h) /\ Linked(h) /\ h[t] \in Container
    BY ShapeFacts DEF Sane
  <2> QED BY <2>1 DEF Container
<1>2. h[m].kind = "matrix" /\ m # t /\ h[m] \in Matrix
  BY <1>1, ShapeFacts DEF Linked
<1>3. PICK kind, e, A, u : /\ kind = h[m].kind /\ e = h[m].elems /\ A = Allocate(h, kind, e)
                           /\ u = Fresh(h)
  OBVIOUS
<1>4. /\ kind \in Kind /\ Fits(h, kind, e) /\ u \in Block \ {m}
      /\ Own(h, m) = [A EXCEPT ![m].m_refCount = @ - 1] /\ Target(h, m) = u
      /\ A[m].m_refCount = h[m].m_refCount /\ h[m].m_refCount >= 2
  BY <1>2, <1>3, OwnShared DEF Target
<1>5. /\ Sane(A) /\ h[u].kind = "free" /\ ~IgnoreCoW(u)
      /\ \A d \in Block : Outside(A, d) = Outside(h, d) + (IF d = u THEN 1 ELSE 0)
      /\ A[u].kind = "matrix" /\ A[u].elems = h[m].elems
      /\ \A d \in Block : d # u => A[d].kind = h[d].kind /\ A[d].elems = h[d].elems
  BY <1>2, <1>3, <1>4, AllocateSpec
<1>6. t # u /\ i \in DOMAIN A[t].elems /\ A[t].elems[i] = m /\ A[t].kind # "matrix"
  BY <1>1, <1>2, <1>5
<1>7. \A d \in Block : Outside(h, d) \in Int /\ Outside(h, d) >= 0
  BY <1>1, OutsideType DEF Sane, Solvent
<1>8. Outside(A, u) >= 1
  BY <1>4, <1>5, <1>7
<1>9. PICK k1 : k1 = [A EXCEPT ![t].elems[i] = u]
  OBVIOUS
<1>10. /\ Sane(k1)
       /\ \A d \in Block : Outside(k1, d) = Outside(A, d)
            + (IF A[t].elems[i] = d THEN 1 ELSE 0) - (IF u = d THEN 1 ELSE 0)
       /\ \A d \in Block : k1[d].kind = A[d].kind /\ k1[d].m_refCount = A[d].m_refCount
       /\ \A d \in Block \ {t} : k1[d] = A[d]
       /\ k1[t].elems = [A[t].elems EXCEPT ![i] = u]
  <2>1. IsPut(k1, A, t, i, u)
    BY <1>9 DEF IsPut
  <2>2. \/ u \in Number
        \/ /\ u \in Block /\ A[u].kind = "matrix" /\ ~IgnoreCoW(u)
           /\ Outside(A, u) >= 1 /\ A[t].kind # "matrix"
    BY <1>4, <1>5, <1>6, <1>8
  <2>3. Sane(A) /\ i \in DOMAIN A[t].elems
    BY <1>5, <1>6
  <2> QED BY <2>1, <2>2, <2>3, PutSpec
<1>11. \A d \in Block : Outside(k1, d) = Outside(h, d) + (IF m = d THEN 1 ELSE 0)
  BY <1>5, <1>6, <1>7, <1>10
<1>12. PICK k2 : k2 = [k1 EXCEPT ![m].m_refCount = @ - 1]
  OBVIOUS
<1>13. /\ k1 \in [Block -> {FREE} \cup Matrix \cup Container]
       /\ k1[m] \in Matrix /\ k1[m].m_refCount = h[m].m_refCount
  <2>1. Shape(k1) /\ k1[m].kind = "matrix"
    BY <1>2, <1>4, <1>5, <1>10 DEF Sane
  <2> QED BY <1>4, <1>10, <2>1, ShapeFacts DEF Shape
<1>14. /\ Shape(k2)
       /\ \A d \in Block : /\ k2[d].kind = k1[d].kind /\ k2[d].elems = k1[d].elems
                           /\ k2[d].m_refCount = k1[d].m_refCount - (IF d = m THEN 1 ELSE 0)
       /\ \A d \in Block \ {m} : k2[d] = k1[d]
  <2>1. k2[m] = [k1[m] EXCEPT !.m_refCount = @ - 1] /\ \A d \in Block \ {m} : k2[d] = k1[d]
    BY <1>12, <1>13
  <2>2. k1[m].m_refCount - 1 \in Nat \ {0}
    BY <1>4, <1>13 DEF Matrix
  <2>3. /\ k2[m] \in Matrix /\ k2[m].kind = k1[m].kind /\ k2[m].elems = k1[m].elems
        /\ k2[m].m_refCount = k1[m].m_refCount - 1
    BY <1>13, <2>1, <2>2 DEF Matrix
  <2>4. Shape(k2)
    BY <1>12, <1>13, <2>1, <2>3 DEF Shape
  <2>5. \A d \in Block : k1[d].m_refCount - 0 = k1[d].m_refCount
    BY <1>10, ShapeFacts DEF Sane
  <2>6. ASSUME NEW d \in Block
        PROVE  /\ k2[d].kind = k1[d].kind /\ k2[d].elems = k1[d].elems
               /\ k2[d].m_refCount = k1[d].m_refCount - (IF d = m THEN 1 ELSE 0)
    <3>1. CASE d = m
      BY <2>3, <3>1
    <3>2. CASE d # m
      <4>1. k2[d] = k1[d]
        BY <2>1, <3>2
      <4> QED BY <2>5, <3>2, <4>1
    <3> QED BY <3>1, <3>2
  <2>7. \A d \in Block \ {m} : k2[d] = k1[d]
    BY <2>1
  <2> QED BY <2>4, <2>6, <2>7
<1>15. /\ Sane(k2) /\ \A d \in Block : Outside(k2, d) = Outside(h, d)
  <2>1. \A d \in Block : Outside(k1, d) \in Int /\ k1[d].m_refCount \in Nat
    BY <1>10, OutsideType, ShapeFacts DEF Sane
  <2>2. \A d \in Block : Outside(k1, d) + k2[d].m_refCount - k1[d].m_refCount = Outside(h, d)
    BY <1>7, <1>11, <1>14, <2>1
  <2>3. \A d \in Block : Outside(k1, d) + k2[d].m_refCount - k1[d].m_refCount >= 0
    BY <1>7, <2>2
  <2>4. Sane(k1) /\ \A d \in Block : k2[d].kind = k1[d].kind /\ k2[d].elems = k1[d].elems
    BY <1>10, <1>14
  <2> QED BY <1>14, <2>2, <2>3, <2>4, Recount
<1>16. /\ k2[u].kind = "matrix" /\ k2[u].elems = h[m].elems
       /\ k2[t].kind = h[t].kind /\ k2[t].elems = [h[t].elems EXCEPT ![i] = u]
  BY <1>4, <1>5, <1>6, <1>10, <1>14
<1>18. Alters(h, k2, {t, u})
  BY <1>5, <1>10, <1>14 DEF Alters
<1>17. IsCopy(k2, h, t, i, m, u)
  <2>1. A = [d \in Block |-> A[d]]
    BY <1>5 DEF Sane, Shape
  <2>2. k2 = [[A EXCEPT ![m].m_refCount = @ - 1] EXCEPT ![t].elems[i] = u]
    BY <1>2, <1>4, <1>9, <1>12, <2>1
  <2> QED BY <1>4, <2>2 DEF IsCopy
<1> QED
  BY <1>2, <1>4, <1>15, <1>16, <1>17, <1>18

(* k is h with n at j in the block u, which the element i of t holds in place of m. *)
InnerPut(h, k, t, i, m, u, j, n) ==
  /\ Sane(k) /\ \A d \in Block : Outside(k, d) = Outside(h, d)
  /\ u \in Block /\ k[u].kind = "matrix" /\ k[u].elems = [h[m].elems EXCEPT ![j] = n]
  /\ k[t].kind = h[t].kind /\ k[t].elems = [h[t].elems EXCEPT ![i] = u]
  /\ Alters(h, k, {t, u})

(* The matrix has other holders. *)
LEMMA InnerShared ==
  ASSUME NEW h, Sane(h), FreeBlocks(h) # {}, NEW t \in Block, h[t].kind \in {"cells", "struct"},
         NEW i \in Slot, NEW m \in Block, h[t].elems[i] = m, Shared(h, m),
         NEW j \in Item, NEW n \in Number, NEW k, IsPutInner(k, h, t, i, m, j, n)
  PROVE  InnerPut(h, k, t, i, m, Target(h, m), j, n)
<1>1. PICK u : u = Target(h, m)
  OBVIOUS
<1>2. PICK g : /\ u \in Block /\ h[m] \in Matrix
               /\ Sane(g) /\ \A d \in Block : Outside(g, d) = Outside(h, d)
               /\ g[u].kind = "matrix" /\ g[u].elems = h[m].elems
               /\ g[t].kind = h[t].kind /\ g[t].elems = [h[t].elems EXCEPT ![i] = u]
               /\ Alters(h, g, {t, u})
               /\ IsCopy(g, h, t, i, m, u)
  BY <1>1, InnerCopy
<1>3. IsPut(k, g, u, j, n)
  BY <1>1, <1>2 DEF IsPut, IsPutInner, IsCopy
<1>4. j \in DOMAIN g[u].elems /\ g[u].elems[j] \in Number
  BY <1>2 DEF Matrix
<1>5. /\ Sane(k)
      /\ \A d \in Block : Outside(k, d) = Outside(g, d)
           + (IF g[u].elems[j] = d THEN 1 ELSE 0) - (IF n = d THEN 1 ELSE 0)
      /\ \A d \in Block : k[d].kind = g[d].kind
      /\ \A d \in Block \ {u} : k[d] = g[d]
      /\ k[u].elems = [g[u].elems EXCEPT ![j] = n]
  <2>1. \/ n \in Number
        \/ /\ n \in Block /\ g[n].kind = "matrix" /\ ~IgnoreCoW(n)
           /\ Outside(g, n) >= 1 /\ g[u].kind # "matrix"
    OBVIOUS
  <2>2. Sane(g) /\ u \in Block /\ j \in DOMAIN g[u].elems
    BY <1>2, <1>4
  <2> QED BY <1>3, <2>1, <2>2, PutSpec
<1>6. \A d \in Block : Outside(k, d) = Outside(h, d)
  <2>1. \A d \in Block : g[u].elems[j] # d /\ n # d
    BY <1>4, ValuesAssumption DEF Block
  <2>2. \A d \in Block : Outside(h, d) \in Int
    BY OutsideType DEF Sane
  <2> QED BY <1>2, <1>5, <2>1, <2>2
<1>7. u # t
  <2>1. g[t].kind # g[u].kind
    BY <1>2
  <2> QED BY <2>1
<1>8. /\ k[u].kind = "matrix" /\ k[u].elems = [h[m].elems EXCEPT ![j] = n]
      /\ k[t].kind = h[t].kind /\ k[t].elems = [h[t].elems EXCEPT ![i] = u]
  BY <1>2, <1>5, <1>7
<1>9. Alters(h, k, {t, u})
  BY <1>2, <1>5 DEF Alters
<1> QED
  BY <1>1, <1>2, <1>5, <1>6, <1>8, <1>9 DEF InnerPut

(* The matrix is the element's own. *)
LEMMA InnerOwn ==
  ASSUME NEW h, Sane(h), NEW t \in Block, h[t].kind \in {"cells", "struct"},
         NEW i \in Slot, NEW m \in Block, h[t].elems[i] = m, ~Shared(h, m),
         NEW j \in Item, NEW n \in Number, NEW k, IsPutInner(k, h, t, i, m, j, n)
  PROVE  InnerPut(h, k, t, i, m, Target(h, m), j, n)
<1>1. Shape(h) /\ h[t] \in Container /\ i \in DOMAIN h[t].elems /\ h[m].kind = "matrix" /\ m # t
      /\ h[m] \in Matrix
  <2>1. Shape(h) /\ Linked(h) /\ h[t] \in Container
    BY ShapeFacts DEF Sane
  <2>2. i \in DOMAIN h[t].elems
    BY <2>1 DEF Container
  <2>3. h[m].kind = "matrix"
    BY <2>1, <2>2 DEF Linked
  <2> QED BY <2>1, <2>2, <2>3, ShapeFacts
<1>2. Target(h, m) = m /\ Own(h, m) = h
  BY DEF Target, Own
<1>3. [h EXCEPT ![t].elems[i] = m] = h
  BY <1>1 DEF Shape, Container
<1>4. IsPut(k, h, m, j, n)
  BY <1>2, <1>3 DEF IsPut, IsPutInner
<1>5. j \in DOMAIN h[m].elems /\ h[m].elems[j] \in Number
  BY <1>1 DEF Matrix
<1>6. /\ Sane(k)
      /\ \A d \in Block : Outside(k, d) = Outside(h, d)
           + (IF h[m].elems[j] = d THEN 1 ELSE 0) - (IF n = d THEN 1 ELSE 0)
      /\ \A d \in Block : k[d].kind = h[d].kind
      /\ \A d \in Block \ {m} : k[d] = h[d]
      /\ k[m].elems = [h[m].elems EXCEPT ![j] = n]
  <2>1. \/ n \in Number
        \/ /\ n \in Block /\ h[n].kind = "matrix" /\ ~IgnoreCoW(n)
           /\ Outside(h, n) >= 1 /\ h[m].kind # "matrix"
    OBVIOUS
  <2> QED BY <1>4, <1>5, <2>1, PutSpec
<1>7. \A d \in Block : Outside(k, d) = Outside(h, d)
  <2>1. \A d \in Block : h[m].elems[j] # d /\ n # d
    BY <1>5, ValuesAssumption DEF Block
  <2>2. \A d \in Block : Outside(h, d) \in Int
    BY OutsideType DEF Sane
  <2> QED BY <1>6, <2>1, <2>2
<1>8. k[t].kind = h[t].kind /\ k[t].elems = [h[t].elems EXCEPT ![i] = m]
  <2>1. [h[t].elems EXCEPT ![i] = m] = h[t].elems
    BY <1>1 DEF Container
  <2> QED BY <1>1, <1>6, <2>1
<1>9. Alters(h, k, {t, m})
  BY <1>6 DEF Alters
<1> QED
  BY <1>1, <1>2, <1>6, <1>7, <1>8, <1>9 DEF InnerPut

(* x{i}(j) = n: b becomes t, and the matrix m of t becomes u. *)
WritesInner(x, b, t, i, m, u, j, n) ==
  /\ Moves(x, b, t) /\ heap[b].kind \in {"cells", "struct"}
  /\ m = heap[b].elems[i] /\ m \in Block /\ u = Target(Own(heap, b), m)
  /\ FreeBlocks(Own(heap, b)) # {} /\ u \in Block
  /\ heap'[t].kind = heap[b].kind /\ heap'[t].elems = [heap[b].elems EXCEPT ![i] = u]
  /\ heap'[u].kind = "matrix" /\ heap'[u].elems = [heap[m].elems EXCEPT ![j] = n]
  /\ Alters(heap, heap', {t, u})

LEMMA AssignInnerWrites ==
  ASSUME VInv, NEW x \in Var, NEW i \in Slot, NEW j \in Item, NEW n \in Number,
         AssignInner(x, i, j, n)
  PROVE  \E b, t, m, u : WritesInner(x, b, t, i, m, u, j, n)
<1>1. PICK b, t, h, m, k : /\ b = ref[x] /\ t = Target(heap, b) /\ h = Own(heap, b)
                           /\ m = heap[b].elems[i] /\ k = heap'
  OBVIOUS
<1>2. /\ b \in Block /\ heap[b].kind \in {"cells", "struct"} /\ m \in Block /\ Room(2) /\ Unlooped
      /\ ref[x] = b
  BY <1>1 DEF AssignInner, IsContainer, Is
<1>3. Sane(heap) /\ Outside(heap, b) >= 1 /\ FreeBlocks(heap) # {}
  <2>1. FreeBlocks(heap) # {}
    BY <1>2, RoomIsFree
  <2> QED BY <1>2, <2>1, VarHolds DEF VInv
<1>4. /\ t \in Block /\ Sane(h)
      /\ \A d \in Block : Outside(h, d) = Outside(heap, d)
           - (IF d = b THEN 1 ELSE 0) + (IF d = t THEN 1 ELSE 0)
      /\ h[t].kind = heap[b].kind /\ h[t].elems = heap[b].elems
      /\ \A d \in Block \ {t} : h[d].kind = heap[d].kind /\ h[d].elems = heap[d].elems
  BY <1>1, <1>2, <1>3, OwnSpec
<1>5. FreeBlocks(h) # {}
  <2>1. FreeBlocks(heap) \ {t} # {}
    <3>1. FreeBlocks(heap) \in SUBSET {t} =>
            Cardinality(FreeBlocks(heap)) \in Nat /\ Cardinality(FreeBlocks(heap)) <= 1
      <4>1. IsFiniteSet({t}) /\ Cardinality({t}) = 1
        BY FS_Singleton
      <4>2. HAVE FreeBlocks(heap) \in SUBSET {t}
      <4>3. IsFiniteSet(FreeBlocks(heap)) /\ Cardinality(FreeBlocks(heap)) <= Cardinality({t})
        BY <4>1, <4>2, FS_Subset
      <4> QED BY <4>1, <4>3, FS_CardinalityType
    <3>2. ~(FreeBlocks(heap) \in SUBSET {t})
      BY <1>2, <3>1 DEF Room
    <3> QED BY <3>2
  <2>2. PICK f \in Block : f # t /\ heap[f] = FREE
    BY <2>1 DEF FreeBlocks
  <2>3. h[f].kind = "free"
    BY <1>4, <2>2 DEF FREE
  <2>4. h[f] = FREE
    BY <1>4, <2>3, ShapeFacts DEF Sane
  <2> QED BY <2>4 DEF FreeBlocks
<1>6. h[t].kind \in {"cells", "struct"} /\ h[t].elems[i] = m
  BY <1>1, <1>2, <1>4
<1>7. IsPutInner(k, h, t, i, m, j, n)
  BY <1>1 DEF AssignInner, IsPutInner
<1>8. PICK u : u = Target(h, m)
  OBVIOUS
<1>9. /\ Sane(k) /\ \A d \in Block : Outside(k, d) = Outside(h, d)
      /\ u \in Block /\ k[u].kind = "matrix" /\ k[u].elems = [h[m].elems EXCEPT ![j] = n]
      /\ k[t].kind = h[t].kind /\ k[t].elems = [h[t].elems EXCEPT ![i] = u]
      /\ Alters(h, k, {t, u})
  <2>1. /\ Sane(h) /\ FreeBlocks(h) # {} /\ t \in Block /\ h[t].kind \in {"cells", "struct"}
        /\ m \in Block /\ h[t].elems[i] = m
    BY <1>2, <1>4, <1>5, <1>6
  <2>2. Shared(h, m) => InnerPut(h, k, t, i, m, Target(h, m), j, n)
    BY <1>7, <2>1, InnerShared
  <2>3. ~Shared(h, m) => InnerPut(h, k, t, i, m, Target(h, m), j, n)
    BY <1>7, <2>1, InnerOwn
  <2>4. InnerPut(h, k, t, i, m, u, j, n)
    BY <1>8, <2>2, <2>3
  <2> QED BY <2>4 DEF InnerPut
<1>10. \A d \in Block : Outside(k, d) = Outside(heap, d)
        - (IF d = b THEN 1 ELSE 0) + (IF d = t THEN 1 ELSE 0)
  BY <1>4, <1>9
<1>11. ref' = [ref EXCEPT ![x] = t]
  BY <1>1 DEF AssignInner
<1>12. Alters(heap, k, {t, u})
  BY <1>4, <1>9 DEF Alters
<1>13. m # t
  <2>1. heap[m].kind = "matrix"
    BY <1>1 DEF AssignInner, Is
  <2>2. t = b \/ heap[t].kind = "free"
    BY <1>1, <1>2, <1>3, OwnSpec
  <2> QED BY <1>2, <2>1, <2>2
<1>14. k[u].elems = [heap[m].elems EXCEPT ![j] = n] /\ k[t].kind = heap[b].kind
       /\ k[t].elems = [heap[b].elems EXCEPT ![i] = u]
  BY <1>2, <1>4, <1>9, <1>13
<1>15. Moves(x, b, t)
  BY <1>1, <1>2, <1>3, <1>4, <1>9, <1>10, <1>11 DEF Moves
<1>16. WritesInner(x, b, t, i, m, u, j, n)
  BY <1>1, <1>2, <1>5, <1>8, <1>9, <1>12, <1>14, <1>15 DEF WritesInner
<1> QED
  BY <1>16

LEMMA AssignInnerKeeps ==
  ASSUME VInv, NEW x \in Var, NEW i \in Slot, NEW j \in Item, NEW n \in Number,
         AssignInner(x, i, j, n)
  PROVE  VInv'
<1>1. PICK b, t, m, u : WritesInner(x, b, t, i, m, u, j, n)
  BY AssignInnerWrites
<1> QED BY <1>1, MovesKeep DEF WritesInner

(* What e holds is counted. *)
LEMMA IncrAllSpec ==
  ASSUME NEW h, Sane(h), NEW kind \in Kind, NEW e, Fits(h, kind, e)
  PROVE  LET k == IncrAll(h, e) IN
         /\ Sane(k)
         /\ \A d \in Block : Outside(k, d) = Outside(h, d) + Times(e, d)
         /\ \A d \in Block : k[d].kind = h[d].kind /\ k[d].elems = h[d].elems
<1> DEFINE k == IncrAll(h, e)
<1>1. Shape(h) /\ Linked(h) /\ Solvent(h)
  BY DEF Sane
<1>2. /\ \A d \in Block : Times(e, d) \in Nat
      /\ \A d \in Block : Times(e, d) > 0 => Counted(d) /\ h[d].kind = "matrix"
  BY FitsFacts
<1>3. /\ k = [d \in Block |-> k[d]]
      /\ \A d \in Block : k[d] = IF Counted(d)
             THEN [h[d] EXCEPT !.m_refCount = @ + Times(e, d)] ELSE h[d]
  BY DEF IncrAll
<1> HIDE DEF k
<1>4. ASSUME NEW d \in Block
      PROVE  /\ k[d] \in {FREE} \cup Matrix \cup Container
             /\ k[d].kind = h[d].kind /\ k[d].elems = h[d].elems
             /\ k[d].m_refCount = h[d].m_refCount + Times(e, d)
  <2>1. CASE Times(e, d) > 0
    <3>1. h[d] \in Matrix
      BY <1>1, <1>2, <2>1, ShapeFacts
    <3>2. k[d] = [h[d] EXCEPT !.m_refCount = @ + Times(e, d)]
      BY <1>2, <1>3, <2>1
    <3> QED BY <1>2, <3>1, <3>2 DEF Matrix
  <2>2. CASE ~ (Times(e, d) > 0)
    <3>1. Times(e, d) = 0
      BY <1>2, <2>2
    <3>2. h[d].m_refCount \in Nat /\ h[d] \in {FREE} \cup Matrix \cup Container
      BY <1>1, ShapeFacts DEF Shape
    <3>3. k[d] = h[d]
      <4>1. h[d].m_refCount + Times(e, d) = h[d].m_refCount
        BY <3>1, <3>2
      <4>2. [h[d] EXCEPT !.m_refCount = h[d].m_refCount] = h[d]
        BY <3>2 DEF FREE, Matrix, Container
      <4> QED BY <1>3, <4>1, <4>2
    <3> QED BY <3>1, <3>2, <3>3
  <2> QED BY <2>1, <2>2
<1>5. Shape(k)
  BY <1>3, <1>4 DEF Shape
<1>6. \A d \in Block : /\ Outside(h, d) + k[d].m_refCount - h[d].m_refCount
                            = Outside(h, d) + Times(e, d)
                       /\ Outside(h, d) + Times(e, d) >= 0
  <2> TAKE d \in Block
  <2>1. Outside(h, d) \in Int /\ h[d].m_refCount \in Nat /\ Outside(h, d) >= 0 /\ Times(e, d) \in Nat
    BY <1>1, <1>2, OutsideType, ShapeFacts DEF Solvent
  <2> QED BY <1>4, <2>1
<1>7. /\ \A d \in Block : k[d].kind = h[d].kind /\ k[d].elems = h[d].elems
      /\ \A d \in Block : Outside(h, d) + k[d].m_refCount - h[d].m_refCount >= 0
  BY <1>4, <1>6
<1>8. Sane(k) /\ \A d \in Block : Outside(k, d) = Outside(h, d) + Times(e, d)
  BY <1>5, <1>6, <1>7, Recount
<1> QED
  BY <1>7, <1>8 DEF k

IsFilled(k, h, b, e) == k = [h EXCEPT ![b].elems = e]

(* A container holds e now, which is counted already. *)
LEMMA FillSpec ==
  ASSUME NEW h, Sane(h), NEW b \in Block, h[b].kind \in {"cells", "struct"},
         NEW e, Fits(h, "cells", e), \A d \in Block : Outside(h, d) >= Times(e, d),
         NEW k, IsFilled(k, h, b, e)
  PROVE  /\ Sane(k)
         /\ \A d \in Block : Outside(k, d) = Outside(h, d) + Times(h[b].elems, d) - Times(e, d)
         /\ \A d \in Block : k[d].kind = h[d].kind
         /\ \A d \in Block \ {b} : k[d] = h[d]
         /\ k[b].elems = e
<1>1. Shape(h) /\ Linked(h) /\ Solvent(h) /\ h[b] \in Container
  BY ShapeFacts DEF Sane
<1>2. /\ IsFiniteSet(DOMAIN e) /\ DOMAIN e = Slot /\ DOMAIN e \subseteq Slot \cup Item
      /\ \A d \in Block : Times(e, d) \in Nat
      /\ e \in [Slot -> Number \cup Block]
  <2>1. "cells" \in Kind /\ Index("cells") = Slot
    BY DEF Kind, Index
  <2> QED BY <2>1, FitsFacts DEF Fits
<1>3. /\ k = [d \in Block |-> k[d]]
      /\ k[b] = [h[b] EXCEPT !.elems = e]
      /\ \A d \in Block \ {b} : k[d] = h[d]
  BY <1>1 DEF Shape, IsFilled
<1>4. k[b] \in Container /\ k[b].kind = h[b].kind /\ k[b].m_refCount = h[b].m_refCount /\ k[b].elems = e
  BY <1>1, <1>2, <1>3 DEF Container
<1>5. Shape(k)
  BY <1>1, <1>3, <1>4 DEF Shape
<1>6. \A d \in Block : Cardinality(Elements(k, d))
        = Cardinality(Elements(h, d)) - Times(h[b].elems, d) + Times(e, d)
  <2> TAKE d \in Block
  <2>1. PICK o : o = h[b].elems
    OBVIOUS
  <2>2. DOMAIN o \subseteq Slot \cup Item /\ IsFiniteSet(DOMAIN o)
    BY <1>1, <2>1, ElemsFacts
  <2>3. \A c \in Block : c # b => k[c].elems = h[c].elems
    BY <1>3
  <2>4. Cardinality(Elements(k, d)) = Cardinality(Elements(h, d)) - Times(o, d) + Times(e, d)
    <3>1. /\ k[b].elems = e /\ h[b].elems = o
          /\ DOMAIN e \subseteq Slot \cup Item /\ IsFiniteSet(DOMAIN e)
      BY <1>2, <1>4, <2>1
    <3> QED BY <2>2, <2>3, <3>1, ElementsChange
  <2> QED BY <2>1, <2>4
<1>7. \A d \in Block : /\ h[d].m_refCount \in Nat /\ k[d].m_refCount = h[d].m_refCount
                       /\ k[d].kind = h[d].kind
                       /\ Cardinality(Elements(h, d)) \in Nat /\ Times(h[b].elems, d) \in Nat
                       /\ Times(e, d) \in Nat
  <2>1. IsFiniteSet(DOMAIN h[b].elems)
    BY <1>1, ElemsFacts
  <2>2. \A d \in Block : Times(h[b].elems, d) \in Nat
    BY <2>1, TimesType
  <2> QED BY <1>1, <1>2, <1>3, <1>4, <2>2, ShapeFacts, ElementsFinite
<1>8. \A d \in Block : Outside(k, d) = Outside(h, d) + Times(h[b].elems, d) - Times(e, d)
  BY <1>6, <1>7 DEF Outside
<1>9. \A d \in Block : Outside(k, d) >= 0
  <2>1. \A d \in Block : Outside(h, d) \in Int
    BY <1>1, OutsideType
  <2> QED BY <1>7, <1>8, <2>1
<1>10. Linked(k)
  <2> SUFFICES ASSUME NEW c \in Block, NEW j \in DOMAIN k[c].elems, k[c].elems[j] \in Block
               PROVE  k[k[c].elems[j]].kind = "matrix" /\ ~IgnoreCoW(k[c].elems[j])
    BY DEF Linked
  <2>1. CASE c = b
    <3>1. h[k[c].elems[j]].kind = "matrix" /\ ~IgnoreCoW(k[c].elems[j])
      BY <1>2, <1>4, <2>1 DEF Fits, Index
    <3> QED BY <1>7, <3>1
  <2>2. CASE c # b
    BY <1>1, <1>3, <1>7, <2>2 DEF Linked
  <2> QED BY <2>1, <2>2
<1>11. Sane(k)
  BY <1>1, <1>5, <1>7, <1>9, <1>10 DEF Sane, Solvent
<1> QED
  BY <1>3, <1>4, <1>7, <1>8, <1>11

(* [x.f] = y{:}: the elements of c go to b, in place. *)
Extracts(x, y, b, c) ==
  /\ b = ref[x] /\ c = ref[y]
  /\ b \in Block /\ heap[b].kind = "struct" /\ c \in Block /\ heap[c].kind = "cells"
  /\ Unlooped /\ ref' = ref /\ Sane(heap')
  /\ \A d \in Block : Outside(heap', d) = Outside(heap, d)
  /\ heap'[b].kind = "struct" /\ heap'[b].elems = heap[c].elems
  /\ Alters(heap, heap', {b})

LEMMA CellExtractionWrites ==
  ASSUME VInv, NEW x \in Var, NEW y \in Var, CellExtraction(x, y)
  PROVE  \E b, c : Extracts(x, y, b, c)
<1>1. PICK b, c, old, new, h, g, k :
        /\ b = ref[x] /\ c = ref[y] /\ old = heap[b].elems /\ new = heap[c].elems
        /\ h = IncrAll(heap, new) /\ IsFilled(g, h, b, new) /\ k = DropAll(g, old)
  BY DEF IsFilled
<1>2. /\ b \in Block /\ c \in Block /\ heap[b].kind = "struct" /\ heap[c].kind = "cells"
      /\ Unlooped /\ ref' = ref /\ heap' = k
  BY <1>1 DEF CellExtraction, Is, IsFilled
<1>3. Sane(heap) /\ Shape(heap) /\ Linked(heap) /\ Solvent(heap) /\ RefType
      /\ heap[b] \in Container /\ heap[c] \in Container
  BY <1>2, ShapeFacts DEF VInv, Sane
<1>4. /\ new \in [Slot -> Number \cup Block] /\ old \in [Slot -> Number \cup Block]
      /\ \A i \in Slot : new[i] \in Block => heap[new[i]].kind = "matrix" /\ ~IgnoreCoW(new[i])
      /\ \A i \in Slot : old[i] \in Block => heap[old[i]].kind = "matrix" /\ ~IgnoreCoW(old[i])
  BY <1>1, <1>2, <1>3 DEF Container, Linked
<1>5. "cells" \in Kind /\ Fits(heap, "cells", new)
  BY <1>4 DEF Kind, Fits, Index
<1>6. /\ Sane(h)
      /\ \A d \in Block : Outside(h, d) = Outside(heap, d) + Times(new, d)
      /\ \A d \in Block : h[d].kind = heap[d].kind /\ h[d].elems = heap[d].elems
  BY <1>1, <1>3, <1>5, IncrAllSpec
<1>7. \A d \in Block : /\ Outside(heap, d) \in Int /\ Outside(heap, d) >= 0
                       /\ Times(new, d) \in Nat /\ Times(old, d) \in Nat /\ Times(ref, d) \in Nat
  <2>1. IsFiniteSet(DOMAIN new) /\ IsFiniteSet(DOMAIN old)
    BY <1>4, IndicesFinite
  <2>2. \A d \in Block : Times(new, d) \in Nat /\ Times(old, d) \in Nat
    BY <2>1, TimesType
  <2> QED BY <1>3, <2>2, OutsideType, RefFacts DEF Solvent
<1>8. /\ Sane(g)
      /\ \A d \in Block : Outside(g, d) = Outside(h, d) + Times(old, d) - Times(new, d)
      /\ \A d \in Block : g[d].kind = h[d].kind
      /\ \A d \in Block \ {b} : g[d] = h[d]
      /\ g[b].elems = new
  <2>1. /\ Fits(h, "cells", new)
        /\ \A d \in Block : Outside(h, d) >= Times(new, d)
    BY <1>2, <1>4, <1>5, <1>6, <1>7 DEF Fits
  <2>2. h[b].elems = old
    BY <1>1, <1>2, <1>6
  <2>3. /\ Sane(h) /\ b \in Block /\ h[b].kind \in {"cells", "struct"} /\ IsFilled(g, h, b, new)
    BY <1>1, <1>2, <1>6
  <2>4. /\ Sane(g)
        /\ \A d \in Block : Outside(g, d) = Outside(h, d) + Times(h[b].elems, d) - Times(new, d)
        /\ \A d \in Block : g[d].kind = h[d].kind
        /\ \A d \in Block \ {b} : g[d] = h[d]
        /\ g[b].elems = new
    BY <2>1, <2>3, FillSpec
  <2> QED BY <2>2, <2>4
<1>9. \A d \in Block : Outside(g, d) = Outside(heap, d) + Times(old, d)
  BY <1>6, <1>7, <1>8
<1>10. /\ Sane(k) /\ \A d \in Block : Outside(k, d) = Outside(g, d) - Times(old, d)
       /\ Keeps(g, k) /\ \A d \in Block : g[d].kind # "matrix" => k[d] = g[d]
  <2>1. IsFiniteSet(DOMAIN old)
    BY <1>4, IndicesFinite
  <2>2. \A i \in DOMAIN old : old[i] \in Block => g[old[i]].kind = "matrix" /\ ~IgnoreCoW(old[i])
    BY <1>4, <1>6, <1>8
  <2>3. \A d \in Block : Outside(g, d) >= Times(old, d)
    BY <1>7, <1>9
  <2> QED BY <1>1, <1>8, <2>1, <2>2, <2>3, DropAllSpec
<1>11. \A d \in Block : Outside(k, d) = Outside(heap, d)
  BY <1>7, <1>9, <1>10
<1>12. Alters(heap, k, {b})
  BY <1>6, <1>8, <1>10 DEF Alters, Keeps
<1>13. k[b].kind = "struct" /\ k[b].elems = new
  BY <1>2, <1>6, <1>8, <1>10
<1> QED
  BY <1>1, <1>2, <1>10, <1>11, <1>12, <1>13 DEF Extracts

LEMMA CellExtractionKeeps ==
  ASSUME VInv, NEW x \in Var, NEW y \in Var, CellExtraction(x, y)
  PROVE  VInv'
<1>1. PICK k : /\ k = heap' /\ ref' = ref /\ Unlooped /\ Sane(k)
               /\ \A d \in Block : Outside(k, d) = Outside(heap, d)
  <2>1. PICK b, c : Extracts(x, y, b, c)
    BY CellExtractionWrites
  <2> QED BY <2>1 DEF Extracts
<1> PICK r : r = ref
  OBVIOUS
<1>2. RefType /\ r \in [Var -> Number \cup Block \cup {NOTHING}]
  BY <1>1 DEF VInv, RefType
<1>3. \A d \in Block : /\ Outside(k, d) - Times(r, d) = Outside(heap, d) - Times(ref, d)
                       /\ Outside(k, d) - Times(r, d) >= Outside(heap, d) - Times(ref, d)
  <2>1. \A d \in Block : Outside(heap, d) \in Int /\ Times(ref, d) \in Nat
    BY <1>2, RefFacts, VarHolds
  <2> QED BY <1>1, <2>1
<1> QED
  BY <1>1, <1>2, <1>3, Settle

-----------------------------------------------------------------------------
(* parfor. *)

(* The start of a loop writes nothing: it counts the holders that come. *)
LEMMA StartParforCounts ==
  ASSUME VInv, NEW x \in Var, NEW y \in Var, StartParfor(x, y)
  PROVE  \A d \in Block : heap'[d].kind = heap[d].kind /\ heap'[d].elems = heap[d].elems
<1>1. Sane(heap)
  BY DEF VInv
<1>2. ASSUME NEW d \in Block
      PROVE  heap'[d].kind = heap[d].kind /\ heap'[d].elems = heap[d].elems
  <2>1. heap[d] \in {FREE} \cup Matrix \cup Container
    BY <1>1 DEF Sane, Shape
  <2>2. \E n : heap'[d] = heap[d] \/ heap'[d] = [heap[d] EXCEPT !.m_refCount = n]
    BY DEF StartParfor
  <2> QED BY <2>1, <2>2 DEF FREE, Matrix, Container
<1> QED BY <1>2

LEMMA StartParforKeeps ==
  ASSUME Careful, VInv, NEW x \in Var, NEW y \in Var, StartParfor(x, y)
  PROVE  VInv'
<1>1. PICK b, w, k : b = ref[x] /\ w = ref[y] /\ k = heap'
  OBVIOUS
<1>2. /\ loop = NoLoop /\ b \in Block /\ heap[b].kind \in {"matrix", "cells"}
      /\ \/ w \in Number
         \/ /\ w \in Block /\ heap[w].kind = "matrix" /\ ~IgnoreCoW(w) /\ heap[b].kind = "cells"
      /\ heap[b].m_refCount = 1 \/ IgnoreCoW(b)
      /\ ignore_cow_pointers' = ignore_cow_pointers \cup {b}
      /\ loop' = [x |-> b, reads |-> w]
      /\ UNCHANGED <<ref, stray>>
  BY <1>1 DEF StartParfor, Is, Sound
<1>3. k = [c \in Block |->
        IF ~Counted(c) THEN heap[c]
        ELSE IF c = b THEN [heap[c] EXCEPT !.m_refCount = @ + 1]
        ELSE IF c = w THEN [heap[c] EXCEPT !.m_refCount = @ + NumThreads]
        ELSE heap[c]]
  BY <1>1 DEF StartParfor
<1>4. Sane(heap) /\ Shape(heap) /\ Linked(heap) /\ Solvent(heap) /\ RefType /\ Ignored
      /\ NumThreads \in Nat \ {0} /\ Number \cap Block = {} /\ NOTHING \notin Number \cup Block
  BY ValuesAssumption, RefFacts DEF VInv, Sane
<1>5. \A d \in Block : /\ Outside(heap, d) \in Int /\ Outside(heap, d) >= 0
                       /\ Times(ref, d) \in Nat /\ heap[d].m_refCount \in Nat
  BY <1>4, OutsideType, RefFacts, ShapeFacts DEF Solvent
<1>6. w # b
  BY <1>2, <1>4
<1> DEFINE More(d) == IF IgnoreCoW(d) THEN 0 ELSE IF d = b THEN 1 ELSE IF d = w THEN NumThreads ELSE 0
<1>7. ASSUME NEW d \in Block
      PROVE  /\ k[d] \in {FREE} \cup Matrix \cup Container
             /\ k[d].kind = heap[d].kind /\ k[d].elems = heap[d].elems
             /\ k[d].m_refCount = heap[d].m_refCount + More(d)
  <2>1. heap[d] \in {FREE} \cup Matrix \cup Container /\ heap[d].m_refCount + 0 = heap[d].m_refCount
    BY <1>4, <1>5 DEF Shape
  <2>2. CASE IgnoreCoW(d) \/ (d # b /\ d # w)
    <3>1. k[d] = heap[d] /\ More(d) = 0
      BY <1>3, <2>2 DEF Counted
    <3> QED BY <2>1, <3>1
  <2>3. CASE ~IgnoreCoW(d) /\ d = b
    <3>1. k[d] = [heap[d] EXCEPT !.m_refCount = @ + 1] /\ More(d) = 1
      BY <1>3, <2>3 DEF Counted
    <3>2. heap[d] \in Matrix \cup Container
      BY <1>2, <1>4, <2>3, ShapeFacts
    <3> QED BY <1>5, <3>1, <3>2 DEF Matrix, Container
  <2>4. CASE ~IgnoreCoW(d) /\ d # b /\ d = w
    <3>1. k[d] = [heap[d] EXCEPT !.m_refCount = @ + NumThreads] /\ More(d) = NumThreads
      BY <1>3, <2>4 DEF Counted
    <3>2. heap[d] \in Matrix
      BY <1>2, <1>4, <2>4, ShapeFacts
    <3>3. heap[d].m_refCount + NumThreads \in Nat \ {0}
      BY <1>4, <1>5
    <3> QED BY <3>1, <3>2, <3>3 DEF Matrix
  <2> QED BY <2>2, <2>3, <2>4
<1>8. Shape(k)
  <2>1. k = [d \in Block |-> k[d]]
    BY <1>3
  <2> QED BY <1>7, <2>1 DEF Shape
<1>9. \A d \in Block : More(d) \in Nat
  BY <1>4
<1> HIDE DEF More
<1>10. \A d \in Block : /\ Outside(heap, d) + k[d].m_refCount - heap[d].m_refCount = Outside(heap, d) + More(d)
                        /\ Outside(heap, d) + k[d].m_refCount - heap[d].m_refCount >= 0
                        /\ k[d].kind = heap[d].kind /\ k[d].elems = heap[d].elems
  BY <1>5, <1>7, <1>9
<1>11. Sane(k) /\ \A d \in Block : Outside(k, d) = Outside(heap, d) + More(d)
  BY <1>4, <1>8, <1>10, Recount
<1>12. Times(ref, b) >= 1
  BY <1>1, <1>4, RefFacts
<1>13. \A c \in Block : \A i \in DOMAIN heap[c].elems : heap[c].elems[i] # b
  <2>1. CASE IgnoreCoW(b)
    BY <1>2, <1>4, <2>1 DEF Linked
  <2>2. CASE heap[b].m_refCount = 1
    <3>1. Outside(heap, b) >= 1
      <4>1. LoopCount(b) = 0
        BY <1>2, NoLoopFacts
      <4> QED BY <1>2, <1>5, <1>12, <4>1, VarHolds
    <3>2. ~(Cardinality(Elements(heap, b)) >= 1)
      BY <1>2, <1>4, <1>5, <2>2, <3>1, OutsideType
    <3> QED BY <1>2, <1>4, <3>2, HeldIsCounted
  <2> QED BY <1>2, <2>1, <2>2
<1>14. \A d \in Block : IgnoreCoW(d)' <=> IgnoreCoW(d) \/ d = b
  BY <1>2 DEF IgnoreCoW
<1>15. Sane(heap)'
  <2>1. \A c \in Block : \A i \in DOMAIN k[c].elems : k[c].elems[i] \in Block =>
           /\ k[k[c].elems[i]].kind = "matrix"
           /\ k[c].elems[i] \notin ignore_cow_pointers /\ k[c].elems[i] # b
    BY <1>10, <1>11, <1>13 DEF Sane, Linked, IgnoreCoW
  <2>2. Linked(heap)'
    BY <1>1, <1>2, <2>1 DEF Linked, IgnoreCoW
  <2>3. \A d \in Block : Outside(k, d) >= 0 /\ (d \in ignore_cow_pointers \/ d = b => k[d].kind # "free")
    BY <1>2, <1>4, <1>5, <1>9, <1>10, <1>11 DEF Solvent, IgnoreCoW
  <2>4. Solvent(heap)'
    BY <1>1, <1>2, <2>3 DEF Solvent, IgnoreCoW
  <2>5. Shape(heap)'
    BY <1>1, <1>8 DEF Shape
  <2> QED BY <2>2, <2>4, <2>5 DEF Sane
<1>16. RefType'
  BY <1>2, <1>4 DEF RefType
<1>17. \A d \in Block : /\ LoopCount(d)' = (IF d = b THEN 1 ELSE IF d = w THEN NumThreads ELSE 0)
                        /\ LoopCount(d)' \in Nat
  <2>1. loop'.x = b /\ loop'.reads = w
    BY <1>2
  <2> QED BY <1>4, <1>6, <2>1 DEF LoopCount
<1>18. \A d \in Block : ~IgnoreCoW(d) => LoopCount(d)' = More(d)
  BY <1>17 DEF More
<1>19. Outside(k, b) >= Times(ref, b) + 1
  <2>1. CASE IgnoreCoW(b)
    BY <1>2, <1>4, <1>5, <1>9, <1>11, <2>1 DEF Ignored, IgnoreCoW
  <2>2. CASE ~IgnoreCoW(b)
    <3>1. More(b) = 1 /\ Outside(heap, b) >= Times(ref, b)
      BY <1>2, <1>5, <2>2, NoLoopFacts DEF More
    <3> QED BY <1>2, <1>5, <1>11, <3>1
  <2> QED BY <2>1, <2>2
<1>20. ASSUME NEW d \in Block
       PROVE  /\ d \in stray => Outside(k, d) >= Times(ref, d) + LoopCount(d)'
              /\ d \notin stray => Outside(k, d) = Times(ref, d) + LoopCount(d)'
  <2>1. CASE IgnoreCoW(d)
    <3>1. d \in stray
      BY <1>2, <2>1, NoLoopFacts DEF IgnoreCoW
    <3>2. d # w
      BY <1>2, <1>4, <2>1
    <3>3. CASE d = b
      BY <1>17, <1>19, <3>1, <3>3
    <3>4. CASE d # b
      <4>1. LoopCount(d)' = 0 /\ More(d) = 0 /\ Outside(heap, d) >= Times(ref, d)
        BY <1>2, <1>17, <2>1, <3>1, <3>2, <3>4, NoLoopFacts DEF More
      <4> QED BY <1>5, <1>11, <3>1, <4>1
    <3> QED BY <3>3, <3>4
  <2>2. CASE ~IgnoreCoW(d)
    <3>1. LoopCount(d)' = More(d) /\ More(d) \in Nat /\ Outside(k, d) = Outside(heap, d) + More(d)
      BY <1>9, <1>11, <1>18, <2>2
    <3>2. /\ d \in stray => Outside(heap, d) >= Times(ref, d)
          /\ d \notin stray => Outside(heap, d) = Times(ref, d)
      BY <1>2, NoLoopFacts
    <3> QED BY <1>5, <3>1, <3>2
  <2> QED BY <2>1, <2>2
<1>21. Balanced'
  BY <1>1, <1>2, <1>20 DEF Balanced
<1>22. Ignored'
  <2>1. ignore_cow_pointers' \subseteq Block /\ ignore_cow_pointers \subseteq stray /\ loop'.x = b
    BY <1>2, <1>4, NoLoopFacts DEF Ignored
  <2>2. \A d \in ignore_cow_pointers' : Outside(k, d) >= Times(ref, d) + 1
    <3> TAKE d \in ignore_cow_pointers'
    <3>1. CASE d = b
      BY <1>19, <3>1
    <3>2. CASE d # b
      <4>1. d \in ignore_cow_pointers /\ d \in Block
        BY <1>2, <2>1, <3>2
      <4> QED BY <1>4, <1>5, <1>9, <1>11, <4>1 DEF Ignored
    <3> QED BY <3>1, <3>2
  <2> QED BY <1>1, <1>2, <2>1, <2>2 DEF Ignored
<1>23. LoopHolds'
  <2>1. /\ loop'.x = b /\ loop'.reads = w /\ b \in ignore_cow_pointers'
        /\ ref'[x] = b /\ ref'[y] = w
    BY <1>1, <1>2
  <2>2. heap'[b].kind \in {"matrix", "cells"}
    BY <1>1, <1>2, <1>10
  <2>3. \/ w \in Number
        \/ w \in Block /\ heap'[w].kind = "matrix" /\ heap'[b].kind = "cells" /\ ~IgnoreCoW(w)'
    BY <1>1, <1>2, <1>6, <1>10 DEF IgnoreCoW
  <2> QED BY <2>1, <2>2, <2>3 DEF LoopHolds, IgnoreCoW
<1> QED
  BY <1>15, <1>16, <1>21, <1>22, <1>23 DEF VInv

(* An iteration writes b, the sliced block, in place. *)
Iterates(i, b, w) ==
  /\ b = loop.x /\ w = loop.reads
  /\ b \in ignore_cow_pointers /\ b \in Block /\ heap[b].kind \in {"matrix", "cells"}
  /\ i \in DOMAIN heap[b].elems /\ \E x \in Var : ref[x] = b
  /\ \/ w \in Number
     \/ /\ w \in Block /\ heap[w].kind = "matrix" /\ heap[b].kind = "cells"
        /\ ~IgnoreCoW(w) /\ \E y \in Var : ref[y] = w
  /\ Sane(heap') /\ \A d \in Block : Outside(heap', d) = Outside(heap, d)
  /\ heap'[b].kind = heap[b].kind /\ heap'[b].elems = [heap[b].elems EXCEPT ![i] = w]
  /\ Alters(heap, heap', {b})
  /\ UNCHANGED <<ref, ignore_cow_pointers, loop, stray>>

LEMMA IterateWrites ==
  ASSUME VInv, NEW i \in Slot \cup Item, Iterate(i)
  PROVE  \E b, w : Iterates(i, b, w)
<1>1. PICK b, w, k : b = loop.x /\ w = loop.reads /\ k = heap'
  OBVIOUS
<1>2. /\ loop # NoLoop /\ i \in DOMAIN heap[b].elems /\ k = Store(heap, b, i, w)
      /\ UNCHANGED <<ref, ignore_cow_pointers, loop, stray>>
  BY <1>1 DEF Iterate
<1>3. Sane(heap) /\ RefType /\ Balanced /\ Ignored
  BY DEF VInv
<1>4. /\ b \in ignore_cow_pointers /\ b \in Block /\ heap[b].kind \in {"matrix", "cells"}
      /\ \E x \in Var : ref[x] = b
      /\ \/ w \in Number
         \/ /\ w \in Block /\ heap[w].kind = "matrix" /\ heap[b].kind = "cells"
            /\ ~IgnoreCoW(w) /\ \E y \in Var : ref[y] = w
  BY <1>1, <1>2, <1>3 DEF VInv, LoopHolds, Ignored
<1>5. Outside(heap, b) >= 1
  BY <1>4, VarHolds
<1>6. /\ Sane(k)
      /\ \A d \in Block : Outside(k, d) = Outside(heap, d)
      /\ \A d \in Block \ {b} : \/ k[d].kind = "free"
                                \/ k[d].kind = heap[d].kind /\ k[d].elems = heap[d].elems
      /\ k[b].kind = heap[b].kind /\ k[b].elems = [heap[b].elems EXCEPT ![i] = w]
  <2>1. \/ w \in Number
        \/ w \in Block /\ heap[w].kind = "matrix" /\ ~IgnoreCoW(w) /\ heap[b].kind # "matrix"
    BY <1>4
  <2>2. i \in DOMAIN heap[b].elems /\ b \in Block
    BY <1>2, <1>4
  <2> QED BY <1>2, <1>3, <1>5, <2>1, <2>2, StoreSpec
<1>7. Alters(heap, k, {b})
  BY <1>6 DEF Alters
<1>8. Iterates(i, b, w)
  BY <1>1, <1>2, <1>4, <1>6, <1>7 DEF Iterates
<1> QED BY <1>8

LEMMA IterateKeeps ==
  ASSUME VInv, NEW i \in Slot \cup Item, Iterate(i)
  PROVE  VInv'
<1>2. UNCHANGED <<ref, ignore_cow_pointers, loop, stray>>
  BY DEF Iterate
<1>3. Sane(heap) /\ RefType /\ Balanced /\ Ignored
  BY DEF VInv
<1>1. PICK b, w, k :
        /\ b = loop.x /\ w = loop.reads /\ k = heap'
        /\ b \in ignore_cow_pointers /\ b \in Block /\ heap[b].kind \in {"matrix", "cells"}
        /\ \E x \in Var : ref[x] = b
        /\ \/ w \in Number
           \/ /\ w \in Block /\ heap[w].kind = "matrix" /\ heap[b].kind = "cells"
              /\ ~IgnoreCoW(w) /\ \E y \in Var : ref[y] = w
        /\ Sane(k) /\ \A d \in Block : Outside(k, d) = Outside(heap, d)
        /\ k[b].kind = heap[b].kind
        /\ Alters(heap, k, {b})
  <2>1. PICK b, w : Iterates(i, b, w)
    BY IterateWrites
  <2> QED BY <2>1 DEF Iterates
<1>7. k[b].kind = heap[b].kind /\ Sane(k) /\ \A d \in Block : Outside(k, d) = Outside(heap, d)
  BY <1>1
<1>8. w \in Block => k[w].kind = "matrix"
  <2> SUFFICES ASSUME w \in Block PROVE k[w].kind = "matrix"
    OBVIOUS
  <2>1. heap[w].kind = "matrix" /\ w # b /\ Outside(heap, w) >= 1
    BY <1>1, <1>3, RefFacts, VarHolds
  <2>2. k[w].kind # "free"
    BY <1>7, <2>1, InUse
  <2> QED BY <1>1, <2>1, <2>2 DEF Alters
<1>9. Sane(heap)'
  BY <1>1, <1>2, <1>7 DEF Sane, Shape, Linked, Solvent, IgnoreCoW
<1>10. RefType'
  BY <1>2, <1>3 DEF RefType
<1>11. Balanced' /\ Ignored'
  <2>1. \A d \in Block : LoopCount(d)' = LoopCount(d)
    BY <1>2 DEF LoopCount
  <2>2. Balanced'
    BY <1>1, <1>2, <1>3, <1>7, <2>1 DEF Balanced
  <2>3. Ignored'
    BY <1>1, <1>2, <1>3, <1>7 DEF Ignored
  <2> QED BY <2>2, <2>3
<1>12. LoopHolds'
  <2>1. loop'.x = b /\ loop'.reads = w /\ b \in ignore_cow_pointers'
        /\ \E x \in Var : ref'[x] = b
    BY <1>1, <1>2
  <2>2. heap'[b].kind \in {"matrix", "cells"}
    BY <1>1, <1>7
  <2>3. \/ w \in Number
        \/ /\ w \in Block /\ heap'[w].kind = "matrix" /\ heap'[b].kind = "cells"
           /\ w \notin ignore_cow_pointers' /\ \E y \in Var : ref'[y] = w
    BY <1>1, <1>2, <1>7, <1>8 DEF IgnoreCoW
  <2> QED BY <2>1, <2>2, <2>3 DEF LoopHolds, IgnoreCoW
<1> QED
  BY <1>9, <1>10, <1>11, <1>12 DEF VInv

(* The end of a loop writes nothing: it counts the holders that go. *)
LEMMA EndParforCounts ==
  ASSUME VInv, EndParfor
  PROVE  /\ Shape(heap')
         /\ \A d \in Block : /\ heap'[d].kind = heap[d].kind /\ heap'[d].elems = heap[d].elems
                              /\ heap'[d].m_refCount = heap[d].m_refCount - LoopCount(d)
<1>1. PICK b, w, k, k1 :
        /\ b = loop.x /\ w = loop.reads /\ k = heap'
        /\ k1 = [c \in Block |-> IF c = w /\ Counted(c) THEN Less(heap[c], NumThreads) ELSE heap[c]]
  OBVIOUS
<1>2. /\ loop # NoLoop /\ k = Release(k1, b)
      /\ ignore_cow_pointers' = {} /\ loop' = NoLoop /\ UNCHANGED <<ref, stray>>
  BY <1>1 DEF EndParfor
<1>3. Sane(heap) /\ Shape(heap) /\ Linked(heap) /\ RefType /\ Balanced /\ Ignored
      /\ NumThreads \in Nat \ {0} /\ Number \cap Block = {} /\ NOTHING \notin Number \cup Block
  BY ValuesAssumption, RefFacts DEF VInv, Sane
<1>4. /\ b \in ignore_cow_pointers /\ b \in Block /\ heap[b].kind \in {"matrix", "cells"}
      /\ \E x \in Var : ref[x] = b
      /\ \/ w \in Number
         \/ w \in Block /\ heap[w].kind = "matrix" /\ ~IgnoreCoW(w) /\ \E y \in Var : ref[y] = w
  BY <1>1, <1>2, <1>3 DEF VInv, LoopHolds, Ignored
<1>5. \A d \in Block : /\ Outside(heap, d) \in Int /\ Times(ref, d) \in Nat /\ LoopCount(d) \in Nat
                       /\ heap[d].m_refCount \in Nat
                       /\ Outside(heap, d) >= Times(ref, d) + LoopCount(d)
                       /\ heap[d].m_refCount >= Outside(heap, d)
  <2>1. \A d \in Block : /\ Outside(heap, d) \in Int /\ Times(ref, d) \in Nat /\ LoopCount(d) \in Nat
                         /\ heap[d].m_refCount \in Nat
    BY <1>3, OutsideType, RefFacts, LoopCountType, ShapeFacts
  <2>2. \A d \in Block : heap[d].m_refCount >= Outside(heap, d)
    BY <1>3, <2>1, OutsideType
  <2> QED BY <2>1, <2>2, VarHolds
<1>6. w # b /\ \A d \in Block : LoopCount(d) = (IF d = b THEN 1 ELSE IF d = w THEN NumThreads ELSE 0)
  <2>1. w # b
    BY <1>3, <1>4 DEF IgnoreCoW
  <2> QED BY <1>1, <1>3, <2>1 DEF LoopCount
<1>7. Times(ref, b) >= 1 /\ (w \in Block => Times(ref, w) >= 1)
  BY <1>3, <1>4, RefFacts
<1>8. heap[b].m_refCount >= 2 /\ (w \in Block => heap[w].m_refCount > NumThreads)
  <2>1. heap[b].m_refCount >= 2
    BY <1>4, <1>5, <1>6, <1>7
  <2>2. w \in Block => heap[w].m_refCount > NumThreads
    BY <1>3, <1>5, <1>6, <1>7
  <2> QED BY <2>1, <2>2
<1>9. /\ k1[b] = heap[b]
      /\ k = [k1 EXCEPT ![b].m_refCount = @ - 1]
  <2>1. k1[b] = heap[b]
    BY <1>1, <1>4, <1>6
  <2>2. k1[b].m_refCount # 1
    BY <1>4, <1>5, <1>8, <2>1
  <2> QED BY <1>2, <2>1, <2>2 DEF Release
<1>10. \A d \in Block : k1[d] = IF d = w THEN [heap[d] EXCEPT !.m_refCount = @ - NumThreads] ELSE heap[d]
  <2> TAKE d \in Block
  <2>1. CASE d = w
    <3>1. Counted(d) /\ heap[d].m_refCount > NumThreads
      BY <1>3, <1>4, <1>8, <2>1 DEF Counted
    <3> QED BY <1>1, <2>1, <3>1 DEF Less
  <2>2. CASE d # w
    BY <1>1, <2>2
  <2> QED BY <2>1, <2>2
<1>11. \A d \in Block : k[d] = IF d = b THEN [heap[d] EXCEPT !.m_refCount = @ - 1] ELSE k1[d]
  <2>1. k1 = [d \in Block |-> k1[d]]
    BY <1>1
  <2> QED BY <1>4, <1>9, <2>1
<1>12. ASSUME NEW d \in Block
       PROVE  /\ k[d] \in {FREE} \cup Matrix \cup Container
              /\ k[d].kind = heap[d].kind /\ k[d].elems = heap[d].elems
              /\ k[d].m_refCount = heap[d].m_refCount - LoopCount(d)
  <2>1. heap[d] \in {FREE} \cup Matrix \cup Container /\ heap[d].m_refCount - 0 = heap[d].m_refCount
    BY <1>3, <1>5 DEF Shape
  <2>2. CASE d = b
    <3>1. k[d] = [heap[d] EXCEPT !.m_refCount = @ - 1] /\ LoopCount(d) = 1
      BY <1>6, <1>11, <2>2
    <3>2. heap[d] \in Matrix \cup Container /\ heap[d].m_refCount - 1 \in Nat \ {0}
      BY <1>3, <1>4, <1>5, <1>8, <2>2, ShapeFacts
    <3> QED BY <3>1, <3>2 DEF Matrix, Container
  <2>3. CASE d # b /\ d = w
    <3>1. k[d] = [heap[d] EXCEPT !.m_refCount = @ - NumThreads] /\ LoopCount(d) = NumThreads
      BY <1>6, <1>10, <1>11, <2>3
    <3>2. heap[d] \in Matrix
      BY <1>3, <1>4, <2>3, ShapeFacts
    <3>3. heap[d].m_refCount - NumThreads \in Nat \ {0}
      BY <1>3, <1>5, <1>8, <2>3
    <3> QED BY <3>1, <3>2, <3>3 DEF Matrix
  <2>4. CASE d # b /\ d # w
    <3>1. k[d] = heap[d] /\ LoopCount(d) = 0
      BY <1>6, <1>10, <1>11, <2>4
    <3> QED BY <2>1, <3>1
  <2> QED BY <2>2, <2>3, <2>4
<1>13. Shape(k)
  <2>1. k = [d \in Block |-> k[d]]
    BY <1>1, <1>9
  <2> QED BY <1>12, <2>1 DEF Shape
<1> QED
  BY <1>1, <1>12, <1>13

LEMMA EndParforKeeps ==
  ASSUME VInv, EndParfor
  PROVE  VInv'
<1>1. PICK k : k = heap'
  OBVIOUS
<1>2. ignore_cow_pointers' = {} /\ loop' = NoLoop /\ UNCHANGED <<ref, stray>>
  BY DEF EndParfor
<1>3. Sane(heap) /\ Shape(heap) /\ RefType /\ Balanced /\ NOTHING \notin Number \cup Block
  BY RefFacts DEF VInv, Sane
<1>5. \A d \in Block : /\ Outside(heap, d) \in Int /\ Times(ref, d) \in Nat /\ LoopCount(d) \in Nat
                       /\ heap[d].m_refCount \in Nat
                       /\ Outside(heap, d) >= Times(ref, d) + LoopCount(d)
  BY <1>3, OutsideType, RefFacts, LoopCountType, ShapeFacts, VarHolds
<1>12. /\ Shape(k)
       /\ \A d \in Block : /\ k[d].kind = heap[d].kind /\ k[d].elems = heap[d].elems
                            /\ k[d].m_refCount = heap[d].m_refCount - LoopCount(d)
  BY <1>1, EndParforCounts
<1>14. /\ \A d \in Block : k[d].kind = heap[d].kind /\ k[d].elems = heap[d].elems
       /\ \A d \in Block : Outside(heap, d) + k[d].m_refCount - heap[d].m_refCount
                              = Outside(heap, d) - LoopCount(d)
       /\ \A d \in Block : Outside(heap, d) + k[d].m_refCount - heap[d].m_refCount >= 0
  BY <1>5, <1>12
<1>15. Sane(k) /\ \A d \in Block : Outside(k, d) = Outside(heap, d) - LoopCount(d)
  BY <1>3, <1>12, <1>14, Recount
<1>16. Sane(heap)'
  BY <1>1, <1>2, <1>15 DEF Sane, Shape, Linked, Solvent, IgnoreCoW
<1>17. RefType'
  BY <1>2, <1>3 DEF RefType
<1>18. Balanced'
  <2>1. \A d \in Block : LoopCount(d)' = 0
    BY <1>2, <1>3 DEF LoopCount, NoLoop
  <2>2. \A d \in Block : /\ d \in stray => Outside(k, d) >= Times(ref, d) + 0
                         /\ d \notin stray => Outside(k, d) = Times(ref, d) + 0
    BY <1>3, <1>5, <1>15 DEF Balanced
  <2> QED BY <1>1, <1>2, <2>1, <2>2 DEF Balanced
<1>19. Ignored' /\ LoopHolds'
  BY <1>2 DEF Ignored, LoopHolds
<1> QED
  BY <1>16, <1>17, <1>18, <1>19 DEF VInv

LEMMA FailParforKeeps ==
  ASSUME VInv, FailParfor
  PROVE  VInv'
<1>1. /\ loop # NoLoop /\ loop' = NoLoop /\ stray' = stray \cup ({loop.x, loop.reads} \cap Block)
      /\ UNCHANGED <<ref, heap, ignore_cow_pointers>>
  BY DEF FailParfor
<1>2. Sane(heap) /\ RefType /\ Balanced /\ Ignored /\ NOTHING \notin Block /\ NumThreads \in Nat
  BY RefFacts, ValuesAssumption DEF VInv
<1>3. Sane(heap)'
  BY <1>1, <1>2 DEF Sane, Shape, Linked, Solvent, IgnoreCoW
<1>4. RefType'
  BY <1>1, <1>2 DEF RefType
<1>5. \A d \in Block : LoopCount(d)' = 0
  BY <1>1, <1>2 DEF LoopCount, NoLoop
<1>6. \A d \in Block : d \notin stray' => LoopCount(d) = 0
  BY <1>1 DEF LoopCount
<1>7. Balanced'
  <2>1. \A d \in Block : /\ Outside(heap, d) \in Int /\ Times(ref, d) \in Nat /\ LoopCount(d) \in Nat
                         /\ Outside(heap, d) >= Times(ref, d) + LoopCount(d)
    BY <1>2, RefFacts, VarHolds, LoopCountType
  <2>2. \A d \in Block : /\ d \in stray' => Outside(heap, d) >= Times(ref, d) + 0
                         /\ d \notin stray' => Outside(heap, d) = Times(ref, d) + 0
    BY <1>1, <1>2, <1>6, <2>1 DEF Balanced
  <2> QED BY <1>1, <1>5, <2>2 DEF Balanced
<1>8. Ignored'
  BY <1>1, <1>2 DEF Ignored
<1>9. LoopHolds'
  BY <1>1 DEF LoopHolds
<1> QED
  BY <1>3, <1>4, <1>7, <1>8, <1>9 DEF VInv

-----------------------------------------------------------------------------
(* The theorems. *)

LEMMA InitVInv == ValuesInit => VInv
<1> SUFFICES ASSUME ValuesInit PROVE VInv
  OBVIOUS
<1>1. /\ heap = [b \in Block |-> FREE] /\ ref = [x \in Var |-> NOTHING]
      /\ ignore_cow_pointers = {} /\ loop = NoLoop /\ stray = {}
  BY DEF ValuesInit
<1>2. Shape(heap)
  BY <1>1 DEF Shape
<1>3. \A c \in Block : DOMAIN heap[c].elems = {} /\ heap[c].m_refCount = 0
  BY <1>1 DEF FREE
<1>4. ASSUME NEW b \in Block
      PROVE  Outside(heap, b) = 0 /\ Times(ref, b) = 0 /\ LoopCount(b) = 0
  <2>1. Elements(heap, b) = {}
    BY <1>3 DEF Elements
  <2>2. Cardinality(Elements(heap, b)) = 0
    BY <2>1, FS_EmptySet
  <2>3. NOTHING # b
    BY ValuesAssumption DEF Block
  <2>4. Times(ref, b) = 0
    BY <1>1, <2>3, TimesNone
  <2>5. LoopCount(b) = 0
    BY <1>1, <2>3 DEF LoopCount, NoLoop
  <2> QED BY <1>3, <2>2, <2>4, <2>5 DEF Outside
<1>5. Sane(heap)
  BY <1>1, <1>2, <1>3, <1>4 DEF Sane, Linked, Solvent, IgnoreCoW
<1>6. RefType /\ Ignored /\ LoopHolds
  BY <1>1 DEF RefType, Ignored, LoopHolds
<1>7. Balanced
  BY <1>1, <1>4 DEF Balanced
<1> QED
  BY <1>5, <1>6, <1>7 DEF VInv

LEMMA StepVInv ==
  ASSUME Careful
  PROVE  VInv /\ [ValuesNext]_valueVars => VInv'
<1> SUFFICES ASSUME VInv, [ValuesNext]_valueVars PROVE VInv'
  OBVIOUS
<1>1. ASSUME NEW x \in Var, Clear(x) PROVE VInv'
  BY <1>1, RefFacts, AssignKeeps DEF Clear, VInv
<1>2. ASSUME NEW x \in Var, NEW n \in Number, CreateNumber(x, n) PROVE VInv'
  BY <1>2, RefFacts, AssignKeeps DEF CreateNumber, VInv
<1>3. ASSUME NEW x \in Var, NEW n \in Number, NEW kind \in Kind, Create(x, kind, n) PROVE VInv'
  BY <1>3, CreateKeeps
<1>4. ASSUME NEW x \in Var, NEW y \in Var, Copy(x, y) PROVE VInv'
  BY <1>4, CopyKeeps
<1>5. ASSUME NEW x \in Var, NEW y \in Var, CellExtraction(x, y) PROVE VInv'
  BY <1>5, CellExtractionKeeps
<1>6. ASSUME NEW x \in Var, NEW y \in Var, StartParfor(x, y) PROVE VInv'
  BY <1>6, StartParforKeeps
<1>7. ASSUME NEW x \in Var, NEW y \in Var, NEW i \in Slot, Take(x, y, i) PROVE VInv'
  BY <1>7, TakeKeeps
<1>8. ASSUME NEW x \in Var, NEW i \in Slot, NEW v, AssignCell(x, i, v) PROVE VInv'
  BY <1>8, AssignCellKeeps
<1>9. ASSUME NEW x \in Var, NEW i \in Item, NEW n \in Number, AssignElement(x, i, n) PROVE VInv'
  BY <1>9, AssignElementKeeps
<1>10. ASSUME NEW x \in Var, NEW i \in Slot, NEW j \in Item, NEW n \in Number, AssignInner(x, i, j, n)
       PROVE  VInv'
  BY <1>10, AssignInnerKeeps
<1>11. ASSUME NEW i \in Slot \cup Item, Iterate(i) PROVE VInv'
  BY <1>11, IterateKeeps
<1>12. ASSUME EndParfor PROVE VInv'
  BY <1>12, EndParforKeeps
<1>13. ASSUME FailParfor PROVE VInv'
  BY <1>13, FailParforKeeps
<1>14. ASSUME UNCHANGED valueVars PROVE VInv'
  BY <1>14 DEF valueVars, VInv, Sane, Shape, Linked, Solvent, IgnoreCoW, RefType, Balanced, Ignored,
               LoopHolds, LoopCount
<1> QED
  BY <1>1, <1>2, <1>3, <1>4, <1>5, <1>6, <1>7, <1>8, <1>9, <1>10, <1>11, <1>12, <1>13, <1>14
     DEF ValuesNext

LEMMA VInvType == VInv => ValueTypeOK
<1> SUFFICES ASSUME VInv PROVE ValueTypeOK
  OBVIOUS
<1>1. Sane(heap) /\ Shape(heap) /\ Linked(heap) /\ RefType /\ Ignored /\ LoopHolds
  BY DEF VInv, Sane
<1>2. ASSUME NEW b \in Block, heap[b] # FREE
      PROVE  /\ heap[b] \in [kind : Kind, m_refCount : Nat \ {0},
                             elems : UNION {[Index(k) -> Number \cup Block] : k \in Kind}]
             /\ DOMAIN heap[b].elems = Index(heap[b].kind)
             /\ \A i \in Index(heap[b].kind) :
                  \/ heap[b].elems[i] \in Number
                  \/ heap[b].kind # "matrix" /\ Is(heap[b].elems[i], "matrix")
  <2>1. heap[b] \in Matrix \/ heap[b] \in Container
    BY <1>1, <1>2 DEF Shape
  <2>2. /\ heap[b] = [kind |-> heap[b].kind, m_refCount |-> heap[b].m_refCount, elems |-> heap[b].elems]
        /\ heap[b].kind \in Kind /\ heap[b].m_refCount \in Nat \ {0}
        /\ heap[b].elems \in [Index(heap[b].kind) -> Number \cup Block]
    <3>1. CASE heap[b] \in Matrix
      BY <3>1 DEF Matrix, Kind, Index
    <3>2. CASE heap[b] \in Container
      BY <3>2 DEF Container, Kind, Index
    <3> QED BY <2>1, <3>1, <3>2
  <2>3. heap[b].elems \in UNION {[Index(k) -> Number \cup Block] : k \in Kind}
    BY <2>2
  <2>4. DOMAIN heap[b].elems = Index(heap[b].kind)
    BY <2>2
  <2>5. \A i \in Index(heap[b].kind) :
           \/ heap[b].elems[i] \in Number
           \/ heap[b].kind # "matrix" /\ Is(heap[b].elems[i], "matrix")
    <3> TAKE i \in Index(heap[b].kind)
    <3>1. CASE heap[b].elems[i] \in Block
      <4>1. heap[heap[b].elems[i]].kind = "matrix"
        BY <1>1, <2>4, <3>1 DEF Linked
      <4>2. heap[b].kind # "matrix"
        BY <1>1, <2>4, <3>1, ElemsFacts
      <4> QED BY <3>1, <4>1, <4>2 DEF Is
    <3>2. CASE heap[b].elems[i] \in Number
      BY <3>2
    <3> QED BY <2>2, <3>1, <3>2
  <2> QED BY <2>2, <2>3, <2>4, <2>5
<1>3. loop = NoLoop \/ loop.x \in ignore_cow_pointers
  BY <1>1 DEF LoopHolds
<1> QED
  BY <1>1, <1>2, <1>3 DEF ValueTypeOK, RefType, Ignored

LEMMA VInvCounts == VInv => CountsMatch
<1> SUFFICES ASSUME VInv, NEW b \in Block
             PROVE  IF b \in stray THEN heap[b].m_refCount >= Holders(b)
                    ELSE heap[b].m_refCount = Holders(b)
  BY DEF CountsMatch
<1>1. Sane(heap) /\ RefType /\ Balanced
  BY DEF VInv
<1>2. PICK n, m, l : /\ n = Times(ref, b) /\ m = Cardinality(Elements(heap, b)) /\ l = LoopCount(b)
  OBVIOUS
<1>3. /\ Outside(heap, b) \in Int /\ n \in Nat /\ m \in Nat /\ l \in Nat
      /\ heap[b].m_refCount = Outside(heap, b) + m
  BY <1>1, <1>2, OutsideType, RefFacts, LoopCountType DEF Sane
<1>4. Holders(b) = n + m + l
  <2>1. n = Cardinality({x \in Var : ref[x] = b})
    <3>1. {x \in Var : ref[x] = b} = {x \in DOMAIN ref : ref[x] = b}
      BY <1>1, RefFacts
    <3> QED BY <1>2, <3>1 DEF Times
  <2>2. m = Cardinality({p \in Block \X (Slot \cup Item) :
                   p[2] \in DOMAIN heap[p[1]].elems /\ heap[p[1]].elems[p[2]] = b})
    BY <1>2 DEF Elements
  <2>3. Holders(b) = n + m + (IF loop.x = b THEN 1 ELSE 0) + (IF loop.reads = b THEN NumThreads ELSE 0)
    BY <2>1, <2>2 DEF Holders
  <2>4. NumThreads \in Nat
    BY ValuesAssumption
  <2> QED BY <1>2, <1>3, <2>3, <2>4 DEF LoopCount
<1> QED
  BY <1>1, <1>2, <1>3, <1>4 DEF Balanced

(* The invariant holds of careful programs. *)
THEOREM ValuesInvariant ==
  ASSUME Careful
  PROVE  ValuesSpec => []VInv
<1>1. VInv /\ [ValuesNext]_valueVars => VInv'
  BY StepVInv
<1> QED
  BY <1>1, InitVInv, PTL DEF ValuesSpec

(* A variable holds a number or a block in use, and an element of a container a
   number or a matrix in use: no block is freed while something refers to it
   (Currency::DeleteMatrix, DeleteCells, DeleteStruct). *)
THEOREM ValueTypes ==
  ASSUME Careful
  PROVE  ValuesSpec => []ValueTypeOK
BY ValuesInvariant, VInvType, PTL

(* Every block is held by as many variables, elements, and loops as it counts;
   after a failed parfor loop by no more than it counts. *)
THEOREM CountsAreRight ==
  ASSUME Careful
  PROVE  ValuesSpec => []CountsMatch
BY ValuesInvariant, VInvCounts, PTL

-----------------------------------------------------------------------------
(* The refinement.  What a variable stands for. *)

(* What v stands for in the heap h: ValueOf in any heap. *)
Bare(h, v) == IF v \in Block THEN [kind |-> h[v].kind, elems |-> h[v].elems] ELSE v
Worth(h, v) ==
  IF v \in Block
  THEN [kind |-> h[v].kind, elems |-> [i \in DOMAIN h[v].elems |-> Bare(h, h[v].elems[i])]]
  ELSE v

(* In the heap as it is, that is its value. *)
LEMMA ValueIsWorth ==
  /\ \A v : ValueOf(v) = Worth(heap, v)
  /\ \A x : ValueOf(ref[x])' = Worth(heap', ref'[x])
BY DEF ValueOf, MatrixOf, Worth, Bare

(* Numbers and NOTHING are not blocks, nor the values of blocks. *)
LEMMA ScalarsApart ==
  /\ \A v \in Number \cup {NOTHING} : v \notin Block /\ v \notin MatrixValue \cup ContainerValue
  /\ NOTHING \notin Number
BY ValuesAssumption DEF Block

(* A number stands for itself. *)
LEMMA ScalarWorth ==
  ASSUME NEW h, NEW v \in Number \cup {NOTHING}
  PROVE  Worth(h, v) = v /\ Bare(h, v) = v
BY ScalarsApart DEF Worth, Bare

(* A matrix stands for its elements. *)
LEMMA MatrixWorth ==
  ASSUME NEW h, Shape(h), NEW v \in Block, h[v].kind = "matrix"
  PROVE  /\ Bare(h, v) = [kind |-> "matrix", elems |-> h[v].elems]
         /\ Worth(h, v) = Bare(h, v)
         /\ h[v].elems \in [Item -> Number] /\ Bare(h, v) \in MatrixValue
<1>1. h[v] \in Matrix
  BY ShapeFacts
<1>2. h[v].elems \in [Item -> Number]
  BY <1>1 DEF Matrix
<1>3. [i \in DOMAIN h[v].elems |-> Bare(h, h[v].elems[i])] = h[v].elems
  <2>1. \A i \in Item : Bare(h, h[v].elems[i]) = h[v].elems[i]
    BY <1>2, ScalarWorth
  <2> QED BY <1>2, <2>1
<1>4. Bare(h, v) = [kind |-> "matrix", elems |-> h[v].elems]
  BY DEF Bare
<1>5. Worth(h, v) = [kind |-> "matrix", elems |-> h[v].elems]
  BY <1>3 DEF Worth
<1> QED BY <1>2, <1>4, <1>5 DEF MatrixValue

(* A container stands for what its elements stand for. *)
LEMMA ContainerWorth ==
  ASSUME NEW h, Shape(h), Linked(h), NEW v \in Block, h[v].kind \in {"cells", "struct"}
  PROVE  /\ h[v].elems \in [Slot -> Number \cup Block]
         /\ Worth(h, v) = [kind |-> h[v].kind, elems |-> [i \in Slot |-> Bare(h, h[v].elems[i])]]
         /\ \A i \in Slot : /\ Bare(h, h[v].elems[i]) \in Number \cup MatrixValue
                            /\ Bare(h, h[v].elems[i]) = Worth(h, h[v].elems[i])
         /\ Worth(h, v) \in ContainerValue
<1>1. h[v] \in Container
  BY ShapeFacts
<1>2. h[v].elems \in [Slot -> Number \cup Block]
  BY <1>1 DEF Container
<1>3. Worth(h, v) = [kind |-> h[v].kind, elems |-> [i \in Slot |-> Bare(h, h[v].elems[i])]]
  BY <1>2 DEF Worth
<1>4. ASSUME NEW i \in Slot
      PROVE  /\ Bare(h, h[v].elems[i]) \in Number \cup MatrixValue
             /\ Bare(h, h[v].elems[i]) = Worth(h, h[v].elems[i])
  <2>1. CASE h[v].elems[i] \in Number
    BY <2>1, ScalarWorth
  <2>2. CASE h[v].elems[i] \in Block
    <3>1. h[h[v].elems[i]].kind = "matrix"
      BY <1>2, <2>2 DEF Linked
    <3> QED BY <2>2, <3>1, MatrixWorth
  <2> QED BY <1>2, <2>1, <2>2
<1>5. Worth(h, v) \in ContainerValue
  BY <1>3, <1>4 DEF ContainerValue
<1> QED BY <1>2, <1>3, <1>4, <1>5

(* A value keeps where neither its block nor its elements are written, or freed. *)
LEMMA WorthKept ==
  ASSUME NEW h, NEW k, Shape(k), Linked(k), NEW W, Alters(h, k, W), NEW v, v \notin W,
         v \in Block => /\ k[v].kind # "free"
                        /\ \A i \in DOMAIN k[v].elems : k[v].elems[i] \notin W
  PROVE  Worth(k, v) = Worth(h, v) /\ Bare(k, v) = Bare(h, v)
<1>1. CASE v \notin Block
  BY <1>1 DEF Worth, Bare
<1>2. CASE v \in Block
  <2>1. k[v].kind = h[v].kind /\ k[v].elems = h[v].elems
    BY <1>2 DEF Alters
  <2>2. ASSUME NEW i \in DOMAIN k[v].elems
        PROVE  Bare(k, k[v].elems[i]) = Bare(h, k[v].elems[i])
    <3>1. CASE k[v].elems[i] \notin Block
      BY <3>1 DEF Bare
    <3>2. CASE k[v].elems[i] \in Block
      <4>1. k[k[v].elems[i]].kind = "matrix" /\ k[v].elems[i] \notin W
        BY <1>2, <3>2 DEF Linked
      <4> QED BY <3>2, <4>1 DEF Alters, Bare
    <3> QED BY <3>1, <3>2
  <2>3. Bare(k, v) = Bare(h, v)
    BY <2>1 DEF Bare
  <2>4. Worth(k, v) = [kind |-> h[v].kind, elems |-> [i \in DOMAIN h[v].elems |-> Bare(h, h[v].elems[i])]]
    BY <1>2, <2>1, <2>2 DEF Worth
  <2> QED BY <1>2, <2>3, <2>4 DEF Worth
<1> QED BY <1>1, <1>2

(* Where no block is written, everything still in use keeps its value. *)
LEMMA WorthSame ==
  ASSUME NEW h, NEW k, Sane(k), Keeps(h, k), NEW v, v \in Block => k[v].kind # "free"
  PROVE  Worth(k, v) = Worth(h, v)
<1>1. PICK W : W = {}
  OBVIOUS
<1>2. Shape(k) /\ Linked(k) /\ Alters(h, k, W) /\ v \notin W
  BY <1>1 DEF Sane, Keeps, Alters
<1>3. v \in Block => /\ k[v].kind # "free" /\ \A i \in DOMAIN k[v].elems : k[v].elems[i] \notin W
  BY <1>1
<1> QED BY <1>2, <1>3, WorthKept

-----------------------------------------------------------------------------
(* Steps of the abstract specification. *)

(* What x is worth before the step. *)
Now(x) == Worth(heap, ref[x])

(* The refinement maps x to it. *)
LEMMA ValsAre ==
  ASSUME NEW x \in Var
  PROVE  [y \in Var |-> ValueOf(ref[y])][x] = Now(x)
BY ValueIsWorth DEF Now

(* A step changes what one variable is worth. *)
LEMMA StepBy ==
  ASSUME NEW x \in Var, \A y \in Var \ {x} : Worth(heap', ref'[y]) = Now(y),
         Semantics!Assigned(x, Worth(heap', ref'[x]))
  PROVE  Semantics!SemNext
<1> DEFINE old == [y \in Var |-> ValueOf(ref[y])]
           new == [y \in Var |-> ValueOf(ref[y])']
<1>1. \A y \in Var : new[y] = Worth(heap', ref'[y]) /\ old[y] = Now(y)
  BY ValueIsWorth DEF Now
<1>2. new = [old EXCEPT ![x] = new[x]]
  BY <1>1
<1>3. Semantics!Assigned(x, new[x])
  BY <1>1
<1> QED BY <1>2, <1>3 DEF Semantics!SemNext

(* The ways a variable may change: clear, a number, a new value. *)
LEMMA ByNothing ==
  ASSUME NEW x \in Var
  PROVE  Semantics!Assigned(x, NOTHING)
BY DEF Semantics!Assigned

LEMMA ByNumber ==
  ASSUME NEW x \in Var, NEW n \in Number
  PROVE  Semantics!Assigned(x, n)
BY DEF Semantics!Assigned

LEMMA ByFill ==
  ASSUME NEW x \in Var, NEW n \in Number, NEW kind \in Kind
  PROVE  Semantics!Assigned(x, [kind |-> kind, elems |-> [i \in Index(kind) |-> n]])
<1>1. Semantics!Fill(kind, n) = [kind |-> kind, elems |-> [i \in Index(kind) |-> n]]
  BY DEF Semantics!Fill, Semantics!Index, Index
<1> QED BY <1>1 DEF Semantics!Assigned, Semantics!Kind, Kind

(* y = x. *)
LEMMA ByCopy ==
  ASSUME NEW x \in Var, NEW y \in Var
  PROVE  Semantics!Assigned(x, Now(y))
BY ValsAre DEF Semantics!Assigned

(* The abstract specification knows matrices, containers and numbers apart. *)
LEMMA KindsApart ==
  /\ \A v \in MatrixValue : Semantics!IsMatrix(v) /\ ~Semantics!IsContainer(v) /\ v # NOTHING
  /\ \A v \in ContainerValue : Semantics!IsContainer(v)
  /\ \A v \in Number : ~Semantics!IsContainer(v) /\ v # NOTHING
BY ScalarsApart DEF Semantics!IsMatrix, Semantics!IsContainer, MatrixValue, ContainerValue

(* x = y{i}. *)
LEMMA ByTake ==
  ASSUME NEW x \in Var, NEW y \in Var, Now(y) \in ContainerValue, NEW i \in Slot
  PROVE  Semantics!Assigned(x, Now(y).elems[i])
<1>1. Semantics!Take(Now(y).elems[i], y)
  BY ValsAre, KindsApart DEF Semantics!Take
<1> QED BY <1>1 DEF Semantics!Assigned

(* x{i} = w. *)
LEMMA ByPut ==
  ASSUME NEW x \in Var, Now(x) \in ContainerValue, NEW i \in Slot, NEW w,
         w \in Number \/ (w \in MatrixValue /\ \E y \in Var : w = Now(y))
  PROVE  Semantics!Assigned(x, [Now(x) EXCEPT !.elems[i] = w])
<1>1. Semantics!Put([Now(x) EXCEPT !.elems[i] = w], x, w)
  BY ValsAre, KindsApart DEF Semantics!Put
<1>2. CASE w \in Number
  BY <1>1, <1>2 DEF Semantics!Assigned
<1>3. CASE \E y \in Var : w = Now(y)
  <2>1. PICK y \in Var : w = Now(y)
    BY <1>3
  <2>2. Semantics!Put([Now(x) EXCEPT !.elems[i] = w], x, [z \in Var |-> ValueOf(ref[z])][y])
    BY <1>1, <2>1, ValsAre
  <2> QED BY <2>2 DEF Semantics!Assigned
<1> QED BY <1>2, <1>3

(* x(j) = n. *)
LEMMA ByPutNumber ==
  ASSUME NEW x \in Var, Now(x) \in MatrixValue, NEW j \in Item, NEW n \in Number
  PROVE  Semantics!Assigned(x, [Now(x) EXCEPT !.elems[j] = n])
<1>1. Semantics!PutNumber([Now(x) EXCEPT !.elems[j] = n], x, n)
  BY ValsAre, KindsApart DEF Semantics!PutNumber
<1> QED BY <1>1 DEF Semantics!Assigned

(* x{i}(j) = n. *)
LEMMA ByPutInner ==
  ASSUME NEW x \in Var, Now(x) \in ContainerValue, NEW i \in Slot, NEW j \in Item,
         Now(x).elems[i] \in MatrixValue, NEW n \in Number
  PROVE  Semantics!Assigned(x, [Now(x) EXCEPT !.elems[i].elems[j] = n])
<1>1. Semantics!PutInner([Now(x) EXCEPT !.elems[i].elems[j] = n], x, n)
  BY ValsAre, KindsApart DEF Semantics!PutInner
<1> QED BY <1>1 DEF Semantics!Assigned

(* [x.f] = y{:}. *)
LEMMA ByPutAll ==
  ASSUME NEW x \in Var, NEW y \in Var, Now(x) \in ContainerValue, Now(y) \in ContainerValue
  PROVE  Semantics!Assigned(x, [Now(x) EXCEPT !.elems = Now(y).elems])
<1>1. Semantics!PutAll([Now(x) EXCEPT !.elems = Now(y).elems], x, y)
  BY ValsAre, KindsApart DEF Semantics!PutAll
<1> QED BY <1>1 DEF Semantics!Assigned

-----------------------------------------------------------------------------
(* Who holds what is written. *)

(* What a loop slices is one variable's: no variable is copied while it is ignored. *)
Lone == \A b \in ignore_cow_pointers : Times(ref, b) <= 1

(* x takes what is counted, or what it has. *)
LEMMA LoneKept ==
  ASSUME VInv, Lone, ignore_cow_pointers' = ignore_cow_pointers, NEW x \in Var, NEW v,
         v \in Block => ~IgnoreCoW(v) \/ v = ref[x], ref' = [ref EXCEPT ![x] = v]
  PROVE  Lone'
<1>1. RefType /\ Ignored
  BY DEF VInv
<1>2. PICK e : e = ref
  OBVIOUS
<1>3. x \in DOMAIN e /\ IsFiniteSet(DOMAIN e) /\ \A d : Times(e, d) \in Nat
  BY <1>1, <1>2, RefFacts
<1>4. \A d : Times([e EXCEPT ![x] = v], d)
          = Times(e, d) - (IF e[x] = d THEN 1 ELSE 0) + (IF v = d THEN 1 ELSE 0)
  BY <1>3, TimesChange
<1>5. ASSUME NEW d \in ignore_cow_pointers PROVE Times(ref', d) <= 1
  <2>1. Times(e, d) <= 1 /\ Times(e, d) \in Nat
    BY <1>2, <1>3 DEF Lone
  <2>2. v = d => e[x] = d
    BY <1>1, <1>2, <1>5 DEF Ignored, IgnoreCoW
  <2>3. Times(ref', d) = Times(e, d) - (IF e[x] = d THEN 1 ELSE 0) + (IF v = d THEN 1 ELSE 0)
    BY <1>2, <1>4
  <2> QED BY <2>1, <2>2, <2>3
<1> QED BY <1>5 DEF Lone

(* No variable takes anything. *)
LEMMA LoneSame ==
  ASSUME Lone, ref' = ref, ignore_cow_pointers' \subseteq ignore_cow_pointers
  PROVE  Lone'
BY DEF Lone

(* A block that a write does not copy is held by one variable, and by no element. *)
LEMMA UnsharedIsMine ==
  ASSUME VInv, Lone, NEW x \in Var, ref[x] \in Block, ~Shared(heap, ref[x])
  PROVE  /\ Times(ref, ref[x]) = 1
         /\ \A y \in Var \ {x} : ref[y] # ref[x]
         /\ \A c \in Block : \A i \in DOMAIN heap[c].elems : heap[c].elems[i] # ref[x]
<1>1. PICK b, e : b = ref[x] /\ e = ref /\ b \in Block
  OBVIOUS
<1>2. RefType /\ Sane(heap) /\ Shape(heap) /\ Linked(heap)
  BY DEF VInv, Sane
<1>3. /\ DOMAIN e = Var /\ IsFiniteSet(DOMAIN e) /\ Times(e, b) \in Nat /\ Times(e, b) >= 1
      /\ LoopCount(b) \in Nat /\ Outside(heap, b) \in Int
      /\ Outside(heap, b) >= Times(e, b) + LoopCount(b)
  BY <1>1, <1>2, RefFacts, LoopCountType, VarHolds
<1>4. Times(e, b) <= 1 /\ \A c \in Block : \A i \in DOMAIN heap[c].elems : heap[c].elems[i] # b
  <2>1. CASE IgnoreCoW(b)
    BY <1>1, <1>2, <2>1 DEF Lone, Linked, IgnoreCoW
  <2>2. CASE ~IgnoreCoW(b)
    <3>1. heap[b].m_refCount = 1
      BY <1>1, <2>2 DEF Shared
    <3>2. /\ Cardinality(Elements(heap, b)) \in Nat
          /\ 1 = Outside(heap, b) + Cardinality(Elements(heap, b))
      BY <1>1, <1>2, <3>1, OutsideType
    <3>3. Times(e, b) <= 1 /\ ~(Cardinality(Elements(heap, b)) >= 1)
      BY <1>3, <3>2
    <3> QED BY <1>1, <1>2, <3>3, HeldIsCounted
  <2> QED BY <2>1, <2>2
<1>5. ASSUME NEW y \in Var \ {x} PROVE ref[y] # b
  <2>1. x \in DOMAIN e /\ y \in DOMAIN e /\ e[x] = b /\ (ref[y] = b => e[y] = b)
    BY <1>1, <1>3
  <2>2. ref[y] = b => x = y
    BY <1>3, <1>4, <2>1, TimesOnce
  <2> QED BY <2>2
<1> QED BY <1>1, <1>3, <1>4, <1>5

(* Nobody refers to a free block. *)
LEMMA FreeIsNobodys ==
  ASSUME VInv, NEW t \in Block, heap[t].kind = "free"
  PROVE  /\ \A y \in Var : ref[y] # t
         /\ \A c \in Block : \A i \in DOMAIN heap[c].elems : heap[c].elems[i] # t
<1>1. \A y \in Var : ref[y] \in Block => heap[ref[y]].kind # "free"
  BY VarHolds
<1>2. \A c \in Block : \A i \in DOMAIN heap[c].elems :
        heap[c].elems[i] \in Block => heap[heap[c].elems[i]].kind = "matrix"
  BY DEF VInv, Sane, Linked
<1> QED BY <1>1, <1>2

(* The block a write goes to is the writer's. *)
LEMMA TargetIsMine ==
  ASSUME VInv, Lone, NEW x \in Var, NEW b, NEW t, Moves(x, b, t)
  PROVE  /\ \A y \in Var \ {x} : ref[y] # t
         /\ \A c \in Block : \A i \in DOMAIN heap[c].elems : heap[c].elems[i] # t
         /\ t = b \/ (Shared(heap, b) /\ heap[t].kind = "free")
         /\ Outside(heap, b) >= 1 /\ heap[b].kind # "free"
<1>1. b = ref[x] /\ b \in Block /\ t = Target(heap, b) /\ t \in Block /\ FreeBlocks(heap) # {}
  BY DEF Moves
<1>2. Sane(heap) /\ Outside(heap, b) >= 1 /\ heap[b].kind # "free"
  BY <1>1, VarHolds DEF VInv
<1>3. CASE Shared(heap, b)
  <2>1. t = Fresh(heap) /\ heap[t] = FREE
    BY <1>1, <1>3 DEF Target, Fresh, FreeBlocks
  <2>2. heap[t].kind = "free"
    BY <2>1 DEF FREE
  <2> QED BY <1>1, <1>2, <1>3, <2>2, FreeIsNobodys
<1>4. CASE ~Shared(heap, b)
  <2>1. t = b
    BY <1>1, <1>4 DEF Target
  <2> QED BY <1>1, <1>2, <1>4, <2>1, UnsharedIsMine
<1> QED BY <1>3, <1>4

(* What a variable holds is in use, after a step as before it. *)
LEMMA HeldIsInUse == VInv => \A x \in Var : ref[x] \in Block => heap[ref[x]].kind # "free"
BY VarHolds

LEMMA HeldIsInUseNext == VInv' => \A x \in Var : ref'[x] \in Block => heap'[ref'[x]].kind # "free"
<1>1. (VInv => \A x \in Var : ref[x] \in Block => heap[ref[x]].kind # "free")'
  BY HeldIsInUse, PTL
<1> QED BY <1>1

(* A variable whose block and elements are not written keeps its value. *)
LEMMA OthersKeep ==
  ASSUME VInv, VInv', ignore_cow_pointers' = ignore_cow_pointers, NEW y \in Var, ref'[y] = ref[y],
         NEW W, Alters(heap, heap', W), ref[y] \notin W,
         ref[y] \in Block => \A i \in DOMAIN heap[ref[y]].elems : heap[ref[y]].elems[i] \notin W
  PROVE  Worth(heap', ref'[y]) = Now(y)
<1>1. PICK v, k : v = ref[y] /\ k = heap'
  OBVIOUS
<1>2. Shape(k) /\ Linked(k)
  BY <1>1 DEF VInv, Sane, Shape, Linked, IgnoreCoW
<1>3. \A x \in Var : ref'[x] \in Block => heap'[ref'[x]].kind # "free"
  BY HeldIsInUseNext
<1>4. v \in Block => k[v].kind # "free"
  BY <1>1, <1>3
<1>5. v \in Block => k[v].elems = heap[v].elems
  BY <1>1, <1>4 DEF Alters
<1>6. Worth(k, v) = Worth(heap, v)
  BY <1>1, <1>2, <1>4, <1>5, WorthKept
<1> QED BY <1>1, <1>6 DEF Now

-----------------------------------------------------------------------------
(* Statements change the variable they assign. *)

(* A step that rebinds x, and writes what no other variable sees, is one of x. *)
LEMMA OneChanges ==
  ASSUME VInv, Lone, VInv', ignore_cow_pointers' = ignore_cow_pointers, NEW x \in Var, NEW v,
         v \in Block => ~IgnoreCoW(v) \/ v = ref[x], ref' = [ref EXCEPT ![x] = v],
         NEW W, Alters(heap, heap', W),
         \A y \in Var \ {x} :
           /\ ref[y] \notin W
           /\ ref[y] \in Block => \A i \in DOMAIN heap[ref[y]].elems : heap[ref[y]].elems[i] \notin W,
         Semantics!Assigned(x, Worth(heap', v))
  PROVE  Semantics!SemNext /\ Lone'
<1>1. RefType
  BY DEF VInv
<1>2. ref'[x] = v /\ \A y \in Var \ {x} : ref'[y] = ref[y]
  BY <1>1 DEF RefType
<1>3. \A y \in Var \ {x} : Worth(heap', ref'[y]) = Now(y)
  BY <1>1, <1>2, OthersKeep
<1>4. Semantics!SemNext
  BY <1>2, <1>3, StepBy
<1>5. Lone'
  BY <1>1, LoneKept
<1> QED BY <1>4, <1>5

(* A variable takes what somebody holds: nothing is written. *)
LEMMA AssignTakes ==
  ASSUME VInv, Lone, VInv', Unlooped, NEW x \in Var, NEW v \in Number \cup Block \cup {NOTHING},
         v \in Block => ~IgnoreCoW(v) /\ heap[v].kind # "free",
         Assign(x, v), Semantics!Assigned(x, Worth(heap, v))
  PROVE  Semantics!SemNext /\ Lone'
<1>1. PICK h, k, o, W : h = Incr(heap, v) /\ k = heap' /\ o = ref[x] /\ W = {}
  OBVIOUS
<1>2. Sane(heap) /\ RefType /\ (Counted(v) <=> v \in Block)
      /\ k = Drop(h, o) /\ ref' = [ref EXCEPT ![x] = v]
  BY <1>1 DEF VInv, Counted, Assign
<1>3. /\ Sane(h)
      /\ \A d \in Block : Outside(h, d) = Outside(heap, d) + (IF d = v THEN 1 ELSE 0)
      /\ \A d \in Block : h[d].kind = heap[d].kind /\ h[d].elems = heap[d].elems
  BY <1>1, <1>2, IncrSpec
<1>4. Counted(o) => Outside(h, o) >= 1
  <2>1. o \in Block => Outside(heap, o) >= 1 /\ Outside(heap, o) \in Int
    BY <1>1, <1>2, VarHolds
  <2> QED BY <1>3, <2>1 DEF Counted
<1>5. Keeps(h, k) /\ Sane(k)
  BY <1>2, <1>3, <1>4, DropSpec
<1>6. Alters(heap, k, W) /\ Keeps(heap, k)
  BY <1>3, <1>5 DEF Keeps, Alters
<1>7. v \in Block => k[v].kind # "free"
  <2>1. ref'[x] = v
    BY <1>2 DEF RefType
  <2> QED BY <1>1, <2>1, HeldIsInUseNext
<1>8. Worth(k, v) = Worth(heap, v)
  BY <1>5, <1>6, <1>7, WorthSame
<1>9. v \in Block => ~IgnoreCoW(v) \/ v = ref[x]
  OBVIOUS
<1>10. \A y \in Var \ {x} :
         /\ ref[y] \notin W
         /\ ref[y] \in Block => \A i \in DOMAIN heap[ref[y]].elems : heap[ref[y]].elems[i] \notin W
  BY <1>1
<1> QED BY <1>1, <1>2, <1>6, <1>8, <1>9, <1>10, OneChanges DEF Unlooped

LEMMA ClearRefines ==
  ASSUME VInv, Lone, VInv', NEW x \in Var, Clear(x)
  PROVE  Semantics!SemNext /\ Lone'
<1>1. Unlooped /\ Assign(x, NOTHING) /\ NOTHING \notin Block
  BY ScalarsApart DEF Clear
<1>2. Semantics!Assigned(x, Worth(heap, NOTHING))
  BY ScalarWorth, ByNothing
<1> QED BY <1>1, <1>2, AssignTakes

LEMMA CreateNumberRefines ==
  ASSUME VInv, Lone, VInv', NEW x \in Var, NEW n \in Number, CreateNumber(x, n)
  PROVE  Semantics!SemNext /\ Lone'
<1>1. Unlooped /\ Assign(x, n) /\ n \notin Block
  BY ScalarsApart DEF CreateNumber
<1>2. Semantics!Assigned(x, Worth(heap, n))
  BY ScalarWorth, ByNumber
<1> QED BY <1>1, <1>2, AssignTakes

LEMMA CopyRefines ==
  ASSUME Careful, VInv, Lone, VInv', NEW x \in Var, NEW y \in Var, Copy(x, y)
  PROVE  Semantics!SemNext /\ Lone'
<1>1. RefType /\ Unlooped /\ Assign(x, ref[y]) /\ ~IgnoreCoW(ref[y])
  BY DEF VInv, Copy, Sound
<1>2. Semantics!Assigned(x, Worth(heap, ref[y]))
  BY ByCopy DEF Now
<1>3. ref[y] \in Number \cup Block \cup {NOTHING} /\ (ref[y] \in Block => heap[ref[y]].kind # "free")
  BY <1>1, HeldIsInUse DEF RefType
<1> QED BY <1>1, <1>2, <1>3, AssignTakes

LEMMA TakeRefines ==
  ASSUME VInv, Lone, VInv', NEW x \in Var, NEW y \in Var, NEW i \in Slot, Take(x, y, i)
  PROVE  Semantics!SemNext /\ Lone'
<1>1. PICK b, v : b = ref[y] /\ v = heap[b].elems[i]
  OBVIOUS
<1>2. Unlooped /\ Assign(x, v) /\ b \in Block /\ heap[b].kind \in {"cells", "struct"}
  BY <1>1 DEF Take, IsContainer, Is
<1>3. Shape(heap) /\ Linked(heap)
  BY DEF VInv, Sane
<1>4. /\ heap[b].elems \in [Slot -> Number \cup Block]
      /\ Now(y) = [kind |-> heap[b].kind, elems |-> [j \in Slot |-> Bare(heap, heap[b].elems[j])]]
      /\ Bare(heap, heap[b].elems[i]) = Worth(heap, heap[b].elems[i])
      /\ Now(y) \in ContainerValue
  BY <1>1, <1>2, <1>3, ContainerWorth DEF Now
<1>5. Now(y).elems[i] = Worth(heap, v)
  BY <1>1, <1>4
<1>6. v \in Number \cup Block /\ (v \in Block => heap[v].kind = "matrix" /\ ~IgnoreCoW(v))
  BY <1>1, <1>2, <1>3, <1>4 DEF Linked
<1>7. Semantics!Assigned(x, Worth(heap, v))
  <2>1. Semantics!Assigned(x, Now(y).elems[i])
    BY <1>4, ByTake
  <2> QED BY <1>5, <2>1
<1> QED BY <1>2, <1>6, <1>7, AssignTakes

LEMMA CreateRefines ==
  ASSUME VInv, Lone, VInv', NEW x \in Var, NEW kind \in Kind, NEW n \in Number, Create(x, kind, n)
  PROVE  Semantics!SemNext /\ Lone'
<1>1. PICK e, h, t, k, o, W : /\ e = [i \in Index(kind) |-> n] /\ h = Allocate(heap, kind, e)
                              /\ t = Fresh(heap) /\ k = heap' /\ o = ref[x] /\ W = {t}
  OBVIOUS
<1>2. Sane(heap) /\ RefType /\ FreeBlocks(heap) # {} /\ Unlooped
  BY RoomIsFree DEF VInv, Create
<1>3. Fits(heap, kind, e)
  BY <1>1, ValuesAssumption DEF Fits, Block
<1>4. /\ Sane(h) /\ t \in Block /\ ~IgnoreCoW(t) /\ heap[t].kind = "free"
      /\ \A d \in Block : Outside(h, d) = Outside(heap, d) + (IF d = t THEN 1 ELSE 0)
      /\ \A d \in Block : d # t => h[d].kind = heap[d].kind /\ h[d].elems = heap[d].elems
      /\ h[t].kind = kind /\ h[t].elems = e
  BY <1>1, <1>2, <1>3, AllocateSpec
<1>5. k = Drop(h, o) /\ ref' = [ref EXCEPT ![x] = t]
  BY <1>1 DEF Create
<1>6. Counted(o) => Outside(h, o) >= 1
  <2>1. o \in Block => Outside(heap, o) >= 1 /\ Outside(heap, o) \in Int
    BY <1>1, <1>2, VarHolds
  <2> QED BY <1>4, <2>1 DEF Counted
<1>7. Keeps(h, k) /\ Sane(k)
  BY <1>4, <1>5, <1>6, DropSpec
<1>8. Alters(heap, k, W)
  BY <1>1, <1>4, <1>7 DEF Keeps, Alters
<1>9. k[t].kind = kind /\ k[t].elems = e
  <2>1. ref'[x] = t
    BY <1>2, <1>5 DEF RefType
  <2>2. k[t].kind # "free"
    BY <1>1, <1>4, <2>1, HeldIsInUseNext
  <2> QED BY <1>4, <1>7, <2>2 DEF Keeps
<1>10. Worth(k, t) = [kind |-> kind, elems |-> [i \in Index(kind) |-> n]]
  <2>1. [i \in DOMAIN e |-> Bare(k, e[i])] = [i \in Index(kind) |-> n]
    BY <1>1, ScalarWorth
  <2> QED BY <1>4, <1>9, <2>1 DEF Worth
<1>11. Semantics!Assigned(x, Worth(k, t))
  BY <1>10, ByFill
<1>12. \A y \in Var \ {x} :
         /\ ref[y] \notin W
         /\ ref[y] \in Block => \A i \in DOMAIN heap[ref[y]].elems : heap[ref[y]].elems[i] \notin W
  BY <1>1, <1>4, FreeIsNobodys
<1> QED BY <1>1, <1>2, <1>4, <1>5, <1>8, <1>11, <1>12, OneChanges DEF Unlooped

-----------------------------------------------------------------------------
(* Writes. *)

(* e is f with u at i. *)
Puts(e, f, i, u) == e = [f EXCEPT ![i] = u]
(* v is w with u as its element i. *)
PutsElem(v, w, i, u) == v = [w EXCEPT !.elems[i] = u]

(* A number in a matrix. *)
LEMMA MatrixPut ==
  ASSUME NEW h, Sane(h), NEW k, Sane(k), NEW b \in Block, NEW t \in Block, h[b].kind = "matrix",
         NEW j, NEW n, k[t].kind = "matrix", Puts(k[t].elems, h[b].elems, j, n)
  PROVE  /\ Worth(h, b) \in MatrixValue
         /\ PutsElem(Worth(k, t), Worth(h, b), j, n)
<1>1. /\ Worth(h, b) = [kind |-> "matrix", elems |-> h[b].elems]
      /\ Worth(k, t) = [kind |-> "matrix", elems |-> k[t].elems]
      /\ Worth(h, b) \in MatrixValue
  BY MatrixWorth DEF Sane
<1> QED BY <1>1 DEF Puts, PutsElem

(* The element i of a container, of which no other element is written. *)
LEMMA ContainerPut ==
  ASSUME NEW h, Sane(h), NEW k, Sane(k), NEW b \in Block, NEW t \in Block,
         h[b].kind \in {"cells", "struct"}, NEW i \in Slot, NEW u,
         k[t].kind = h[b].kind, Puts(k[t].elems, h[b].elems, i, u),
         NEW W, Alters(h, k, W), \A j \in Slot \ {i} : h[b].elems[j] \notin W
  PROVE  /\ Worth(h, b) \in ContainerValue
         /\ PutsElem(Worth(k, t), Worth(h, b), i, Bare(k, u))
<1>1. /\ Shape(h) /\ Linked(h) /\ Shape(k) /\ Linked(k)
      /\ h[b].elems \in [Slot -> Number \cup Block] /\ k[t].elems \in [Slot -> Number \cup Block]
      /\ Worth(h, b) = [kind |-> h[b].kind, elems |-> [j \in Slot |-> Bare(h, h[b].elems[j])]]
      /\ Worth(k, t) = [kind |-> h[b].kind, elems |-> [j \in Slot |-> Bare(k, k[t].elems[j])]]
      /\ Worth(h, b) \in ContainerValue
  BY ContainerWorth DEF Sane
<1>2. ASSUME NEW j \in Slot \ {i}
      PROVE  Bare(k, k[t].elems[j]) = Bare(h, h[b].elems[j])
  <2>1. k[t].elems[j] = h[b].elems[j]
    BY <1>1 DEF Puts
  <2>2. h[b].elems[j] \in Block => k[h[b].elems[j]].kind = "matrix"
    BY <1>1, <2>1 DEF Linked
  <2> QED BY <2>1, <2>2 DEF Bare, Alters
<1>3. k[t].elems[i] = u
  BY <1>1 DEF Puts
<1>4. [j \in Slot |-> Bare(k, k[t].elems[j])]
        = [[j \in Slot |-> Bare(h, h[b].elems[j])] EXCEPT ![i] = Bare(k, u)]
  BY <1>2, <1>3
<1> QED BY <1>1, <1>4 DEF PutsElem

(* What is put into the block t keeps its value. *)
LEMMA PutIsWorth ==
  ASSUME Sane(heap), NEW k, Sane(k), NEW t \in Block, NEW i \in DOMAIN k[t].elems, NEW v,
         k[t].elems[i] = v, Alters(heap, k, {t}),
         v \in Number \/ (v \in Block /\ heap[v].kind = "matrix" /\ v # t /\ \E y \in Var : ref[y] = v)
  PROVE  Bare(k, v) \in Number \/ (Bare(k, v) \in MatrixValue /\ \E y \in Var : Bare(k, v) = Now(y))
<1>1. CASE v \in Number
  BY <1>1, ScalarWorth
<1>2. CASE v \in Block /\ heap[v].kind = "matrix" /\ v # t /\ \E y \in Var : ref[y] = v
  <2>1. k[v].kind = "matrix"
    BY <1>2 DEF Sane, Linked
  <2>2. Bare(k, v) = Bare(heap, v)
    BY <1>2, <2>1 DEF Alters, Bare
  <2>3. Bare(heap, v) \in MatrixValue /\ Bare(heap, v) = Worth(heap, v)
    BY <1>2, MatrixWorth DEF Sane
  <2> QED BY <1>2, <2>2, <2>3 DEF Now
<1> QED BY <1>1, <1>2

LEMMA AssignElementRefines ==
  ASSUME VInv, Lone, VInv', NEW x \in Var, NEW i \in Item, NEW n \in Number, AssignElement(x, i, n)
  PROVE  Semantics!SemNext /\ Lone'
<1>1. PICK b, t : WritesElement(x, b, t, i, n)
  BY AssignElementWrites
<1>2. PICK k, W : k = heap' /\ W = {t}
  OBVIOUS
<1>3. /\ Moves(x, b, t) /\ heap[b].kind = "matrix" /\ k[t].kind = "matrix"
      /\ k[t].elems = [heap[b].elems EXCEPT ![i] = n] /\ Alters(heap, k, W)
  BY <1>1, <1>2 DEF WritesElement
<1>4. /\ Sane(heap) /\ Sane(k) /\ b \in Block /\ t \in Block /\ b = ref[x] /\ Unlooped
      /\ ref' = [ref EXCEPT ![x] = t]
  BY <1>2, <1>3 DEF VInv, Moves
<1>5. Now(x) \in MatrixValue /\ Worth(k, t) = [Now(x) EXCEPT !.elems[i] = n]
  <2>1. /\ Puts(k[t].elems, heap[b].elems, i, n)
        /\ Sane(heap) /\ Sane(k) /\ b \in Block /\ t \in Block
        /\ heap[b].kind = "matrix" /\ k[t].kind = "matrix"
    BY <1>3, <1>4 DEF Puts
  <2>2. Worth(heap, b) \in MatrixValue /\ PutsElem(Worth(k, t), Worth(heap, b), i, n)
    BY <2>1, MatrixPut
  <2>3. Now(x) = Worth(heap, b)
    BY <1>4 DEF Now
  <2> QED BY <2>2, <2>3 DEF PutsElem
<1>6. Semantics!Assigned(x, Worth(k, t))
  BY <1>5, ByPutNumber
<1>7. /\ \A y \in Var \ {x} : ref[y] # t
      /\ \A c \in Block : \A j \in DOMAIN heap[c].elems : heap[c].elems[j] # t
      /\ t = b \/ heap[t].kind = "free"
  BY <1>3, TargetIsMine
<1>8. t \in Block => ~IgnoreCoW(t) \/ t = ref[x]
  BY <1>4, <1>7 DEF Sane, Solvent
<1>9. \A y \in Var \ {x} :
        /\ ref[y] \notin W
        /\ ref[y] \in Block => \A j \in DOMAIN heap[ref[y]].elems : heap[ref[y]].elems[j] \notin W
  BY <1>2, <1>7
<1> QED BY <1>2, <1>3, <1>4, <1>6, <1>8, <1>9, OneChanges DEF Unlooped

(* v goes into an element of a container. *)
LEMMA AssignCellRefines ==
  ASSUME Careful, VInv, Lone, VInv', NEW x \in Var, NEW i \in Slot, NEW v,
         v \in Number \/ \E y \in Var : v = ref[y], AssignCell(x, i, v)
  PROVE  Semantics!SemNext /\ Lone'
<1>1. PICK b, t : WritesCell(x, b, t, i, v)
  BY AssignCellWrites
<1>2. PICK k, W : k = heap' /\ W = {t}
  OBVIOUS
<1>3. /\ Moves(x, b, t) /\ heap[b].kind \in {"cells", "struct"}
      /\ v \in Number \/ (v \in Block /\ heap[v].kind = "matrix" /\ ~IgnoreCoW(v))
      /\ k[t].kind = heap[b].kind /\ k[t].elems = [heap[b].elems EXCEPT ![i] = v]
      /\ Alters(heap, k, W)
  BY <1>1, <1>2 DEF WritesCell
<1>4. /\ Sane(heap) /\ Sane(k) /\ b \in Block /\ t \in Block /\ b = ref[x] /\ Unlooped
      /\ ref' = [ref EXCEPT ![x] = t]
  BY <1>2, <1>3 DEF VInv, Moves
<1>5. /\ \A y \in Var \ {x} : ref[y] # t
      /\ \A c \in Block : \A j \in DOMAIN heap[c].elems : heap[c].elems[j] # t
      /\ t = b \/ heap[t].kind = "free"
  BY <1>3, TargetIsMine
<1>6. Slot = DOMAIN heap[b].elems
  BY <1>3, <1>4, ContainerWorth DEF Sane
<1>7. Now(x) \in ContainerValue /\ Worth(k, t) = [Now(x) EXCEPT !.elems[i] = Bare(k, v)]
  <2>1. \A j \in Slot \ {i} : heap[b].elems[j] \notin W
    BY <1>2, <1>4, <1>5, <1>6
  <2>2. Puts(k[t].elems, heap[b].elems, i, v)
    BY <1>3 DEF Puts
  <2>3. Worth(heap, b) \in ContainerValue /\ PutsElem(Worth(k, t), Worth(heap, b), i, Bare(k, v))
    BY <1>3, <1>4, <2>1, <2>2, ContainerPut
  <2>4. Now(x) = Worth(heap, b)
    BY <1>4 DEF Now
  <2> QED BY <2>3, <2>4 DEF PutsElem
<1>8. Bare(k, v) \in Number \/ (Bare(k, v) \in MatrixValue /\ \E y \in Var : Bare(k, v) = Now(y))
  <2>1. i \in DOMAIN k[t].elems /\ k[t].elems[i] = v
    BY <1>3, <1>6
  <2>2. v \in Number \/ (v \in Block /\ heap[v].kind = "matrix" /\ v # t /\ \E y \in Var : ref[y] = v)
    BY <1>3, <1>5, ScalarsApart
  <2> QED BY <1>2, <1>3, <1>4, <2>1, <2>2, PutIsWorth
<1>9. Semantics!Assigned(x, Worth(k, t))
  BY <1>7, <1>8, ByPut
<1>10. t \in Block => ~IgnoreCoW(t) \/ t = ref[x]
  BY <1>4, <1>5 DEF Sane, Solvent
<1>11. \A y \in Var \ {x} :
         /\ ref[y] \notin W
         /\ ref[y] \in Block => \A j \in DOMAIN heap[ref[y]].elems : heap[ref[y]].elems[j] \notin W
  BY <1>2, <1>5
<1> QED BY <1>2, <1>3, <1>4, <1>9, <1>10, <1>11, OneChanges DEF Unlooped

(* [x.f] = y{:} writes x's block in place, so no other variable may hold it. *)
LEMMA CellExtractionRefines ==
  ASSUME Careful, VInv, Lone, VInv', NEW x \in Var, NEW y \in Var, CellExtraction(x, y)
  PROVE  Semantics!SemNext /\ Lone'
<1>1. PICK b, c : Extracts(x, y, b, c)
  BY CellExtractionWrites
<1>2. PICK k, W : k = heap' /\ W = {b}
  OBVIOUS
<1>3. /\ b = ref[x] /\ c = ref[y]
      /\ b \in Block /\ heap[b].kind = "struct" /\ c \in Block /\ heap[c].kind = "cells"
      /\ Unlooped /\ ref' = ref /\ Sane(k) /\ Sane(heap) /\ RefType
      /\ k[b].kind = "struct" /\ k[b].elems = heap[c].elems /\ Alters(heap, k, W)
  BY <1>1, <1>2 DEF Extracts, VInv
<1>4. heap[b].m_refCount = 1
  BY <1>3 DEF CellExtraction
<1>5. ~Shared(heap, b)
  BY <1>4 DEF Shared
<1>6. /\ \A z \in Var \ {x} : ref[z] # b
      /\ \A d \in Block : \A i \in DOMAIN heap[d].elems : heap[d].elems[i] # b
  BY <1>3, <1>5, UnsharedIsMine
<1>7. /\ heap[c].elems \in [Slot -> Number \cup Block]
      /\ Now(x) \in ContainerValue /\ Now(y) \in ContainerValue
      /\ Now(x).kind = "struct"
      /\ Now(y) = [kind |-> "cells", elems |-> [i \in Slot |-> Bare(heap, heap[c].elems[i])]]
      /\ Worth(k, b) = [kind |-> "struct", elems |-> [i \in Slot |-> Bare(k, heap[c].elems[i])]]
  BY <1>3, ContainerWorth DEF Sane, Now
<1>8. ASSUME NEW i \in Slot PROVE Bare(k, heap[c].elems[i]) = Bare(heap, heap[c].elems[i])
  <2>1. heap[c].elems[i] # b
    BY <1>3, <1>6, <1>7
  <2>2. heap[c].elems[i] \in Block => k[heap[c].elems[i]].kind = "matrix"
    BY <1>3, <1>7 DEF Sane, Linked
  <2> QED BY <1>2, <1>3, <2>1, <2>2 DEF Bare, Alters
<1>9. Worth(k, b) = [Now(x) EXCEPT !.elems = Now(y).elems]
  <2>1. Worth(k, b) = [kind |-> "struct", elems |-> Now(y).elems]
    BY <1>7, <1>8
  <2> QED BY <1>7, <2>1 DEF ContainerValue
<1>10. Semantics!Assigned(x, Worth(k, b))
  BY <1>7, <1>9, ByPutAll
<1>11. ref' = [ref EXCEPT ![x] = b]
  BY <1>3 DEF RefType
<1>12. \A z \in Var \ {x} :
         /\ ref[z] \notin W
         /\ ref[z] \in Block => \A j \in DOMAIN heap[ref[z]].elems : heap[ref[z]].elems[j] \notin W
  BY <1>2, <1>6
<1>13. b \in Block => ~IgnoreCoW(b) \/ b = ref[x]
  BY <1>3
<1> QED BY <1>2, <1>3, <1>10, <1>11, <1>12, <1>13, OneChanges DEF Unlooped

(* Two elements count twice. *)
LEMMA PairCounts ==
  ASSUME NEW p, NEW q, p # q
  PROVE  Cardinality({p, q}) = 2
<1>1. PICK S : S = {p}
  OBVIOUS
<1>2. IsFiniteSet(S) /\ Cardinality(S) = 1 /\ q \notin S
  BY <1>1, FS_Singleton
<1>3. Cardinality(S \cup {q}) = 2
  BY <1>2, FS_AddElement
<1>4. S \cup {q} = {p, q}
  BY <1>1
<1> QED BY <1>3, <1>4

(* The matrix that x{i}(j) = n writes is held by no other element, and no variable. *)
LEMMA InnerIsMine ==
  ASSUME VInv, Lone, NEW x \in Var, NEW i \in Slot, NEW j, NEW n, NEW b, NEW t, NEW m, NEW u,
         WritesInner(x, b, t, i, m, u, j, n)
  PROVE  /\ u # t /\ heap[b].elems[i] = m /\ heap[m].kind = "matrix"
         /\ \A y \in Var : ref[y] # u
         /\ \A c \in Block : \A l \in DOMAIN heap[c].elems :
              heap[c].elems[l] = u => c = b /\ t = b /\ l = i
<1>1. PICK h : h = Own(heap, b)
  OBVIOUS
<1>2. /\ Moves(x, b, t) /\ heap[b].kind \in {"cells", "struct"} /\ m = heap[b].elems[i]
      /\ m \in Block /\ u = Target(h, m) /\ FreeBlocks(h) # {} /\ u \in Block
  BY <1>1 DEF WritesInner
<1>3. /\ b \in Block /\ t \in Block /\ t = Target(heap, b) /\ FreeBlocks(heap) # {}
      /\ Sane(heap) /\ Shape(heap) /\ Linked(heap) /\ RefType
      /\ heap[b] \in Container
  BY <1>2, ShapeFacts DEF Moves, VInv, Sane
<1>4. i \in DOMAIN heap[b].elems /\ heap[m].kind = "matrix" /\ ~IgnoreCoW(m)
  BY <1>2, <1>3 DEF Container, Linked
<1>5. /\ t = b \/ (Shared(heap, b) /\ heap[t].kind = "free")
      /\ Outside(heap, b) >= 1
  BY <1>2, TargetIsMine
<1>6. /\ Sane(h)
      /\ \A d \in Block : Outside(h, d) = Outside(heap, d)
           - (IF d = b THEN 1 ELSE 0) + (IF d = t THEN 1 ELSE 0)
      /\ h[t].kind = heap[b].kind /\ h[t].elems = heap[b].elems
      /\ \A d \in Block \ {t} : h[d].kind = heap[d].kind /\ h[d].elems = heap[d].elems
  BY <1>1, <1>3, <1>5, OwnSpec
<1>7. t # m /\ b # m
  BY <1>2, <1>4, <1>5
<1>8. CASE Shared(h, m)
  <2>1. u = Fresh(h) /\ h[u] = FREE
    BY <1>2, <1>8 DEF Target, Fresh, FreeBlocks
  <2>2. h[u].kind = "free"
    BY <2>1 DEF FREE
  <2>3. u # t /\ heap[u].kind = "free"
    BY <1>2, <1>6, <2>2
  <2> QED BY <1>2, <1>4, <2>3, FreeIsNobodys
<1>9. CASE ~Shared(h, m)
  <2>1. u = m /\ h[m].m_refCount = 1
    BY <1>2, <1>4, <1>9 DEF Target, Shared
  <2>2. PICK E : E = Elements(h, m)
    OBVIOUS
  <2>3. /\ IsFiniteSet(E) /\ Cardinality(E) \in Nat
        /\ 1 = Outside(h, m) + Cardinality(E) /\ Outside(h, m) \in Int /\ Outside(h, m) >= 0
    BY <1>2, <1>6, <2>1, <2>2, OutsideType, ElementsFinite DEF Sane, Solvent
  <2>4. <<t, i>> \in E
    BY <1>2, <1>3, <1>4, <1>6, <2>2 DEF Elements
  <2>5. \A p \in E : p = <<t, i>>
    <3>1. ASSUME NEW p \in E, p # <<t, i>> PROVE FALSE
      <4>1. {<<t, i>>, p} \in SUBSET E
        BY <2>4
      <4>2. Cardinality({<<t, i>>, p}) <= Cardinality(E)
        BY <2>3, <4>1, FS_Subset
      <4>3. Cardinality({<<t, i>>, p}) = 2
        BY <3>1, PairCounts
      <4> QED BY <2>3, <4>2, <4>3
    <3> QED BY <3>1
  <2>6. ASSUME NEW c \in Block, NEW l \in DOMAIN heap[c].elems, heap[c].elems[l] = m
        PROVE  c = b /\ t = b /\ l = i
    <3>1. c # t => <<c, l>> \in E
      <4> SUFFICES ASSUME c # t PROVE <<c, l>> \in E
        OBVIOUS
      <4>1. h[c].elems = heap[c].elems /\ l \in Slot \cup Item
        BY <1>3, <1>6, ElemsFacts
      <4> QED BY <2>2, <2>6, <4>1 DEF Elements
    <3>2. c = t
      <4>1. c # t => <<c, l>> = <<t, i>>
        BY <2>5, <3>1
      <4> QED BY <4>1
    <3>3. t = b
      <4>1. heap[t].kind = "free" => DOMAIN heap[t].elems = {}
        BY <1>3, ShapeFacts
      <4> QED BY <1>5, <3>2, <4>1
    <3>4. <<c, l>> \in E
      <4>1. h[c].elems = heap[c].elems /\ l \in Slot \cup Item
        BY <1>3, <1>6, <3>2, <3>3, ElemsFacts
      <4> QED BY <2>2, <2>6, <4>1 DEF Elements
    <3>5. <<c, l>> = <<t, i>>
      BY <2>5, <3>4
    <3> QED BY <3>2, <3>3, <3>5
  <2>7. ASSUME NEW y \in Var, ref[y] = m PROVE FALSE
    <3>1. Times(ref, m) >= 1 /\ Times(ref, m) \in Nat /\ LoopCount(m) \in Nat
          /\ Outside(heap, m) \in Int /\ Outside(heap, m) >= Times(ref, m) + LoopCount(m)
      BY <1>2, <1>3, <2>7, RefFacts, LoopCountType, VarHolds
    <3>2. Outside(h, m) = Outside(heap, m)
      BY <1>2, <1>6, <1>7, <3>1
    <3>3. Cardinality(E) >= 1
      <4>1. {<<t, i>>} \in SUBSET E
        BY <2>4
      <4>2. Cardinality({<<t, i>>}) <= Cardinality(E) /\ Cardinality({<<t, i>>}) = 1
        BY <2>3, <4>1, FS_Subset, FS_Singleton
      <4> QED BY <4>2
    <3> QED BY <2>3, <3>1, <3>2, <3>3
  <2> QED BY <1>2, <1>4, <1>7, <2>1, <2>6, <2>7
<1> QED BY <1>8, <1>9

LEMMA AssignInnerRefines ==
  ASSUME VInv, Lone, VInv', NEW x \in Var, NEW i \in Slot, NEW j \in Item, NEW n \in Number,
         AssignInner(x, i, j, n)
  PROVE  Semantics!SemNext /\ Lone'
<1>1. PICK b, t, m, u : WritesInner(x, b, t, i, m, u, j, n)
  BY AssignInnerWrites
<1>2. PICK k, W : k = heap' /\ W = {t, u}
  OBVIOUS
<1>3. /\ Moves(x, b, t) /\ heap[b].kind \in {"cells", "struct"} /\ m \in Block /\ u \in Block
      /\ k[t].kind = heap[b].kind /\ k[t].elems = [heap[b].elems EXCEPT ![i] = u]
      /\ k[u].kind = "matrix" /\ k[u].elems = [heap[m].elems EXCEPT ![j] = n]
      /\ Alters(heap, k, W)
  BY <1>1, <1>2 DEF WritesInner
<1>4. /\ Sane(heap) /\ Sane(k) /\ b \in Block /\ t \in Block /\ b = ref[x] /\ Unlooped
      /\ ref' = [ref EXCEPT ![x] = t]
  BY <1>2, <1>3 DEF VInv, Moves
<1>5. /\ \A y \in Var \ {x} : ref[y] # t
      /\ \A c \in Block : \A l \in DOMAIN heap[c].elems : heap[c].elems[l] # t
      /\ t = b \/ heap[t].kind = "free"
  BY <1>3, TargetIsMine
<1>6. /\ u # t /\ heap[b].elems[i] = m /\ heap[m].kind = "matrix"
      /\ \A y \in Var : ref[y] # u
      /\ \A c \in Block : \A l \in DOMAIN heap[c].elems :
           heap[c].elems[l] = u => c = b /\ t = b /\ l = i
  BY <1>1, InnerIsMine
<1>7. Slot = DOMAIN heap[b].elems
  BY <1>3, <1>4, ContainerWorth DEF Sane
<1>8. Now(x) \in ContainerValue /\ Worth(k, t) = [Now(x) EXCEPT !.elems[i] = Bare(k, u)]
  <2>1. \A l \in Slot \ {i} : heap[b].elems[l] \notin W
    BY <1>2, <1>4, <1>5, <1>6, <1>7
  <2>4. Puts(k[t].elems, heap[b].elems, i, u)
    BY <1>3 DEF Puts
  <2>2. Worth(heap, b) \in ContainerValue /\ PutsElem(Worth(k, t), Worth(heap, b), i, Bare(k, u))
    BY <1>3, <1>4, <2>1, <2>4, ContainerPut
  <2>3. Now(x) = Worth(heap, b)
    BY <1>4 DEF Now
  <2> QED BY <2>2, <2>3 DEF PutsElem
<1>9. Now(x).elems[i] \in MatrixValue /\ Bare(k, u) = [Now(x).elems[i] EXCEPT !.elems[j] = n]
  <2>1. Now(x).elems[i] = Bare(heap, m)
    BY <1>3, <1>4, <1>6, ContainerWorth DEF Sane, Now
  <2>2. /\ Bare(heap, m) = [kind |-> "matrix", elems |-> heap[m].elems]
        /\ Bare(heap, m) \in MatrixValue
    BY <1>3, <1>4, <1>6, MatrixWorth DEF Sane
  <2>3. Bare(k, u) = [kind |-> "matrix", elems |-> [heap[m].elems EXCEPT ![j] = n]]
    BY <1>3 DEF Bare
  <2> QED BY <2>1, <2>2, <2>3
<1>10. Worth(k, t) = [Now(x) EXCEPT !.elems[i].elems[j] = n]
  BY <1>8, <1>9
<1>11. Semantics!Assigned(x, Worth(k, t))
  BY <1>8, <1>9, <1>10, ByPutInner
<1>12. t \in Block => ~IgnoreCoW(t) \/ t = ref[x]
  BY <1>4, <1>5 DEF Sane, Solvent
<1>13. \A y \in Var \ {x} :
         /\ ref[y] \notin W
         /\ ref[y] \in Block => \A l \in DOMAIN heap[ref[y]].elems : heap[ref[y]].elems[l] \notin W
  <2> SUFFICES ASSUME NEW y \in Var \ {x}
               PROVE  /\ ref[y] \notin W
                      /\ ref[y] \in Block => \A l \in DOMAIN heap[ref[y]].elems : heap[ref[y]].elems[l] \notin W
    OBVIOUS
  <2>1. ref[y] # t /\ ref[y] # u
    BY <1>5, <1>6
  <2>2. ref[y] \in Block => \A l \in DOMAIN heap[ref[y]].elems :
           heap[ref[y]].elems[l] # t /\ heap[ref[y]].elems[l] # u
    BY <1>5, <1>6, <2>1
  <2> QED BY <1>2, <2>1, <2>2
<1> QED BY <1>2, <1>3, <1>4, <1>11, <1>12, <1>13, OneChanges DEF Unlooped

-----------------------------------------------------------------------------
(* parfor: an iteration writes for the variable whose block is sliced, the rest counts. *)

LEMMA IterateRefines ==
  ASSUME VInv, Lone, VInv', NEW i \in Slot \cup Item, Iterate(i)
  PROVE  Semantics!SemNext /\ Lone'
<1>1. PICK b, w : Iterates(i, b, w)
  BY IterateWrites
<1>2. PICK k, W : k = heap' /\ W = {b}
  OBVIOUS
<1>3. /\ b \in ignore_cow_pointers /\ b \in Block /\ heap[b].kind \in {"matrix", "cells"}
      /\ i \in DOMAIN heap[b].elems /\ \E x \in Var : ref[x] = b
      /\ \/ w \in Number
         \/ w \in Block /\ heap[w].kind = "matrix" /\ heap[b].kind = "cells" /\ \E y \in Var : ref[y] = w
      /\ Sane(k) /\ Sane(heap) /\ RefType
      /\ k[b].kind = heap[b].kind /\ Puts(k[b].elems, heap[b].elems, i, w)
      /\ Alters(heap, k, W) /\ ref' = ref /\ ignore_cow_pointers' = ignore_cow_pointers
  BY <1>1, <1>2 DEF Iterates, VInv, Puts
<1>4. PICK x \in Var : ref[x] = b
  BY <1>3
<1>5. /\ \A y \in Var \ {x} : ref[y] # b
      /\ \A c \in Block : \A l \in DOMAIN heap[c].elems : heap[c].elems[l] # b
  <2>1. ~Shared(heap, b)
    BY <1>3 DEF Shared, IgnoreCoW
  <2> QED BY <1>3, <1>4, <2>1, UnsharedIsMine
<1>6. k[b].elems[i] = w /\ DOMAIN k[b].elems = DOMAIN heap[b].elems
  BY <1>3 DEF Puts
<1>7. Semantics!Assigned(x, Worth(k, b))
  <2>1. CASE heap[b].kind = "matrix"
    <3>1. w \in Number
      BY <1>3, <2>1
    <3>2. PutsElem(Worth(k, b), Worth(heap, b), i, w) /\ Worth(heap, b) \in MatrixValue
      BY <1>3, <2>1, MatrixPut
    <3>3. i \in Item
      BY <1>3, <2>1, MatrixWorth DEF Sane
    <3>4. Now(x) = Worth(heap, b)
      BY <1>4 DEF Now
    <3> QED BY <3>1, <3>2, <3>3, <3>4, ByPutNumber DEF PutsElem
  <2>2. CASE heap[b].kind = "cells"
    <3>1. i \in Slot /\ Slot = DOMAIN heap[b].elems
      BY <1>3, <2>2, ContainerWorth DEF Sane
    <3>2. \A l \in Slot \ {i} : heap[b].elems[l] \notin W
      BY <1>2, <1>3, <1>5, <3>1
    <3>3. PutsElem(Worth(k, b), Worth(heap, b), i, Bare(k, w)) /\ Worth(heap, b) \in ContainerValue
      BY <1>3, <2>2, <3>1, <3>2, ContainerPut
    <3>4. Bare(k, w) \in Number \/ (Bare(k, w) \in MatrixValue /\ \E y \in Var : Bare(k, w) = Now(y))
      <4>1. w \in Number \/ (w \in Block /\ heap[w].kind = "matrix" /\ w # b /\ \E y \in Var : ref[y] = w)
        BY <1>3, <2>2
      <4> QED BY <1>2, <1>3, <1>6, <4>1, PutIsWorth
    <3>5. Now(x) = Worth(heap, b)
      BY <1>4 DEF Now
    <3> QED BY <3>1, <3>3, <3>4, <3>5, ByPut DEF PutsElem
  <2> QED BY <1>3, <2>1, <2>2
<1>8. ref' = [ref EXCEPT ![x] = b]
  BY <1>3, <1>4 DEF RefType
<1>9. \A y \in Var \ {x} :
        /\ ref[y] \notin W
        /\ ref[y] \in Block => \A l \in DOMAIN heap[ref[y]].elems : heap[ref[y]].elems[l] \notin W
  BY <1>2, <1>5
<1>10. b \in Block => ~IgnoreCoW(b) \/ b = ref[x]
  BY <1>4
<1> QED BY <1>2, <1>3, <1>7, <1>8, <1>9, <1>10, OneChanges

(* Counting changes no value. *)
LEMMA CountingStutters ==
  ASSUME ref' = ref,
         \A d \in Block : heap'[d].kind = heap[d].kind /\ heap'[d].elems = heap[d].elems
  PROVE  UNCHANGED [x \in Var |-> ValueOf(ref[x])]
<1>1. PICK k : k = heap'
  OBVIOUS
<1>2. \A v : Bare(k, v) = Bare(heap, v)
  BY <1>1 DEF Bare
<1>3. \A v : Worth(k, v) = Worth(heap, v)
  BY <1>1, <1>2 DEF Worth
<1>4. \A x \in Var : ValueOf(ref[x])' = ValueOf(ref[x])
  BY <1>1, <1>3, ValueIsWorth
<1> QED BY <1>4

LEMMA StartParforStutters ==
  ASSUME Careful, VInv, Lone, NEW x \in Var, NEW y \in Var, StartParfor(x, y)
  PROVE  UNCHANGED [z \in Var |-> ValueOf(ref[z])] /\ Lone'
<1>1. PICK b : b = ref[x]
  OBVIOUS
<1>2. /\ b \in Block /\ ref' = ref /\ ignore_cow_pointers' = ignore_cow_pointers \cup {b}
      /\ heap[b].m_refCount = 1 \/ IgnoreCoW(b)
  BY <1>1 DEF StartParfor, Is
<1>3. Times(ref, b) <= 1
  <2>1. ~Shared(heap, b)
    BY <1>2 DEF Shared
  <2>2. Times(ref, b) = 1
    BY <1>1, <1>2, <2>1, UnsharedIsMine
  <2> QED BY <2>2
<1>4. Lone'
  BY <1>2, <1>3 DEF Lone
<1> QED BY <1>2, <1>4, StartParforCounts, CountingStutters

LEMMA EndParforStutters ==
  ASSUME VInv, Lone, EndParfor
  PROVE  UNCHANGED [z \in Var |-> ValueOf(ref[z])] /\ Lone'
<1>1. ref' = ref /\ ignore_cow_pointers' = {}
  BY DEF EndParfor
<1> QED BY <1>1, EndParforCounts, CountingStutters, LoneSame

(* A step that leaves values, references and ignored blocks alone. *)
LEMMA UnchangedStutters ==
  ASSUME Lone, UNCHANGED <<ref, heap, ignore_cow_pointers>>
  PROVE  UNCHANGED [z \in Var |-> ValueOf(ref[z])] /\ Lone'
BY CountingStutters, LoneSame

-----------------------------------------------------------------------------
(* The refinement. *)

(* At first nothing is assigned and nothing sliced. *)
LEMMA SemanticsBegin == ValuesInit => Semantics!SemInit /\ Lone
<1> SUFFICES ASSUME ValuesInit PROVE Semantics!SemInit /\ Lone
  OBVIOUS
<1>1. /\ ref = [x \in Var |-> NOTHING] /\ ignore_cow_pointers = {}
  BY DEF ValuesInit
<1>2. \A x \in Var : ValueOf(ref[x]) = NOTHING
  BY <1>1, ScalarsApart DEF ValueOf
<1> QED BY <1>1, <1>2 DEF Semantics!SemInit, Lone

(* Every step is one of the abstract specification, or none. *)
LEMMA StepRefines ==
  ASSUME Careful
  PROVE  VInv /\ Lone /\ [ValuesNext]_valueVars
           => Lone' /\ [Semantics!SemNext]_([x \in Var |-> ValueOf(ref[x])])
<1> SUFFICES ASSUME VInv, Lone, [ValuesNext]_valueVars
             PROVE  Lone' /\ [Semantics!SemNext]_([x \in Var |-> ValueOf(ref[x])])
  OBVIOUS
<1>0. VInv'
  BY StepVInv
<1>1. ASSUME NEW x \in Var, Clear(x) PROVE Semantics!SemNext /\ Lone'
  BY <1>0, <1>1, ClearRefines
<1>2. ASSUME NEW x \in Var, NEW n \in Number, CreateNumber(x, n) PROVE Semantics!SemNext /\ Lone'
  BY <1>0, <1>2, CreateNumberRefines
<1>3. ASSUME NEW x \in Var, NEW n \in Number, NEW kind \in Kind, Create(x, kind, n)
      PROVE  Semantics!SemNext /\ Lone'
  BY <1>0, <1>3, CreateRefines
<1>4. ASSUME NEW x \in Var, NEW y \in Var, Copy(x, y) PROVE Semantics!SemNext /\ Lone'
  BY <1>0, <1>4, CopyRefines
<1>5. ASSUME NEW x \in Var, NEW y \in Var, CellExtraction(x, y) PROVE Semantics!SemNext /\ Lone'
  BY <1>0, <1>5, CellExtractionRefines
<1>6. ASSUME NEW x \in Var, NEW y \in Var, StartParfor(x, y)
      PROVE  UNCHANGED [z \in Var |-> ValueOf(ref[z])] /\ Lone'
  BY <1>6, StartParforStutters
<1>7. ASSUME NEW x \in Var, NEW y \in Var, NEW i \in Slot, Take(x, y, i)
      PROVE  Semantics!SemNext /\ Lone'
  BY <1>0, <1>7, TakeRefines
<1>8. ASSUME NEW x \in Var, NEW i \in Slot, NEW v, v \in Number \/ \E y \in Var : v = ref[y],
             AssignCell(x, i, v)
      PROVE  Semantics!SemNext /\ Lone'
  BY <1>0, <1>8, AssignCellRefines
<1>9. ASSUME NEW x \in Var, NEW i \in Item, NEW n \in Number, AssignElement(x, i, n)
      PROVE  Semantics!SemNext /\ Lone'
  BY <1>0, <1>9, AssignElementRefines
<1>10. ASSUME NEW x \in Var, NEW i \in Slot, NEW j \in Item, NEW n \in Number, AssignInner(x, i, j, n)
       PROVE  Semantics!SemNext /\ Lone'
  BY <1>0, <1>10, AssignInnerRefines
<1>11. ASSUME NEW i \in Slot \cup Item, Iterate(i) PROVE Semantics!SemNext /\ Lone'
  BY <1>0, <1>11, IterateRefines
<1>12. ASSUME EndParfor PROVE UNCHANGED [z \in Var |-> ValueOf(ref[z])] /\ Lone'
  BY <1>12, EndParforStutters
<1>13. ASSUME FailParfor \/ UNCHANGED valueVars
       PROVE  UNCHANGED [z \in Var |-> ValueOf(ref[z])] /\ Lone'
  <2>1. UNCHANGED <<ref, heap, ignore_cow_pointers>>
    BY <1>13 DEF FailParfor, valueVars
  <2> QED BY <2>1, UnchangedStutters
<1> QED
  BY <1>1, <1>2, <1>3, <1>4, <1>5, <1>6, <1>7, <1>8, <1>9, <1>10, <1>11, <1>12, <1>13
     DEF ValuesNext

(* Nobody can tell that values share memory: what a careful program sees of its
   variables is what it would see if each held a value of its own (the copies
   that Currency and Evaluator make or leave out). *)
THEOREM ValuesImplementSemantics ==
  ASSUME Careful
  PROVE  ValuesSpec => ImplementsSemantics
<1>1. ValuesInit => Semantics!SemInit /\ Lone
  BY SemanticsBegin
<1>2. VInv /\ Lone /\ [ValuesNext]_valueVars
        => Lone' /\ [Semantics!SemNext]_([x \in Var |-> ValueOf(ref[x])])
  BY StepRefines
<1> QED
  BY <1>1, <1>2, ValuesInvariant, PTL DEF ValuesSpec, ImplementsSemantics, Semantics!SemSpec

(* An abstract step is one variable's. *)
LEMMA SemanticsChangesOne ==
  Semantics!SemNext =>
    \A x, y \in Var : x # y =>
       ValueOf(ref[x])' = ValueOf(ref[x]) \/ ValueOf(ref[y])' = ValueOf(ref[y])
<1> DEFINE old == [z \in Var |-> ValueOf(ref[z])]
           new == [z \in Var |-> ValueOf(ref[z])']
<1> SUFFICES ASSUME Semantics!SemNext, NEW x \in Var, NEW y \in Var, x # y
             PROVE  new[x] = old[x] \/ new[y] = old[y]
  OBVIOUS
<1>1. PICK z \in Var : new = [old EXCEPT ![z] = new[z]]
  BY DEF Semantics!SemNext
<1> QED BY <1>1

(* A statement of a careful program changes the value of one variable at most,
   which programs that alias what a parfor loop slices do not have. *)
THEOREM OneVariableChanges ==
  ASSUME Careful
  PROVE  ValuesSpec => ChangesOne
<1>1. VInv /\ Lone /\ [ValuesNext]_valueVars
        => Lone' /\ [\A x, y \in Var : x # y =>
             ValueOf(ref[x])' = ValueOf(ref[x]) \/ ValueOf(ref[y])' = ValueOf(ref[y])]_valueVars
  <2>1. UNCHANGED [x \in Var |-> ValueOf(ref[x])] =>
          \A x \in Var : ValueOf(ref[x])' = ValueOf(ref[x])
    <3> DEFINE old == [x \in Var |-> ValueOf(ref[x])]
               new == [x \in Var |-> ValueOf(ref[x])']
    <3>1. new = old => \A x \in Var : new[x] = old[x]
      OBVIOUS
    <3> QED BY <3>1
  <2> QED BY <2>1, StepRefines, SemanticsChangesOne
<1> QED
  BY <1>1, SemanticsBegin, ValuesInvariant, PTL DEF ValuesSpec, ChangesOne
=============================================================================
