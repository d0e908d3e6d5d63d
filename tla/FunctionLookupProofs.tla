------------------------ MODULE FunctionLookupProofs ------------------------
(* Theorems about FunctionLookup, for every set of names, directories and    *)
(* files: its types, that a remembered negative is true, that lookups through *)
(* the caches find what a search of the disk finds, and that locks hold.     *)
(* The invariant adds to the types that the directories of DefaultPath have  *)
(* been read, since restorepath puts them back without reading them.         *)
EXTENDS FunctionLookup, TLAPS, WellFoundedInduction, SequenceTheorems

DirsTyped ==
  /\ disk \in [Dirs -> SUBSET Files] /\ edits \in 0 .. MaxEdits
  /\ cwd \in Dirs

PathsTyped ==
  /\ paths \in Seq(Dirs)
  /\ \A i, j \in DOMAIN paths : paths[i] = paths[j] => i = j

CacheTyped ==
  /\ cached_path_contents \in [Dirs -> {None} \cup SUBSET Files]
  /\ \A i \in DOMAIN paths : cached_path_contents[paths[i]] # None

DefaultRead == \A i \in DOMAIN DefaultPath : cached_path_contents[DefaultPath[i]] # None

NegativesTyped ==
  /\ not_found_functions # {} => cached_path_contents[cwd] # None
  /\ misjudged \subseteq not_found_functions /\ not_found_functions \subseteq Names

Function == [file : Place \cup {None}, locked : BOOLEAN]
FunctionsTyped ==
  /\ functions \in [Names -> Function \cup {None}]
  /\ later \subseteq Names

Frame == [fn : Names \cup {None}, file : Place \cup {None}]
StackTyped == stack \in Seq(Frame) /\ stack # <<>> /\ stack[1].fn = None

Inv == /\ DirsTyped /\ PathsTyped /\ CacheTyped /\ DefaultRead /\ NegativesTyped
       /\ FunctionsTyped /\ StackTyped
       /\ NotFoundIsAbsent

-----------------------------------------------------------------------------
(* What a search sees. *)

LEMMA NoneIsNoFiles == \A S \in SUBSET Files : None # S
BY LookupAssumption

LEMMA NoneIsNoPlace == None \notin Place
BY LookupAssumption DEF Place

LEMMA SearchTyped ==
  ASSUME DirsTyped, PathsTyped
  PROVE  Search \in Seq(Dirs) /\ DOMAIN Search \subseteq Nat
<1>1. <<cwd>> \in Seq(Dirs) /\ paths \in Seq(Dirs)
  BY DEF DirsTyped, PathsTyped
<1>2. Search \in Seq(Dirs)
  BY <1>1 DEF Search
<1>3. DOMAIN Search = 1 .. Len(Search) /\ Len(Search) \in Nat
  BY <1>2
<1> QED
  BY <1>2, <1>3

\* The directories a search goes through are the working directory and the path's.
LEMMA SearchDirs ==
  ASSUME DirsTyped, PathsTyped, NEW i \in DOMAIN Search
  PROVE  Search[i] = cwd \/ \E j \in DOMAIN paths : Search[i] = paths[j]
<1>1. <<cwd>> \in Seq(Dirs) /\ paths \in Seq(Dirs)
  BY DEF DirsTyped, PathsTyped
<1>2. Len(<<cwd>>) = 1 /\ <<cwd>>[1] = cwd
  OBVIOUS
<1>3. i \in 1 .. (1 + Len(paths))
  BY <1>1, <1>2 DEF Search
<1>4. CASE i = 1
  BY <1>1, <1>2, <1>4 DEF Search
<1>5. CASE i # 1
  <2>1. i - 1 \in DOMAIN paths /\ Search[i] = paths[i - 1]
    BY <1>1, <1>2, <1>3, <1>5 DEF Search
  <2> QED
    BY <2>1
<1> QED
  BY <1>4, <1>5

\* A search that reads the working directory for the first time changes nothing else.
LEMMA ContentsTyped ==
  ASSUME DirsTyped, CacheTyped
  PROVE  /\ Contents \in [Dirs -> {None} \cup SUBSET Files]
         /\ Contents[cwd] # None
         /\ \A d \in Dirs : cached_path_contents[d] # None => Contents[d] = cached_path_contents[d]
BY NoneIsNoFiles DEF DirsTyped, CacheTyped, Contents

\* Once the working directory has been read, a search reads nothing.
LEMMA ContentsKept ==
  ASSUME cached_path_contents[cwd] # None PROVE Contents = cached_path_contents
BY DEF Contents

LEMMA HasFirst ==
  ASSUME NEW T, T \subseteq Nat, T # {}
  PROVE  \E i \in T : \A j \in T : i <= j
<1>1. \E i \in T : \A j \in T : ~ (<<j, i>> \in OpToRel(<, Nat))
  BY WFMin, NatLessThanWellFounded, Zenon
<1>2. PICK i \in T : \A j \in T : ~ (<<j, i>> \in OpToRel(<, Nat))
  BY <1>1
<1>3. ASSUME NEW j \in T PROVE ~ (j < i)
  <2>1. i \in Nat /\ j \in Nat
    OBVIOUS
  <2> QED
    BY <1>2, <2>1, Zenon DEF OpToRel
<1>4. \A j \in T : i <= j
  BY <1>3
<1> QED
  BY <1>4

LEMMA FindFileTyped ==
  ASSUME DirsTyped, PathsTyped, NEW kind \in Kinds, NEW n \in Names
  PROVE  /\ FindFileInPath(kind, n) \in Place \cup {None}
         /\ FindFileInPath(kind, n) = None => Hits(kind, n) = {}
<1>1. CASE Hits(kind, n) = {}
  BY <1>1 DEF FindFileInPath
<1>2. CASE Hits(kind, n) # {}
  <2> DEFINE first == CHOOSE i \in Hits(kind, n) : \A j \in Hits(kind, n) : i <= j
  <2>1. Hits(kind, n) \subseteq DOMAIN Search
    BY DEF Hits
  <2>2. Hits(kind, n) \subseteq Nat
    BY <2>1, SearchTyped
  <2>3. \E i \in Hits(kind, n) : \A j \in Hits(kind, n) : i <= j
    BY <1>2, <2>2, HasFirst
  <2>4. first \in Hits(kind, n)
    BY <2>3
  <2>5. Search[first] \in Dirs
    <3> HIDE DEF first
    <3> QED
      BY <2>1, <2>4, SearchTyped
  <2>6. FindFileInPath(kind, n) = <<Search[first], kind, n>>
    BY <1>2 DEF FindFileInPath
  <2>7. FindFileInPath(kind, n) \in Place
    <3> HIDE DEF first
    <3> QED
      BY <2>5, <2>6 DEF Place
  <2> QED
    BY <2>7, NoneIsNoPlace
<1> QED
  BY <1>1, <1>2

\* Every search returns a place, and a name that none of the four finds and that is
\* not remembered is listed nowhere.
LEMMA FindersTyped ==
  ASSUME DirsTyped, PathsTyped, NEW n \in Names
  PROVE  /\ FindFunction(n) \in Place \cup {None}
         /\ FindPrecompiledFunction(n) \in Place \cup {None}
         /\ FindEncryptedFunction(n) \in Place \cup {None}
         /\ Source(n) \in Place \cup {None}
         /\ /\ n \notin not_found_functions /\ FindFunction(n) = None
            /\ FindPrecompiledFunction(n) = None /\ FindEncryptedFunction(n) = None
            => ~Listed(n)
<1>1. /\ "oml" \in Kinds /\ "m" \in Kinds /\ "omlp" \in Kinds /\ "enc" \in Kinds
      /\ \A kind \in Kinds : kind \in {"oml", "m", "omlp", "enc"}
  BY DEF Kinds
<1>2. \A kind \in Kinds : /\ FindFileInPath(kind, n) \in Place \cup {None}
                          /\ FindFileInPath(kind, n) = None => Hits(kind, n) = {}
  BY FindFileTyped
<1>3. /\ FindFunction(n) \in Place \cup {None}
      /\ FindPrecompiledFunction(n) \in Place \cup {None}
      /\ FindEncryptedFunction(n) \in Place \cup {None}
  BY <1>1, <1>2 DEF FindFunction, FindPrecompiledFunction, FindEncryptedFunction
<1>4. Source(n) \in Place \cup {None}
  BY <1>3 DEF Source
<1>5. ASSUME n \notin not_found_functions, FindFunction(n) = None,
             FindPrecompiledFunction(n) = None, FindEncryptedFunction(n) = None
      PROVE  ~Listed(n)
  <2>1. /\ FindFileInPath("oml", n) = None /\ FindFileInPath("m", n) = None
        /\ FindFileInPath("omlp", n) = None /\ FindFileInPath("enc", n) = None
    BY <1>5 DEF FindFunction, FindPrecompiledFunction, FindEncryptedFunction
  <2> QED
    BY <1>1, <1>2, <2>1 DEF Listed
<1> QED
  BY <1>3, <1>4, <1>5

-----------------------------------------------------------------------------
(* What calls and lookups may do.  One changes a function only if it was not *)
(* loaded, and a name becomes a negative only if it was searched for in vain *)
(* or is judged wrongly.                                                     *)

Defined(n) == \E place \in Place \cup {None} : Define(n, place)
Entered == \E frame \in Frame : stack' = Append(stack, frame)

LookupEffect(n) ==
  /\ UNCHANGED <<disk, edits, cwd, paths, later>>
  /\ functions' = functions \/ (functions[n] = None /\ Defined(n))
  /\ stack' = stack \/ Entered
  /\ \/ UNCHANGED <<not_found_functions, misjudged>>
        /\ cached_path_contents' \in {cached_path_contents, Contents}
     \/ /\ cached_path_contents' = Contents
        /\ not_found_functions' = not_found_functions \cup {n}
        /\ \/ misjudged' = misjudged \cup {n}
           \/ misjudged' = misjudged /\ (n \in not_found_functions \/ ~Listed(n))

LEMMA NotFoundEffect ==
  ASSUME Inv, NEW n \in Names, NEW wrongly \in BOOLEAN, NotFound(n, wrongly),
         ~wrongly => n \in not_found_functions \/ ~Listed(n)
  PROVE  LookupEffect(n)
<1>1. CASE wrongly
  BY <1>1 DEF NotFound, Searched, files, LookupEffect
<1>2. CASE ~wrongly
  BY <1>2 DEF NotFound, Searched, files, LookupEffect
<1> QED
  BY <1>1, <1>2

LEMMA EnterEffect ==
  ASSUME NEW fn \in Names \cup {None}, NEW place \in Place \cup {None}, Enter(fn, place)
  PROVE  Entered
<1>1. [fn |-> fn, file |-> place] \in Frame
  BY DEF Frame
<1> QED
  BY <1>1 DEF Enter, Entered

\* The places a frame or a loaded function may have.
LEMMA PlacesKnown ==
  ASSUME Inv, NEW n \in Names
  PROVE  /\ functions[n] # None => functions[n].file \in Place \cup {None}
         /\ stack[1].file \in Place \cup {None} /\ Here \in Place \cup {None}
<1>1. functions[n] # None => functions[n].file \in Place \cup {None}
  BY DEF Inv, FunctionsTyped, Function
<1>2. stack \in Seq(Frame) /\ Len(stack) \in Nat /\ Len(stack) >= 1
  BY DEF Inv, StackTyped
<1>3. stack[1] \in Frame /\ stack[Len(stack)] \in Frame
  BY <1>2
<1> QED
  BY <1>1, <1>3 DEF Frame, Here

LEMMA CallEffect ==
  ASSUME Inv, NEW n \in Names, Call(n) PROVE LookupEffect(n)
<1>1. /\ FindFunction(n) \in Place \cup {None}
      /\ FindPrecompiledFunction(n) \in Place \cup {None}
      /\ FindEncryptedFunction(n) \in Place \cup {None}
      /\ Source(n) \in Place \cup {None}
  BY FindersTyped DEF Inv
<1>2. CASE CallLoaded(n)
  <2>1. Entered
    BY <1>2, EnterEffect, PlacesKnown DEF CallLoaded
  <2> QED
    BY <1>2, <2>1 DEF CallLoaded, LookupEffect, files, caches
<1>3. CASE CallLater(n)
  <2>1. Entered /\ Defined(n)
    BY <1>3, EnterEffect, PlacesKnown DEF CallLater, Defined
  <2> QED
    BY <1>3, <2>1 DEF CallLater, LookupEffect, files, caches
<1>4. CASE CallPrecompiled(n)
  <2>1. Entered /\ Defined(n)
    BY <1>1, <1>4, EnterEffect DEF CallPrecompiled, Defined
  <2>9. functions[n] = None
    BY <1>4 DEF CallPrecompiled, Unloaded
  <2> QED
    BY <1>4, <2>9, <2>1 DEF CallPrecompiled, Searched, Found, LookupEffect, files
<1>5. CASE CallScript(n)
  <2>1. stack' = stack \/ Entered
    BY <1>1, <1>5, EnterEffect DEF CallScript
  <2> QED
    BY <1>5, <2>1 DEF CallScript, Searched, Found, LookupEffect, files
<1>6. CASE CallFile(n)
  <2>1. stack' = stack \/ Entered
    BY <1>1, <1>6, EnterEffect DEF CallFile
  <2>2. functions' = functions \/ Defined(n)
    BY <1>1, <1>6 DEF CallFile, Load, Defined
  <2>9. functions[n] = None
    BY <1>6 DEF CallFile, Unloaded
  <2> QED
    BY <1>6, <2>9, <2>1, <2>2 DEF CallFile, Searched, Found, LookupEffect, files
<1>7. CASE CallEncrypted(n)
  <2>1. Entered /\ Defined(n)
    BY <1>1, <1>7, EnterEffect DEF CallEncrypted, Defined
  <2>9. functions[n] = None
    BY <1>7 DEF CallEncrypted, Unloaded
  <2> QED
    BY <1>7, <2>9, <2>1 DEF CallEncrypted, Searched, Found, LookupEffect, files
<1>8. CASE CallUnfound(n)
  <2>1. NotFound(n, FindFunction(n) # None)
    BY <1>8 DEF CallUnfound
  <2>2. FindFunction(n) = None => n \in not_found_functions \/ ~Listed(n)
    BY <1>8, FindersTyped DEF CallUnfound, Inv
  <2> QED
    BY <2>1, <2>2, NotFoundEffect
<1> QED
  BY <1>2, <1>3, <1>4, <1>5, <1>6, <1>7, <1>8 DEF Call

LEMMA LookUpEffect ==
  ASSUME Inv, NEW n \in Names, LookUp(n) PROVE LookupEffect(n)
<1>1. /\ FindFunction(n) \in Place \cup {None}
      /\ FindEncryptedFunction(n) \in Place \cup {None}
  BY FindersTyped DEF Inv
<1>2. CASE LookUpFile(n)
  <2>1. functions' = functions \/ Defined(n)
    BY <1>1, <1>2 DEF LookUpFile, Load, Defined
  <2> QED
    BY <1>2, <2>1 DEF LookUpFile, Searched, Found, LookupEffect, files
<1>3. CASE LookUpLater(n)
  <2>1. Defined(n)
    BY <1>3, PlacesKnown DEF LookUpLater, Defined
  <2> QED
    BY <1>3, <2>1 DEF LookUpLater, Searched, Found, LookupEffect, files
<1>4. CASE LookUpEncrypted(n)
  <2>1. Defined(n)
    BY <1>1, <1>4 DEF LookUpEncrypted, Defined
  <2>9. functions[n] = None
    BY <1>4 DEF LookUpEncrypted, Unloaded
  <2> QED
    BY <1>4, <2>9, <2>1 DEF LookUpEncrypted, Searched, Found, LookupEffect, files
<1>5. CASE LookUpUnfound(n)
  <2>1. NotFound(n, FindPrecompiledFunction(n) # None)
    BY <1>5 DEF LookUpUnfound
  <2>2. FindPrecompiledFunction(n) = None => n \in not_found_functions \/ ~Listed(n)
    BY <1>5, FindersTyped DEF LookUpUnfound, Inv
  <2> QED
    BY <2>1, <2>2, NotFoundEffect
<1> QED
  BY <1>2, <1>3, <1>4, <1>5 DEF LookUp

-----------------------------------------------------------------------------
(* The invariant has a part about searches and one about programs; most      *)
(* actions leave one of them alone.                                          *)

SearchInv == DirsTyped /\ PathsTyped /\ CacheTyped /\ DefaultRead /\ NegativesTyped
             /\ NotFoundIsAbsent
ProgramInv == FunctionsTyped /\ StackTyped

LEMMA SearchKept ==
  ASSUME Inv, UNCHANGED <<disk, edits, cwd, paths, caches>> PROVE SearchInv'
BY DEF Inv, SearchInv, caches, DirsTyped, PathsTyped, CacheTyped, DefaultRead, NegativesTyped,
       NotFoundIsAbsent, Listed, Hits, Contents, Search

LEMMA ProgramKept ==
  ASSUME Inv, UNCHANGED <<functions, later, stack>> PROVE ProgramInv'
BY DEF Inv, ProgramInv, FunctionsTyped, StackTyped

LEMMA BothParts == SearchInv /\ ProgramInv <=> Inv
BY DEF SearchInv, ProgramInv, Inv

\* A search that reads the working directory does not change what searches see.
LEMMA ListedKept ==
  ASSUME Inv, UNCHANGED <<disk, cwd, paths>>,
         cached_path_contents' \in {cached_path_contents, Contents}, NEW n
  PROVE  Listed(n)' <=> Listed(n)
<1>1. Contents' = Contents
  <2>1. CASE cached_path_contents' = cached_path_contents
    BY <2>1 DEF Contents
  <2>2. CASE cached_path_contents' = Contents
    BY <2>2, ContentsTyped DEF Contents, Inv
  <2> QED
    BY <2>1, <2>2
<1> QED
  BY <1>1 DEF Listed, Hits, Search

LEMMA FrameAdded ==
  ASSUME StackTyped, Entered PROVE StackTyped'
<1>1. PICK frame \in Frame : stack' = Append(stack, frame)
  BY DEF Entered
<1>2. Len(stack) \in Nat /\ Len(stack) >= 1 /\ stack \in Seq(Frame)
  BY DEF StackTyped
<1>3. stack' \in Seq(Frame) /\ Len(stack') = Len(stack) + 1 /\ stack'[1] = stack[1]
  BY <1>1, <1>2
<1> QED
  BY <1>2, <1>3 DEF StackTyped

LEMMA FunctionDefined ==
  ASSUME FunctionsTyped, NEW n \in Names, Defined(n)
  PROVE  functions' \in [Names -> Function \cup {None}]
<1>1. PICK place \in Place \cup {None} :
        functions' = [functions EXCEPT ![n] = [file |-> place, locked |-> FALSE]]
  BY DEF Defined, Define
<1>2. [file |-> place, locked |-> FALSE] \in Function
  BY DEF Function
<1> QED
  BY <1>1, <1>2 DEF FunctionsTyped

LEMMA LookupStep ==
  ASSUME Inv, NEW n \in Names, LookupEffect(n) PROVE Inv'
<1> USE DEF LookupEffect
<1>1. /\ DirsTyped /\ PathsTyped /\ CacheTyped /\ DefaultRead /\ NegativesTyped
      /\ FunctionsTyped /\ StackTyped /\ NotFoundIsAbsent
  BY DEF Inv
<1>2. cached_path_contents' \in {cached_path_contents, Contents}
  OBVIOUS
<1>3. /\ cached_path_contents' \in [Dirs -> {None} \cup SUBSET Files]
      /\ \A d \in Dirs : cached_path_contents[d] # None => cached_path_contents'[d] # None
  BY <1>1, <1>2, ContentsTyped DEF CacheTyped
<1>4. DirsTyped' /\ PathsTyped'
  BY <1>1 DEF DirsTyped, PathsTyped
<1>5. CacheTyped'
  <2>1. \A i \in DOMAIN paths : paths[i] \in Dirs
    BY <1>1 DEF PathsTyped
  <2> QED
    BY <1>1, <1>3, <2>1 DEF CacheTyped
<1>6. DefaultRead'
  <2>1. \A i \in DOMAIN DefaultPath : DefaultPath[i] \in Dirs
    BY LookupAssumption
  <2> QED
    BY <1>1, <1>3, <2>1 DEF DefaultRead
<1>7. NegativesTyped'
  <2>1. not_found_functions' # not_found_functions => cached_path_contents'[cwd] # None
    BY <1>1, ContentsTyped
  <2>2. not_found_functions # {} => cached_path_contents'[cwd] # None
    BY <1>1, <1>3 DEF NegativesTyped, DirsTyped
  <2>3. misjudged' \subseteq not_found_functions' /\ not_found_functions' \subseteq Names
    BY <1>1 DEF NegativesTyped
  <2> QED
    BY <2>1, <2>2, <2>3 DEF NegativesTyped
<1>8. NotFoundIsAbsent'
  <2> SUFFICES ASSUME NEW m \in not_found_functions' \ misjudged' PROVE ~Listed(m)'
    BY DEF NotFoundIsAbsent
  <2>1. \/ m \in not_found_functions \ misjudged
        \/ m = n /\ ~Listed(n)
    BY <1>1 DEF NegativesTyped
  <2>2. ~Listed(m)
    BY <1>1, <2>1 DEF NotFoundIsAbsent
  <2> QED
    BY <1>2, <2>2, ListedKept
<1>9. FunctionsTyped'
  BY <1>1, FunctionDefined DEF FunctionsTyped
<1>10. StackTyped'
  BY <1>1, FrameAdded DEF StackTyped
<1> QED
  BY <1>4, <1>5, <1>6, <1>7, <1>8, <1>9, <1>10 DEF Inv

-----------------------------------------------------------------------------
(* Commands that change what runs or what is loaded. *)

LEMMA ReturnStep == Inv /\ Return => Inv'
<1> SUFFICES ASSUME Inv, Return PROVE Inv'
  OBVIOUS
<1>1. SearchInv'
  BY SearchKept DEF Return, files
<1>2. FunctionsTyped'
  BY DEF Return, Inv, FunctionsTyped
<1>3. StackTyped'
  <2>1. stack \in Seq(Frame) /\ Len(stack) \in Nat /\ Len(stack) >= 1 /\ Len(stack) # 1
    BY DEF Return, AtBase, Inv, StackTyped
  <2>2. /\ stack' \in Seq(Frame) /\ Len(stack') = Len(stack) - 1
        /\ stack'[1] = stack[1]
    <3>0. \A n \in Nat : n >= 1 /\ n # 1 => 1 \in Int /\ n - 1 \in Int /\ 1 <= n - 1
      OBVIOUS
    <3>1. \A i \in 1 .. Len(stack) - 1 : stack[i] \in Frame
      BY <2>1
    <3>2. /\ stack' \in Seq(Frame) /\ Len(stack') = Len(stack) - 1
          /\ \A i \in 1 .. Len(stack) - 1 : stack'[i] = stack[1 + i - 1]
      <4>1. stack' = SubSeq(stack, 1, Len(stack) - 1)
        BY DEF Return
      <4>2. 1 \in Int /\ Len(stack) - 1 \in Int /\ 1 <= Len(stack) - 1
        BY <2>1, <3>0, Zenon
      <4>3. /\ SubSeq(stack, 1, Len(stack) - 1) \in Seq(Frame)
            /\ Len(SubSeq(stack, 1, Len(stack) - 1)) = Len(stack) - 1 - 1 + 1
            /\ \A i \in 1 .. Len(stack) - 1 - 1 + 1 :
                 SubSeq(stack, 1, Len(stack) - 1)[i] = stack[1 + i - 1]
        BY <3>1, <4>2, SubSeqProperties
      <4>4. Len(stack) - 1 - 1 + 1 = Len(stack) - 1
        BY <2>1
      <4> QED
        BY <4>1, <4>3, <4>4
    <3> QED
      BY <2>1, <3>2
  <2> QED
    BY <2>1, <2>2 DEF Inv, StackTyped
<1> QED
  BY <1>1, <1>2, <1>3 DEF SearchInv, Inv

LEMMA BaseTyped ==
  ASSUME NEW place \in Place \cup {None}, stack' = Base(place) PROVE StackTyped'
<1>1. [fn |-> None, file |-> place] \in Frame
  BY DEF Frame
<1>2. Base(place) \in Seq(Frame) /\ Base(place) # <<>> /\ Base(place)[1].fn = None
  BY <1>1 DEF Base
<1> QED
  BY <1>2 DEF StackTyped

LEMMA CommandStep ==
  ASSUME Inv, NEW defs \in SUBSET (Names \ Scripts),
         \/ DoString(defs)
         \/ \E d \in Dirs, file \in Files : DoFile(<<d>> \o file, defs)
  PROVE  Inv'
<1>1. CASE DoString(defs)
  <2>1. SearchInv'
    BY <1>1, SearchKept DEF DoString, files
  <2>2. FunctionsTyped'
    BY <1>1 DEF DoString, Inv, FunctionsTyped
  <2>3. StackTyped'
    BY <1>1, BaseTyped DEF DoString
  <2> QED
    BY <2>1, <2>2, <2>3 DEF SearchInv, Inv
<1>2. ASSUME NEW d \in Dirs, NEW file \in Files, DoFile(<<d>> \o file, defs) PROVE Inv'
  <2> DEFINE place == <<d>> \o file
  <2>1. place \in Place
    <3>1. PICK kind \in Kinds, n \in Names : file = <<kind, n>>
      BY LookupAssumption
    <3>2. <<d>> \o <<kind, n>> = <<d, kind, n>>
      <4> DEFINE S == Dirs \cup Kinds \cup Names
      <4>1. <<d>> \in Seq(S) /\ <<kind, n>> \in Seq(S) /\ <<d, kind, n>> \in Seq(S)
        OBVIOUS
      <4>2. Len(<<d>>) = 1 /\ Len(<<kind, n>>) = 2 /\ Len(<<d, kind, n>>) = 3
        OBVIOUS
      <4> DEFINE t == <<d>> \o <<kind, n>>
      <4>3. /\ t \in Seq(S) /\ Len(t) = 3
            /\ \A i \in 1 .. 3 : t[i] = IF i <= 1 THEN <<d>>[i] ELSE <<kind, n>>[i - 1]
        BY <4>1, <4>2, ConcatProperties
      <4> HIDE DEF t
      <4>4. t[1] = d /\ t[2] = kind /\ t[3] = n
        BY <4>3
      <4>5. t = <<d, kind, n>>
        BY <4>1, <4>2, <4>3, <4>4
      <4> QED
        BY <4>5 DEF t
    <3> QED
      BY <3>1, <3>2 DEF Place
  <2>2. SearchInv'
    BY <1>2, SearchKept DEF DoFile, files
  <2>3. FunctionsTyped'
    <3> HIDE DEF place
    <3>1. \A n \in Names : functions[n] \in Function \cup {None}
      BY DEF Inv, FunctionsTyped
    <3>2. /\ functions' = [n \in Names |->
             IF functions[n] # None /\ functions[n].file = place THEN None ELSE functions[n]]
          /\ later' = defs
      BY <1>2 DEF DoFile, place
    <3> QED
      BY <3>1, <3>2 DEF FunctionsTyped
  <2>4. StackTyped'
    <3> HIDE DEF place
    <3>1. stack' = Base(place)
      BY <1>2 DEF DoFile, place
    <3> QED
      BY <2>1, <3>1, BaseTyped
  <2> QED
    BY <2>2, <2>3, <2>4 DEF SearchInv, Inv
<1> QED
  BY <1>1, <1>2

LEMMA FunctionDefinitionStep ==
  ASSUME Inv, NEW n \in Names, FunctionDefinition(n) PROVE Inv'
<1>1. SearchInv'
  BY SearchKept DEF FunctionDefinition, files
<1>2. Defined(n)
  BY PlacesKnown DEF FunctionDefinition, Defined
<1>3. FunctionsTyped' /\ StackTyped'
  BY <1>2, FunctionDefined DEF FunctionDefinition, Inv, FunctionsTyped, StackTyped
<1> QED
  BY <1>1, <1>3 DEF SearchInv, Inv

\* mlock, munlock, clear: one function is changed or taken away.
LEMMA LockStep ==
  ASSUME Inv, NEW n \in Names,
         ClearFromFunctions(n) \/ \E state \in BOOLEAN : SetLock(n, state)
  PROVE  Inv'
<1>1. /\ UNCHANGED <<disk, edits, cwd, paths, caches, later, stack>>
      /\ \/ functions' = functions
         \/ functions' = [functions EXCEPT ![n] = None]
         \/ /\ functions[n] # None
            /\ \E state \in BOOLEAN : functions' = [functions EXCEPT ![n].locked = state]
  BY DEF ClearFromFunctions, SetLock, files
<1>2. SearchInv'
  BY <1>1, SearchKept
<1>3. functions \in [Names -> Function \cup {None}]
  BY DEF Inv, FunctionsTyped
<1>4. ASSUME NEW state \in BOOLEAN, functions[n] # None,
             functions' = [functions EXCEPT ![n].locked = state]
      PROVE  functions' \in [Names -> Function \cup {None}]
  <2>1. functions[n] \in Function
    BY <1>3, <1>4
  <2>2. [functions[n] EXCEPT !.locked = state] \in Function
    BY <2>1 DEF Function
  <2> QED
    BY <1>3, <1>4, <2>2
<1>5. FunctionsTyped'
  BY <1>1, <1>3, <1>4 DEF Inv, FunctionsTyped
<1>6. StackTyped'
  BY <1>1 DEF Inv, StackTyped
<1> QED
  BY <1>2, <1>5, <1>6 DEF SearchInv, Inv

LEMMA LockCurrentStep == Inv /\ LockCurrent => \E n \in Names : SetLock(n, TRUE)
<1> SUFFICES ASSUME Inv, LockCurrent PROVE \E n \in Names : SetLock(n, TRUE)
  OBVIOUS
<1>1. PICK i \in DOMAIN stack : stack[i].fn # None /\ SetLock(stack[i].fn, TRUE)
  BY DEF LockCurrent
<1>2. stack[i] \in Frame
  BY DEF Inv, StackTyped
<1>3. stack[i].fn \in Names
  BY <1>1, <1>2 DEF Frame
<1> QED
  BY <1>1, <1>3

LEMMA LockedOnlyTyped ==
  ASSUME FunctionsTyped PROVE LockedOnly(functions) \in [Names -> Function \cup {None}]
BY DEF FunctionsTyped, LockedOnly

-----------------------------------------------------------------------------
(* Commands on the path, rehash, and edits of the files. *)

\* What is left of SearchInv once no name is remembered as not found.
LEMMA ForgottenNames ==
  ASSUME not_found_functions' = {}, misjudged' = {}
  PROVE  NegativesTyped' /\ NotFoundIsAbsent'
BY DEF NegativesTyped, NotFoundIsAbsent

\* The places at which paths may change in an invariant state.
LEMMA PathRead ==
  ASSUME Inv, NEW ds \in Seq(Dirs), \A i, j \in DOMAIN ds : ds[i] = ds[j] => i = j,
         paths' = ds, UNCHANGED <<disk, edits>>, cwd' \in Dirs,
         cached_path_contents' \in [Dirs -> {None} \cup SUBSET Files],
         \A d \in Dirs : cached_path_contents[d] # None => cached_path_contents'[d] # None,
         \A i \in DOMAIN ds : cached_path_contents'[ds[i]] # None
  PROVE  DirsTyped' /\ PathsTyped' /\ CacheTyped' /\ DefaultRead'
<1>1. DirsTyped' /\ PathsTyped' /\ CacheTyped'
  BY DEF Inv, DirsTyped, PathsTyped, CacheTyped
<1>2. \A i \in DOMAIN DefaultPath : DefaultPath[i] \in Dirs
  BY LookupAssumption
<1>3. DefaultRead'
  BY <1>2 DEF Inv, DefaultRead
<1> QED
  BY <1>1, <1>3

LEMMA CacheUpdated ==
  ASSUME Inv, NEW ds \in SUBSET Dirs, UpdatePathCache(ds)
  PROVE  /\ cached_path_contents' \in [Dirs -> {None} \cup SUBSET Files]
         /\ \A d \in Dirs : cached_path_contents[d] # None => cached_path_contents'[d] # None
         /\ \A d \in ds : cached_path_contents'[d] # None
BY NoneIsNoFiles DEF Inv, DirsTyped, CacheTyped, UpdatePathCache

LEMMA DirAdded ==
  ASSUME Inv, NEW d \in Dirs, ~InPaths(d), NEW ds, ds \in {Append(paths, d), <<d>> \o paths}
  PROVE  /\ ds \in Seq(Dirs)
         /\ \A i, j \in DOMAIN ds : ds[i] = ds[j] => i = j
         /\ \A i \in DOMAIN ds : ds[i] = d \/ \E j \in DOMAIN paths : ds[i] = paths[j]
<1>1. /\ paths \in Seq(Dirs) /\ Len(paths) \in Nat /\ DOMAIN paths = 1 .. Len(paths)
      /\ \A i, j \in 1 .. Len(paths) : paths[i] = paths[j] => i = j
      /\ \A i \in 1 .. Len(paths) : paths[i] # d
  BY DEF Inv, PathsTyped, InPaths
<1>2. CASE ds = Append(paths, d)
  <2>1. /\ ds \in Seq(Dirs) /\ Len(ds) = Len(paths) + 1 /\ DOMAIN ds = 1 .. Len(paths) + 1
        /\ ds[Len(paths) + 1] = d
        /\ \A i \in 1 .. Len(paths) : ds[i] = paths[i]
    BY <1>1, <1>2
  <2> QED
    BY <1>1, <2>1
<1>3. CASE ds = <<d>> \o paths
  <2>1. /\ ds \in Seq(Dirs) /\ Len(ds) = 1 + Len(paths)
        /\ \A i \in 1 .. 1 + Len(paths) : ds[i] = IF i <= 1 THEN <<d>>[i] ELSE paths[i - 1]
    <3>1. <<d>> \in Seq(Dirs) /\ Len(<<d>>) = 1
      OBVIOUS
    <3> QED
      BY <1>1, <1>3, <3>1, ConcatProperties
  <2>2. DOMAIN ds = 1 .. 1 + Len(paths) /\ ds[1] = d
    BY <1>1, <2>1
  <2>3. \A i \in 2 .. 1 + Len(paths) : ds[i] = paths[i - 1] /\ i - 1 \in 1 .. Len(paths)
    BY <1>1, <2>1
  <2>4. ASSUME NEW i \in DOMAIN ds, NEW j \in DOMAIN ds, ds[i] = ds[j] PROVE i = j
    <3>1. i = 1 \/ i \in 2 .. 1 + Len(paths)
      BY <1>1, <2>2
    <3>2. j = 1 \/ j \in 2 .. 1 + Len(paths)
      BY <1>1, <2>2
    <3>3. CASE i = 1
      BY <1>1, <2>2, <2>3, <2>4, <3>2, <3>3
    <3>4. CASE j = 1
      BY <1>1, <2>2, <2>3, <2>4, <3>1, <3>4
    <3>5. CASE i \in 2 .. 1 + Len(paths) /\ j \in 2 .. 1 + Len(paths)
      BY <1>1, <2>3, <2>4, <3>5
    <3> QED
      BY <3>1, <3>2, <3>3, <3>4, <3>5
  <2>5. ASSUME NEW i \in DOMAIN ds PROVE ds[i] = d \/ \E j \in DOMAIN paths : ds[i] = paths[j]
    <3>1. i = 1 \/ i \in 2 .. 1 + Len(paths)
      BY <1>1, <2>2
    <3> QED
      BY <1>1, <2>2, <2>3, <3>1
  <2> QED
    BY <2>1, <2>4, <2>5
<1> QED
  BY <1>2, <1>3

LEMMA AddPathStep ==
  ASSUME Inv, NEW d \in Dirs, NEW end \in BOOLEAN, AddPath(d, end) PROVE Inv'
<1>1. NegativesTyped' /\ NotFoundIsAbsent' /\ ProgramInv'
  BY ForgottenNames, ProgramKept DEF AddPath, ResetFuncSearchCache
<1>2. UNCHANGED <<disk, edits>> /\ cwd' \in Dirs /\ cwd' = cwd
  BY DEF AddPath, files, Inv, DirsTyped
<1>3. DirsTyped' /\ PathsTyped' /\ CacheTyped' /\ DefaultRead'
  <2>1. CASE InPaths(d)
    BY <1>2, <2>1 DEF AddPath, Inv, DirsTyped, PathsTyped, CacheTyped, DefaultRead
  <2>2. CASE ~InPaths(d)
    <3>1. paths' \in {Append(paths, d), <<d>> \o paths} /\ UpdatePathCache({d})
      BY <2>2 DEF AddPath
    <3>2. /\ paths' \in Seq(Dirs)
          /\ \A i, j \in DOMAIN paths' : paths'[i] = paths'[j] => i = j
          /\ \A i \in DOMAIN paths' :
               paths'[i] = d \/ \E j \in DOMAIN paths : paths'[i] = paths[j]
      BY <2>2, <3>1, DirAdded
    <3>3. /\ cached_path_contents' \in [Dirs -> {None} \cup SUBSET Files]
          /\ \A e \in Dirs : cached_path_contents[e] # None => cached_path_contents'[e] # None
          /\ cached_path_contents'[d] # None
      BY <3>1, CacheUpdated
    <3>4. \A i \in DOMAIN paths' : cached_path_contents'[paths'[i]] # None
      BY <3>2, <3>3 DEF Inv, PathsTyped, CacheTyped
    <3> QED
      BY <1>2, <3>2, <3>3, <3>4, PathRead
  <2> QED
    BY <2>1, <2>2
<1> QED
  BY <1>1, <1>3 DEF ProgramInv, Inv

LEMMA SetPathStep ==
  ASSUME Inv, NEW ds \in Paths, SetPath(ds) PROVE Inv'
<1>1. NegativesTyped' /\ NotFoundIsAbsent' /\ ProgramInv'
  BY ForgottenNames, ProgramKept DEF SetPath, ResetFuncSearchCache
<1>2. UNCHANGED <<disk, edits>> /\ cwd' \in Dirs
  BY DEF SetPath, files, Inv, DirsTyped
<1>3. ds \in Seq(Dirs) /\ \A i, j \in DOMAIN ds : ds[i] = ds[j] => i = j
  <2>1. CASE ds = <<>>
    BY <2>1
  <2>2. CASE \E d \in Dirs : ds = <<d>>
    BY <2>2
  <2>3. CASE ds \in Dirs \X Dirs /\ ds[1] # ds[2]
    <3>1. PICK d \in Dirs, e \in Dirs : ds = <<d, e>>
      BY <2>3
    <3> QED
      BY <2>3, <3>1
  <2>4. ds = <<>> \/ (\E d \in Dirs : ds = <<d>>) \/ (ds \in Dirs \X Dirs /\ ds[1] # ds[2])
    BY DEF Paths
  <2> QED
    BY <2>1, <2>2, <2>3, <2>4, Zenon
<1>4. {ds[i] : i \in DOMAIN ds} \in SUBSET Dirs /\ UpdatePathCache({ds[i] : i \in DOMAIN ds})
  BY <1>3 DEF SetPath
<1>5. /\ cached_path_contents' \in [Dirs -> {None} \cup SUBSET Files]
      /\ \A d \in Dirs : cached_path_contents[d] # None => cached_path_contents'[d] # None
      /\ \A i \in DOMAIN ds : cached_path_contents'[ds[i]] # None
  BY <1>4, CacheUpdated
<1>6. DirsTyped' /\ PathsTyped' /\ CacheTyped' /\ DefaultRead'
  BY <1>2, <1>3, <1>5, PathRead DEF SetPath
<1> QED
  BY <1>1, <1>6 DEF ProgramInv, Inv

LEMMA RestorePathStep == Inv /\ RestorePath => Inv'
<1> SUFFICES ASSUME Inv, RestorePath PROVE Inv'
  OBVIOUS
<1>1. NegativesTyped' /\ NotFoundIsAbsent' /\ ProgramInv'
  BY ForgottenNames, ProgramKept DEF RestorePath, UseDefaultPath, ResetFuncSearchCache
<1>2. DirsTyped' /\ PathsTyped' /\ CacheTyped' /\ DefaultRead'
  BY LookupAssumption
     DEF RestorePath, UseDefaultPath, files, Inv, DirsTyped, PathsTyped, CacheTyped, DefaultRead
<1> QED
  BY <1>1, <1>2 DEF ProgramInv, Inv

LEMMA ChangeDirStep ==
  ASSUME Inv, NEW d \in Dirs, ChangeDir(d) PROVE Inv'
<1>1. NegativesTyped' /\ NotFoundIsAbsent' /\ ProgramInv'
  BY ForgottenNames, ProgramKept DEF ChangeDir, ResetFuncSearchCache
<1>2. DirsTyped' /\ PathsTyped' /\ CacheTyped' /\ DefaultRead'
  BY DEF ChangeDir, files, Inv, DirsTyped, PathsTyped, CacheTyped, DefaultRead
<1> QED
  BY <1>1, <1>2 DEF ProgramInv, Inv

\* A file that another program writes is not seen: what has been read stays as it was
\* read, and the working directory has been read when a name is remembered.
LEMMA EditStep ==
  ASSUME Inv, NEW d \in Dirs, NEW file \in Files, EditFile(d, file) PROVE Inv'
<1>1. ProgramInv'
  BY ProgramKept DEF EditFile
<1>2. UNCHANGED <<cwd, paths, cached_path_contents, not_found_functions, misjudged>>
  BY DEF EditFile, caches
<1>3. DirsTyped' /\ PathsTyped' /\ CacheTyped' /\ DefaultRead' /\ NegativesTyped'
  <2>1. edits' \in 0 .. MaxEdits
    BY LookupAssumption DEF EditFile, Inv, DirsTyped
  <2>2. disk' \in [Dirs -> SUBSET Files]
    BY DEF EditFile, Inv, DirsTyped
  <2> QED
    BY <1>2, <2>1, <2>2
       DEF Inv, DirsTyped, PathsTyped, CacheTyped, DefaultRead, NegativesTyped
<1>4. NotFoundIsAbsent'
  <2> SUFFICES ASSUME NEW m \in not_found_functions \ misjudged PROVE ~Listed(m)'
    BY <1>2 DEF NotFoundIsAbsent
  <2>1. cached_path_contents[cwd] # None /\ ~Listed(m)
    BY DEF Inv, NegativesTyped, NotFoundIsAbsent
  <2>2. Contents' = Contents
    BY <1>2, <2>1 DEF Contents
  <2> QED
    BY <1>2, <2>1, <2>2 DEF Listed, Hits, Search
<1> QED
  BY <1>1, <1>3, <1>4 DEF ProgramInv, Inv

\* rehash reads everything that has been read again, and gives up the names that have
\* a file now.
LEMMA ClearFunctionsStep == Inv /\ ClearFunctions => Inv'
<1> SUFFICES ASSUME Inv, ClearFunctions PROVE Inv'
  OBVIOUS
<1>1. FunctionsTyped' /\ StackTyped'
  BY LockedOnlyTyped DEF ClearFunctions, Inv, FunctionsTyped, StackTyped
<1>2. /\ cached_path_contents' \in [Dirs -> {None} \cup SUBSET Files]
      /\ \A d \in Dirs : cached_path_contents[d] # None =>
           cached_path_contents'[d] = disk[d] /\ cached_path_contents'[d] # None
  BY NoneIsNoFiles DEF ClearFunctions, Inv, DirsTyped, CacheTyped
<1>3. UNCHANGED <<disk, edits, cwd, paths, not_found_functions>> /\ cwd \in Dirs
  BY DEF ClearFunctions, files, Inv, DirsTyped
<1>4. DirsTyped' /\ PathsTyped' /\ CacheTyped' /\ DefaultRead'
  <2>1. paths' \in Seq(Dirs) /\ \A i, j \in DOMAIN paths' : paths'[i] = paths'[j] => i = j
    BY <1>3 DEF Inv, PathsTyped
  <2>2. \A i \in DOMAIN paths' : cached_path_contents'[paths'[i]] # None
    BY <1>2, <1>3 DEF Inv, PathsTyped, CacheTyped
  <2> QED
    BY <1>2, <1>3, <2>1, <2>2, PathRead
<1>5. NegativesTyped'
  <2>1. misjudged' \subseteq not_found_functions
    BY DEF ClearFunctions, Inv, NegativesTyped
  <2> QED
    BY <1>2, <1>3, <2>1 DEF Inv, NegativesTyped
<1>6. NotFoundIsAbsent'
  <2> SUFFICES ASSUME NEW m \in not_found_functions \ misjudged', Listed(m)' PROVE FALSE
    BY <1>3 DEF NotFoundIsAbsent
  <2>1. cached_path_contents[cwd] # None
    BY DEF Inv, NegativesTyped
  <2>2. Contents' = cached_path_contents' /\ Search' = Search
    BY <1>2, <1>3, <2>1 DEF Contents, Search
  <2>3. PICK kind \in Kinds, i \in DOMAIN Search : <<kind, m>> \in Contents'[Search[i]]
    BY <2>2 DEF Listed, Hits
  <2>4. Search[i] \in Dirs /\ cached_path_contents[Search[i]] # None
    BY <2>1, SearchDirs, SearchTyped DEF Inv, CacheTyped
  <2>5. <<kind, m>> \in disk[Search[i]]
    BY <1>2, <2>2, <2>3, <2>4
  <2> QED
    BY <2>5 DEF ClearFunctions
<1> QED
  BY <1>1, <1>4, <1>5, <1>6 DEF Inv

LEMMA ElementRemoved ==
  ASSUME NEW S, NEW s \in Seq(S), NEW i \in 1 .. Len(s)
  PROVE  LET r == SubSeq(s, 1, i - 1) \o SubSeq(s, i + 1, Len(s))
         IN  /\ r \in Seq(S) /\ Len(r) = Len(s) - 1
             /\ \A j \in 1 .. Len(s) - 1 : r[j] = IF j < i THEN s[j] ELSE s[j + 1]
<1> DEFINE a == SubSeq(s, 1, i - 1)
           b == SubSeq(s, i + 1, Len(s))
           r == a \o b
<1>1. Len(s) \in Nat /\ i \in Int /\ i - 1 \in Int /\ i + 1 \in Int /\ 1 \in Int /\ Len(s) \in Int
  OBVIOUS
<1>2. (\A j \in 1 .. i - 1 : s[j] \in S) /\ (\A j \in i + 1 .. Len(s) : s[j] \in S)
  BY <1>1
<1>3. /\ a \in Seq(S) /\ Len(a) = IF 1 <= i - 1 THEN i - 1 - 1 + 1 ELSE 0
      /\ \A j \in 1 .. i - 1 - 1 + 1 : a[j] = s[1 + j - 1]
  BY <1>1, <1>2, SubSeqProperties
<1>4. /\ b \in Seq(S) /\ Len(b) = IF i + 1 <= Len(s) THEN Len(s) - (i + 1) + 1 ELSE 0
      /\ \A j \in 1 .. Len(s) - (i + 1) + 1 : b[j] = s[i + 1 + j - 1]
  BY <1>1, <1>2, SubSeqProperties
<1> HIDE DEF a, b
<1>5. Len(a) = i - 1 /\ \A j \in 1 .. i - 1 : a[j] = s[j]
  BY <1>1, <1>3
<1>6. Len(b) = Len(s) - i /\ \A j \in 1 .. Len(s) - i : b[j] = s[i + j]
  BY <1>1, <1>4
<1>7. /\ r \in Seq(S) /\ Len(r) = Len(a) + Len(b)
      /\ \A j \in 1 .. Len(a) + Len(b) : r[j] = IF j <= Len(a) THEN a[j] ELSE b[j - Len(a)]
  BY <1>3, <1>4, ConcatProperties
<1> HIDE DEF r
<1>8. Len(r) = Len(s) - 1
  BY <1>1, <1>5, <1>6, <1>7
<1>9. ASSUME NEW j \in 1 .. Len(s) - 1 PROVE r[j] = IF j < i THEN s[j] ELSE s[j + 1]
  <2>1. r[j] = IF j <= i - 1 THEN a[j] ELSE b[j - (i - 1)]
    BY <1>1, <1>5, <1>6, <1>7
  <2>2. CASE j < i
    BY <1>1, <1>5, <2>1, <2>2
  <2>3. CASE ~(j < i)
    <3>1. j - (i - 1) \in 1 .. Len(s) - i /\ i + (j - (i - 1)) = j + 1
      BY <1>1, <2>3
    <3>2. b[j - (i - 1)] = s[i + (j - (i - 1))]
      BY <1>6, <3>1
    <3>3. ~(j <= i - 1)
      BY <1>1, <2>3
    <3> QED
      BY <2>1, <2>3, <3>1, <3>2, <3>3
  <2> QED
    BY <2>2, <2>3
<1> QED
  BY <1>7, <1>8, <1>9 DEF r, a, b

\* rmpath: fewer directories list no more.
LEMMA RemovePathStep ==
  ASSUME Inv, NEW d \in Dirs, RemovePath(d) PROVE Inv'
<1>1. UNCHANGED <<disk, edits, cwd, caches, later, stack>>
  BY DEF RemovePath, files
<1>2. PICK i \in DOMAIN paths :
        paths' = SubSeq(paths, 1, i - 1) \o SubSeq(paths, i + 1, Len(paths))
  BY DEF RemovePath
<1>3. /\ paths \in Seq(Dirs) /\ Len(paths) \in Nat /\ i \in 1 .. Len(paths)
      /\ \A j, k \in 1 .. Len(paths) : paths[j] = paths[k] => j = k
  BY DEF Inv, PathsTyped
<1>4. /\ paths' \in Seq(Dirs) /\ Len(paths') = Len(paths) - 1
      /\ \A j \in 1 .. Len(paths) - 1 : paths'[j] = IF j < i THEN paths[j] ELSE paths[j + 1]
  BY <1>2, <1>3, ElementRemoved
<1>5. DOMAIN paths' = 1 .. Len(paths) - 1
  BY <1>3, <1>4
<1>6. \A j, k \in DOMAIN paths' : paths'[j] = paths'[k] => j = k
  BY <1>3, <1>4, <1>5
<1>7. \A j \in DOMAIN paths' : \E k \in DOMAIN paths : paths'[j] = paths[k]
  BY <1>3, <1>4, <1>5
<1>8. DirsTyped' /\ PathsTyped' /\ CacheTyped' /\ DefaultRead'
  <2>1. cached_path_contents' = cached_path_contents /\ cwd' \in Dirs
    BY <1>1 DEF caches, Inv, DirsTyped
  <2>2. \A j \in DOMAIN paths' : cached_path_contents'[paths'[j]] # None
    BY <1>7, <2>1 DEF Inv, CacheTyped
  <2>3. cached_path_contents' \in [Dirs -> {None} \cup SUBSET Files]
    BY <2>1 DEF Inv, CacheTyped
  <2> QED
    BY <1>1, <1>4, <1>6, <2>1, <2>2, <2>3, PathRead
<1>9. NegativesTyped'
  BY <1>1 DEF caches, Inv, NegativesTyped
<1>10. NotFoundIsAbsent'
  <2>1. UNCHANGED <<cwd, cached_path_contents, not_found_functions, misjudged, disk>>
    BY <1>1 DEF caches
  <2>2. Contents' = Contents
    BY <2>1 DEF Contents
  <2> SUFFICES ASSUME NEW m \in not_found_functions \ misjudged, Listed(m)' PROVE FALSE
    BY <2>1 DEF NotFoundIsAbsent
  <2>3. PICK kind \in Kinds, j \in DOMAIN Search' : <<kind, m>> \in Contents[Search'[j]]
    BY <2>2 DEF Listed, Hits
  <2>4. \E k \in DOMAIN Search : Search'[j] = Search[k]
    <3>1. /\ Search = <<cwd>> \o paths /\ Search' = <<cwd>> \o paths'
          /\ <<cwd>> \in Seq(Dirs) /\ Len(<<cwd>>) = 1
      BY <2>1 DEF Search, Inv, DirsTyped
    <3>2. /\ Len(Search) = 1 + Len(paths) /\ Search \in Seq(Dirs)
          /\ \A k \in 1 .. 1 + Len(paths) : Search[k] = IF k <= 1 THEN <<cwd>>[k] ELSE paths[k - 1]
      BY <1>3, <3>1, ConcatProperties
    <3>3. /\ Len(Search') = 1 + Len(paths') /\ Search' \in Seq(Dirs)
          /\ \A k \in 1 .. 1 + Len(paths') : Search'[k] = IF k <= 1 THEN <<cwd>>[k] ELSE paths'[k - 1]
      BY <1>4, <3>1, ConcatProperties
    <3>4. DOMAIN Search = 1 .. 1 + Len(paths) /\ DOMAIN Search' = 1 .. 1 + Len(paths')
      BY <1>3, <1>4, <3>2, <3>3
    <3>5. CASE j = 1
      <4>1. 1 \in DOMAIN Search /\ Search[1] = <<cwd>>[1]
        BY <1>3, <3>2, <3>4
      <4>2. Search'[1] = <<cwd>>[1]
        BY <1>3, <1>4, <3>3
      <4> QED
        BY <3>5, <4>1, <4>2
    <3>6. CASE j # 1
      <4>1. j - 1 \in DOMAIN paths' /\ Search'[j] = paths'[j - 1]
        BY <1>3, <1>4, <1>5, <3>3, <3>4, <3>6
      <4>2. PICK k \in 1 .. Len(paths) : paths'[j - 1] = paths[k]
        BY <1>3, <1>7, <4>1
      <4>3. k + 1 \in DOMAIN Search /\ Search[k + 1] = paths[k]
        BY <1>3, <3>2, <3>4
      <4> QED
        BY <4>1, <4>2, <4>3
    <3> QED
      BY <3>5, <3>6
  <2>5. Listed(m)
    BY <2>3, <2>4 DEF Listed, Hits
  <2> QED
    BY <2>5 DEF Inv, NotFoundIsAbsent
<1>11. FunctionsTyped' /\ StackTyped'
  <2>1. LockedOnly(functions) \in [Names -> Function \cup {None}]
    BY LockedOnlyTyped DEF Inv
  <2>2. functions' \in [Names -> Function \cup {None}]
    BY <2>1 DEF RemovePath, Inv, FunctionsTyped
  <2> QED
    BY <1>1, <2>2 DEF Inv, FunctionsTyped, StackTyped
<1> QED
  BY <1>8, <1>9, <1>10, <1>11 DEF Inv

-----------------------------------------------------------------------------
(* The theorems. *)

LEMMA LookupBegins == LookupInit => Inv
<1> SUFFICES ASSUME LookupInit PROVE Inv
  OBVIOUS
<1> USE DEF LookupInit
<1>1. disk \in [Dirs -> SUBSET Files] /\ paths \in Seq(Dirs)
  BY LookupAssumption
<1>2. DirsTyped /\ PathsTyped
  BY <1>1, LookupAssumption DEF DirsTyped, PathsTyped
<1>3. CacheTyped
  <2>1. cached_path_contents \in [Dirs -> {None} \cup SUBSET Files]
    BY <1>1
  <2>2. ASSUME NEW i \in DOMAIN paths PROVE cached_path_contents[paths[i]] # None
    <3>1. paths[i] \in Dirs /\ disk[paths[i]] # None
      BY <1>1, NoneIsNoFiles
    <3> QED
      BY <3>1
  <2> QED
    BY <2>1, <2>2 DEF CacheTyped
<1>4. DefaultRead
  BY <1>3 DEF CacheTyped, DefaultRead
<1>5. NegativesTyped /\ NotFoundIsAbsent
  BY DEF NegativesTyped, NotFoundIsAbsent
<1>6. FunctionsTyped
  BY DEF FunctionsTyped
<1>7. StackTyped
  <2>1. [fn |-> None, file |-> None] \in Frame
    BY DEF Frame
  <2> QED
    BY <2>1 DEF StackTyped, Base
<1> QED
  BY <1>2, <1>3, <1>4, <1>5, <1>6, <1>7 DEF Inv

LEMMA LookupStutter == Inv /\ UNCHANGED lookupVars => Inv'
BY SearchKept, ProgramKept DEF lookupVars, files, SearchInv, ProgramInv, Inv

LEMMA LookupStepKeeps == Inv /\ [LookupNext]_lookupVars => Inv'
<1> SUFFICES ASSUME Inv, [LookupNext]_lookupVars PROVE Inv'
  OBVIOUS
<1>1. ASSUME NEW n \in Names, Call(n) \/ LookUp(n) PROVE Inv'
  BY <1>1, CallEffect, LookUpEffect, LookupStep
<1>2. ASSUME NEW n \in Names, FunctionDefinition(n) PROVE Inv'
  BY <1>2, FunctionDefinitionStep
<1>3. ASSUME NEW n \in Names, Unlock(n) \/ ClearFromFunctions(n) PROVE Inv'
  <2>1. ClearFromFunctions(n) \/ \E state \in BOOLEAN : SetLock(n, state)
    BY <1>3 DEF Unlock
  <2> QED
    BY <2>1, LockStep
<1>4. ASSUME NEW defs \in SUBSET (Names \ Scripts),
             \/ DoString(defs)
             \/ \E d \in Dirs, file \in Files : DoFile(<<d>> \o file, defs)
      PROVE  Inv'
  BY <1>4, CommandStep
<1>5. CASE LockCurrent
  <2>1. PICK n \in Names : SetLock(n, TRUE)
    BY <1>5, LockCurrentStep
  <2>2. \E state \in BOOLEAN : SetLock(n, state)
    BY <2>1
  <2> QED
    BY <2>2, LockStep
<1>6. CASE Return \/ ClearFunctions \/ RestorePath
  BY <1>6, ReturnStep, ClearFunctionsStep, RestorePathStep
<1>7. ASSUME NEW d \in Dirs, NEW end \in BOOLEAN, AddPath(d, end) PROVE Inv'
  BY <1>7, AddPathStep
<1>8. ASSUME NEW d \in Dirs, RemovePath(d) \/ ChangeDir(d) PROVE Inv'
  BY <1>8, RemovePathStep, ChangeDirStep
<1>9. ASSUME NEW d \in Dirs, NEW file \in Files, EditFile(d, file) PROVE Inv'
  BY <1>9, EditStep
<1>10. ASSUME NEW ds \in Paths, SetPath(ds) PROVE Inv'
  BY <1>10, SetPathStep
<1>11. CASE UNCHANGED lookupVars
  BY <1>11, LookupStutter
<1> QED
  BY <1>1, <1>2, <1>3, <1>4, <1>5, <1>6, <1>7, <1>8, <1>9, <1>10, <1>11, Zenon DEF LookupNext

\* Inv holds in every state, whatever is called, cleared, put on the path or edited.
THEOREM LookupInvariant == LookupSpec => []Inv
<1> QED
  BY LookupBegins, LookupStepKeeps, PTL DEF LookupSpec

\* The path has no directory twice, and every directory a search looks into has been
\* read: FindFileInPath never meets one without contents.
THEOREM LookupTypeCorrect == LookupSpec => []LookupTypeOK
<1>1. Inv => LookupTypeOK
  BY DEF Inv, LookupTypeOK, DirsTyped, PathsTyped, CacheTyped, NegativesTyped, FunctionsTyped,
         StackTyped, Function, Frame
<1> QED
  BY <1>1, LookupInvariant, PTL

\* A name in not_found_functions, other than those in misjudged, has no file in the
\* directories a search looks through, as they were last read.
THEOREM NegativesAreTrue == LookupSpec => []NotFoundIsAbsent
<1>1. Inv => NotFoundIsAbsent
  BY DEF Inv
<1> QED
  BY <1>1, LookupInvariant, PTL

LEMMA LockKept ==
  ASSUME Inv, LookupNext, NEW n \in Names, functions[n] # None, functions[n].locked
  PROVE  \/ functions'[n] = functions[n]
         \/ Unlock(n) \/ FunctionDefinition(n)
         \/ AtBase /\ stack' = Base(functions[n].file)
<1> DEFINE Kept == functions'[n] = functions[n]
<1>0. functions \in [Names -> Function \cup {None}] /\ functions[n] \in Function
  BY DEF Inv, FunctionsTyped
<1>1. ASSUME NEW m \in Names, Call(m) \/ LookUp(m) PROVE Kept
  <2>1. LookupEffect(m)
    BY <1>1, CallEffect, LookUpEffect
  <2> QED
    BY <1>0, <2>1 DEF LookupEffect, Defined, Define
<1>2. ASSUME NEW m \in Names, FunctionDefinition(m) PROVE Kept \/ FunctionDefinition(n)
  <2>1. CASE m = n
    BY <1>2, <2>1
  <2>2. CASE m # n
    BY <1>0, <1>2, <2>2 DEF FunctionDefinition, Define
  <2> QED
    BY <2>1, <2>2
<1>3. ASSUME NEW m \in Names, Unlock(m) PROVE Kept \/ Unlock(n)
  <2>1. CASE m = n
    BY <1>3, <2>1
  <2>2. CASE m # n
    BY <1>0, <1>3, <2>2 DEF Unlock, SetLock
  <2> QED
    BY <2>1, <2>2
<1>4. ASSUME NEW m \in Names, ClearFromFunctions(m) PROVE Kept
  BY <1>0, <1>4 DEF ClearFromFunctions
<1>5. ASSUME NEW defs, DoString(defs) PROVE Kept
  BY <1>5 DEF DoString
<1>6. ASSUME NEW defs, NEW place, DoFile(place, defs)
      PROVE  Kept \/ (AtBase /\ stack' = Base(functions[n].file))
  BY <1>6 DEF DoFile
<1>7. ASSUME LockCurrent PROVE Kept
  <2>1. PICK m \in Names : SetLock(m, TRUE)
    BY <1>7, LockCurrentStep
  <2>2. [functions[n] EXCEPT !.locked = TRUE] = functions[n]
    BY <1>0 DEF Function
  <2> QED
    BY <1>0, <2>1, <2>2 DEF SetLock
<1>8. ASSUME ClearFunctions PROVE Kept
  BY <1>8 DEF ClearFunctions, LockedOnly
<1>9. ASSUME NEW d \in Dirs, RemovePath(d) PROVE Kept
  <2>1. LockedOnly(functions)[n] = functions[n]
    BY DEF LockedOnly
  <2> QED
    BY <1>9, <2>1 DEF RemovePath
<1>10. ASSUME Return \/ RestorePath PROVE Kept
  BY <1>10 DEF Return, RestorePath
<1>11. ASSUME NEW d \in Dirs,
              \/ \E end \in BOOLEAN : AddPath(d, end)
              \/ ChangeDir(d)
              \/ \E file \in Files : EditFile(d, file)
       PROVE  Kept
  BY <1>11 DEF AddPath, ChangeDir, EditFile
<1>12. ASSUME NEW ds \in Paths, SetPath(ds) PROVE Kept
  BY <1>12 DEF SetPath
<1> DEFINE Allowed == \/ Kept \/ Unlock(n) \/ FunctionDefinition(n)
                      \/ AtBase /\ stack' = Base(functions[n].file)
<1> HIDE DEF Kept
<1>13. ASSUME NEW m \in Names,
              \/ Call(m) \/ LookUp(m) \/ FunctionDefinition(m)
              \/ Unlock(m) \/ ClearFromFunctions(m)
       PROVE  Allowed
  BY <1>13, <1>1, <1>2, <1>3, <1>4
<1>14. ASSUME NEW defs \in SUBSET (Names \ Scripts),
              \/ DoString(defs)
              \/ \E d \in Dirs, file \in Files : DoFile(<<d>> \o file, defs)
       PROVE  Allowed
  BY <1>14, <1>5, <1>6
<1>15. ASSUME Return \/ LockCurrent \/ ClearFunctions \/ RestorePath PROVE Allowed
  BY <1>15, <1>7, <1>8, <1>10
<1>16. ASSUME NEW d \in Dirs,
              \/ \E end \in BOOLEAN : AddPath(d, end)
              \/ RemovePath(d) \/ ChangeDir(d)
              \/ \E file \in Files : EditFile(d, file)
       PROVE  Allowed
  BY <1>16, <1>9, <1>11
<1>17. ASSUME NEW ds \in Paths, SetPath(ds) PROVE Allowed
  BY <1>17, <1>12
<1> HIDE DEF Allowed
<1>18. Allowed
  BY <1>13, <1>14, <1>15, <1>16, <1>17, Zenon DEF LookupNext
<1> QED
  BY <1>18 DEF Allowed, Kept

\* A locked function outlives clear, rehash, rmpath and every call.
THEOREM LocksHold == LookupSpec => LockedStays
<1>1. Inv /\ [LookupNext]_lookupVars =>
        [\A n \in Names :
           functions[n] # None /\ functions[n].locked =>
             \/ functions'[n] = functions[n]
             \/ Unlock(n) \/ FunctionDefinition(n)
             \/ AtBase /\ stack' = Base(functions[n].file)]_lookupVars
  BY LockKept
<1> QED
  BY <1>1, LookupInvariant, PTL DEF LookupSpec, LockedStays

-----------------------------------------------------------------------------
(* What the caches say is what the disk says. *)

\* Kinds are searched one after the other.
LEMMA Ranks ==
  /\ \A kind \in Kinds : Rank(kind) \in 1 .. 4
  /\ \A kind, other \in Kinds : Rank(kind) = Rank(other) => kind = other
<1>1. Rank("omlp") = 1 BY DEF Rank
<1>2. Rank("oml") = 2 BY DEF Rank
<1>3. Rank("m") = 3 BY DEF Rank
<1>4. Rank("enc") = 4 BY DEF Rank
<1> HIDE DEF Rank
<1> QED BY <1>1, <1>2, <1>3, <1>4 DEF Kinds

\* The files a search of the disk sees are those the cached directories list.
LEMMA OnDiskListed ==
  ASSUME \A i \in DOMAIN Search : Contents[Search[i]] = disk[Search[i]], NEW n
  PROVE  \A p : p \in OnDisk(n) <=>
                  p \in (DOMAIN Search) \X Kinds /\ p[1] \in Hits(p[2], n)
BY DEF OnDisk, Hits

\* The first directory with the first kind that any directory has is what both find.
LEMMA FirstIsBest ==
  ASSUME Inv, \A i \in DOMAIN Search : Contents[Search[i]] = disk[Search[i]],
         NEW n, NEW kind \in Kinds, Hits(kind, n) # {},
         \A other \in Kinds : Rank(other) < Rank(kind) => Hits(other, n) = {}
  PROVE  DiskPlace(n) = FindFileInPath(kind, n)
<1> DEFINE H == Hits(kind, n)
           Least(i) == \A j \in H : i <= j
           first == CHOOSE i \in H : Least(i)
           Best(p) == \A q \in OnDisk(n) : \/ Rank(p[2]) < Rank(q[2])
                                           \/ Rank(p[2]) = Rank(q[2]) /\ p[1] <= q[1]
           best == CHOOSE p \in OnDisk(n) : Best(p)
<1>1. \A k \in Kinds : Hits(k, n) \subseteq DOMAIN Search /\ Hits(k, n) \subseteq Nat
  BY SearchTyped DEF Hits, Inv
<1>2. first \in H /\ Least(first)
  <2>1. \E i \in H : Least(i)
    BY <1>1, HasFirst
  <2> QED BY <2>1
<1> HIDE DEF first
<1>3. <<first, kind>> \in OnDisk(n) /\ Best(<<first, kind>>)
  <2>1. <<first, kind>> \in OnDisk(n)
    BY <1>1, <1>2, OnDiskListed
  <2>2. ASSUME NEW q \in OnDisk(n)
        PROVE  Rank(kind) < Rank(q[2]) \/ (Rank(kind) = Rank(q[2]) /\ first <= q[1])
    <3>1. q[2] \in Kinds /\ q[1] \in Hits(q[2], n)
      BY OnDiskListed
    <3>2. ~(Rank(q[2]) < Rank(kind))
      BY <3>1
    <3>3. Rank(kind) = Rank(q[2]) => q[2] = kind
      BY <3>1, Ranks
    <3> QED BY <1>2, <3>1, <3>2, <3>3, Ranks
  <2> QED BY <2>1, <2>2
<1>4. best \in OnDisk(n) /\ Best(best)
  BY <1>3
<1> HIDE DEF best
<1>5. best[1] = first /\ best[2] = kind
  <2>1. best[2] \in Kinds /\ best[1] \in Hits(best[2], n) /\ best[1] \in Nat
    BY <1>1, <1>4, OnDiskListed
  <2>2. ~(Rank(best[2]) < Rank(kind))
    BY <2>1
  <2>3. Rank(best[2]) = Rank(kind) /\ best[1] <= first
    BY <1>3, <1>4, <2>1, <2>2, Ranks
  <2>4. best[2] = kind
    BY <2>1, <2>3, Ranks
  <2>5. first <= best[1] /\ first \in Nat
    BY <1>1, <1>2, <2>1, <2>4
  <2> QED BY <2>1, <2>3, <2>4, <2>5
<1>6. DiskPlace(n) = <<Search[best[1]], best[2], n>>
  BY <1>3 DEF DiskPlace, best
<1>7. FindFileInPath(kind, n) = <<Search[first], kind, n>>
  BY DEF FindFileInPath, first
<1> QED BY <1>5, <1>6, <1>7

\* What is found where a kind has no file.
LEMMA NoHits == ASSUME NEW kind, NEW n, Hits(kind, n) = {} PROVE FindFileInPath(kind, n) = None
BY DEF FindFileInPath

LEMMA InvResolves == Inv => ResolvesLikeDisk
<1> SUFFICES ASSUME Inv, NEW n \in Names \ misjudged,
                    \A i \in DOMAIN Search : Contents[Search[i]] = disk[Search[i]],
                    ~(FindFunction(n) # None /\ FindFunction(n) = Here)
             PROVE  DiskPlace(n) = IF FindPrecompiledFunction(n) # None
                                   THEN FindPrecompiledFunction(n)
                                   ELSE IF Source(n) # None THEN Source(n)
                                   ELSE FindEncryptedFunction(n)
  BY DEF ResolvesLikeDisk
<1>1. FindPrecompiledFunction(n) = None => Source(n) = FindFunction(n)
  BY DEF Source
<1>2. CASE n \in not_found_functions
  <2>1. \A kind \in Kinds : Hits(kind, n) = {}
    BY <1>2 DEF Inv, NotFoundIsAbsent, Listed
  <2>2. OnDisk(n) = {}
    BY <2>1, OnDiskListed
  <2> QED BY <1>1, <1>2, <2>2 DEF DiskPlace, FindFunction, FindPrecompiledFunction, FindEncryptedFunction
<1>3. CASE n \notin not_found_functions
  <2>1. /\ FindPrecompiledFunction(n) = FindFileInPath("omlp", n)
        /\ FindEncryptedFunction(n) = FindFileInPath("enc", n)
        /\ FindFunction(n) = IF FindFileInPath("oml", n) # None THEN FindFileInPath("oml", n)
                             ELSE FindFileInPath("m", n)
    BY <1>3 DEF FindFunction, FindPrecompiledFunction, FindEncryptedFunction
  <2>2. \A kind \in Kinds : FindFileInPath(kind, n) = None <=> Hits(kind, n) = {}
    BY FindFileTyped, NoHits DEF Inv
  <2>3. /\ "omlp" \in Kinds /\ "oml" \in Kinds /\ "m" \in Kinds /\ "enc" \in Kinds
        /\ Rank("omlp") = 1 /\ Rank("oml") = 2 /\ Rank("m") = 3 /\ Rank("enc") = 4
        /\ \A kind \in Kinds : kind \in {"omlp", "oml", "m", "enc"}
    BY DEF Kinds, Rank
  <2>4. CASE Hits("omlp", n) # {}
    <3>1. DiskPlace(n) = FindFileInPath("omlp", n)
      BY <2>3, <2>4, FirstIsBest
    <3> QED BY <2>1, <2>2, <2>3, <2>4, <3>1
  <2>5. CASE Hits("omlp", n) = {} /\ Hits("oml", n) # {}
    <3>1. DiskPlace(n) = FindFileInPath("oml", n)
      BY <2>3, <2>5, FirstIsBest
    <3> QED BY <1>1, <2>1, <2>2, <2>3, <2>5, <3>1
  <2>6. CASE Hits("omlp", n) = {} /\ Hits("oml", n) = {} /\ Hits("m", n) # {}
    <3>1. DiskPlace(n) = FindFileInPath("m", n)
      BY <2>3, <2>6, FirstIsBest
    <3> QED BY <1>1, <2>1, <2>2, <2>3, <2>6, <3>1
  <2>7. CASE /\ Hits("omlp", n) = {} /\ Hits("oml", n) = {} /\ Hits("m", n) = {}
             /\ Hits("enc", n) # {}
    <3>1. DiskPlace(n) = FindFileInPath("enc", n)
      BY <2>3, <2>7, FirstIsBest
    <3> QED BY <1>1, <2>1, <2>2, <2>3, <2>7, <3>1
  <2>8. CASE \A kind \in Kinds : Hits(kind, n) = {}
    <3>1. OnDisk(n) = {}
      BY <2>8, OnDiskListed
    <3> QED BY <1>1, <2>1, <2>2, <2>3, <2>8, <3>1 DEF DiskPlace
  <2> QED BY <2>3, <2>4, <2>5, <2>6, <2>7, <2>8
<1> QED BY <1>2, <1>3

\* Calls find the file that a search of the disk finds, as long as the directories of the
\* path are as they were read: no name that is remembered and no order in which the kinds
\* are asked for makes a difference.
THEOREM CachesAreTrue == LookupSpec => []ResolvesLikeDisk
BY LookupInvariant, InvResolves, PTL
=============================================================================
