--------------------------- MODULE FunctionLookup ---------------------------
(***************************************************************************)
(* How ExprTreeEvaluator finds the function a name stands for: the search  *)
(* path, what is remembered of the directories on it, the names remembered *)
(* as not found, the functions loaded so far, and the commands that change *)
(* one of these under the feet of the others.                              *)
(*                                                                         *)
(* A file is a kind and a name, at most one of each kind and name in a     *)
(* directory: "oml" and "m" are sources, "omlp" is precompiled, "enc"      *)
(* stands for the extensions with a decryptor.  A place is <<directory,    *)
(* kind, name>>.  Sources named in Scripts hold statements, the others     *)
(* define the function of their name.                                      *)
(***************************************************************************)
EXTENDS Naturals, Sequences

CONSTANTS
  Names,        \* names of functions and scripts
  Scripts,      \* the names whose source files are scripts
  Dirs,         \* directories
  Files,        \* the files a directory may hold
  Disks,        \* what the directories may hold when the session starts
  DefaultPath,  \* restore_paths, taken when the application starts
  MaxDepth,     \* bound on the calls under way, the command included
  MaxEdits,     \* bound on the changes other programs make to the files
  None

Kinds == {"oml", "m", "omlp", "enc"}

ASSUME LookupAssumption ==
  /\ Scripts \subseteq Names
  /\ Files \subseteq Kinds \X Names
  /\ Disks \subseteq [Dirs -> SUBSET Files]
  /\ DefaultPath \in Seq(Dirs)
  /\ \A i, j \in DOMAIN DefaultPath : DefaultPath[i] = DefaultPath[j] => i = j
  /\ MaxDepth \in Nat /\ MaxEdits \in Nat
  /\ None \notin Names /\ \A S \in SUBSET Files : None # S
  /\ None \notin Dirs \X Kinds \X Names

VARIABLES
  disk,                  \* the files of each directory
  cwd,                   \* the working directory
  paths,                 \* the search path
  cached_path_contents,  \* the files of a directory as last read, or None
  not_found_functions,   \* names a search has missed
  functions,             \* the loaded functions
  later,                 \* functions the command at the base defines further on
  stack,                 \* what runs, innermost last: a function or None, and its file
  edits,                 \* changes to the files so far
  misjudged              \* names kept as not found although a file has them (history)

caches == <<cached_path_contents, not_found_functions, misjudged>>
files  == <<disk, edits>>
lookupVars == <<files, cwd, paths, caches, functions, later, stack>>

Place == Dirs \X Kinds \X Names
File(place) == <<place[2], place[3]>>
Readable(place) == File(place) \in disk[place[1]]

Here == stack[Len(stack)].file
Base(place) == <<[fn |-> None, file |-> place]>>
AtBase == Len(stack) = 1

LookupInit ==
  /\ disk \in Disks
  /\ cwd \in Dirs
  /\ paths = DefaultPath
  /\ cached_path_contents =
       [d \in Dirs |-> IF \E i \in DOMAIN paths : paths[i] = d THEN disk[d] ELSE None]
  /\ not_found_functions = {}
  /\ functions = [n \in Names |-> None]
  /\ later = {}
  /\ stack = Base(None)
  /\ edits = 0
  /\ misjudged = {}

-----------------------------------------------------------------------------
(* Searching. *)

Search == <<cwd>> \o paths

(* FindFileInPath reads the working directory if it was never read. *)
Contents ==
  IF cached_path_contents[cwd] = None
  THEN [cached_path_contents EXCEPT ![cwd] = disk[cwd]]
  ELSE cached_path_contents

Hits(kind, n) == {i \in DOMAIN Search : <<kind, n>> \in Contents[Search[i]]}

FindFileInPath(kind, n) ==
  IF Hits(kind, n) = {} THEN None
  ELSE LET first == CHOOSE i \in Hits(kind, n) : \A j \in Hits(kind, n) : i <= j
       IN  <<Search[first], kind, n>>

(* (mutant) .m files come first *)
MFirst(n) ==
  IF n \in not_found_functions THEN None
  ELSE IF FindFileInPath("m", n) # None THEN FindFileInPath("m", n)
  ELSE FindFileInPath("oml", n)

FindFunction(n) ==
  IF n \in not_found_functions THEN None
  ELSE IF FindFileInPath("oml", n) # None THEN FindFileInPath("oml", n)
  ELSE FindFileInPath("m", n)

FindPrecompiledFunction(n) ==
  IF n \in not_found_functions THEN None ELSE FindFileInPath("omlp", n)

FindEncryptedFunction(n) ==
  IF n \in not_found_functions THEN None ELSE FindFileInPath("enc", n)

(* Definitions further on in the tree that runs; a script has a tree of its
   own, without any here. *)
FunctionInAST(n) ==
  /\ n \in later \ not_found_functions
  /\ \A i \in 2 .. Len(stack) : stack[i].fn # None

-----------------------------------------------------------------------------
(* Loading and calling. *)

Define(n, place) ==
  functions' = [functions EXCEPT ![n] = [file |-> place, locked |-> FALSE]]

Enter(fn, place) ==
  /\ Len(stack) < MaxDepth
  /\ stack' = Append(stack, [fn |-> fn, file |-> place])

Searched ==
  /\ cached_path_contents' = Contents
  /\ UNCHANGED <<files, cwd, paths, later>>

Found == UNCHANGED <<not_found_functions, misjudged>>

NotFound(n, wrongly) ==
  /\ not_found_functions' = not_found_functions \cup {n}
  /\ misjudged' = IF wrongly THEN misjudged \cup {n} ELSE misjudged
  /\ Searched
  /\ UNCHANGED <<functions, stack>>

(* ParseAndRunFile on a source file; an unreadable one is an error. *)
Load(n, place) ==
  IF Readable(place) THEN Define(n, place) ELSE UNCHANGED functions

CallLoaded(n) ==
  /\ functions[n] # None
  /\ Enter(n, functions[n].file)
  /\ UNCHANGED <<files, cwd, paths, caches, functions, later>>

CallLater(n) ==
  /\ functions[n] = None /\ FunctionInAST(n)
  /\ Define(n, stack[1].file)
  /\ Enter(n, stack[1].file)
  /\ UNCHANGED <<files, cwd, paths, caches, later>>

Unloaded(n) == functions[n] = None /\ ~FunctionInAST(n)

CallPrecompiled(n) ==
  LET place == FindPrecompiledFunction(n) IN
  /\ Unloaded(n) /\ place # None
  /\ Define(n, place) /\ Enter(n, place)
  /\ Searched /\ Found

(* A source file is taken unless it is the one that runs. *)
Source(n) ==
  IF FindPrecompiledFunction(n) = None /\ FindFunction(n) # Here
  THEN FindFunction(n) ELSE None

CallScript(n) ==
  /\ Unloaded(n) /\ Source(n) # None /\ n \in Scripts
  /\ IF Readable(Source(n)) THEN Enter(None, Source(n)) ELSE UNCHANGED stack
  /\ UNCHANGED functions
  /\ Searched /\ Found

CallFile(n) ==
  /\ Unloaded(n) /\ Source(n) # None /\ n \notin Scripts
  /\ Load(n, Source(n))
  /\ IF Readable(Source(n)) THEN Enter(n, Source(n)) ELSE UNCHANGED stack
  /\ Searched /\ Found

CallEncrypted(n) ==
  LET place == FindEncryptedFunction(n) IN
  /\ Unloaded(n) /\ FindPrecompiledFunction(n) = None /\ Source(n) = None
  /\ place # None
  /\ Define(n, place) /\ Enter(n, place)
  /\ Searched /\ Found

(* A builtin or an error.  A source file that runs and calls itself is
   passed over like one that does not exist. *)
CallUnfound(n) ==
  /\ Unloaded(n) /\ FindPrecompiledFunction(n) = None /\ Source(n) = None
  /\ FindEncryptedFunction(n) = None
  /\ NotFound(n, FindFunction(n) # None)

Call(n) ==
  \/ CallLoaded(n) \/ CallLater(n) \/ CallPrecompiled(n) \/ CallScript(n)
  \/ CallFile(n) \/ CallEncrypted(n) \/ CallUnfound(n)

(* FindFunctionByName, for handles and calls with several results: files
   before later definitions, no precompiled files.  A script is an error. *)
LookUpFile(n) ==
  /\ functions[n] = None /\ FindFunction(n) # None
  /\ IF n \in Scripts THEN UNCHANGED functions ELSE Load(n, FindFunction(n))
  /\ UNCHANGED stack
  /\ Searched /\ Found

LookUpLater(n) ==
  /\ functions[n] = None /\ FindFunction(n) = None /\ FunctionInAST(n)
  /\ Define(n, stack[1].file)
  /\ UNCHANGED stack
  /\ Searched /\ Found

LookUpEncrypted(n) ==
  /\ Unloaded(n) /\ FindFunction(n) = None /\ FindEncryptedFunction(n) # None
  /\ Define(n, FindEncryptedFunction(n))
  /\ UNCHANGED stack
  /\ Searched /\ Found

(* The search for a precompiled file that follows in a call with several
   results asks not_found_functions first, and so never finds one. *)
LookUpUnfound(n) ==
  /\ Unloaded(n) /\ FindFunction(n) = None /\ FindEncryptedFunction(n) = None
  /\ NotFound(n, FindPrecompiledFunction(n) # None)

LookUp(n) == LookUpFile(n) \/ LookUpLater(n) \/ LookUpEncrypted(n) \/ LookUpUnfound(n)

Return ==
  /\ ~AtBase
  /\ stack' = SubSeq(stack, 1, Len(stack) - 1)
  /\ UNCHANGED <<files, cwd, paths, caches, functions, later>>

-----------------------------------------------------------------------------
(* Commands and definitions. *)

DoString(defs) ==
  /\ AtBase
  /\ stack' = Base(None) /\ later' = defs
  /\ UNCHANGED <<files, cwd, paths, caches, functions>>

(* DoFile forgets what the file defined, locked or not, and runs it. *)
DoFile(place, defs) ==
  /\ AtBase
  /\ Readable(place) /\ place[2] = "oml" /\ place[3] \in Scripts
  /\ functions' = [n \in Names |->
       IF functions[n] # None /\ functions[n].file = place THEN None ELSE functions[n]]
  /\ stack' = Base(place) /\ later' = defs
  /\ UNCHANGED <<files, cwd, paths, caches>>

(* The command reaches a definition: FunctionDefinition replaces what the
   name stood for. *)
FunctionDefinition(n) ==
  /\ AtBase /\ n \in later
  /\ Define(n, Here)
  /\ later' = later \ {n}
  /\ UNCHANGED <<files, cwd, paths, caches, stack>>

SetLock(n, state) ==
  /\ functions' = IF functions[n] = None THEN functions
                  ELSE [functions EXCEPT ![n].locked = state]
  /\ UNCHANGED <<files, cwd, paths, caches, later, stack>>

(* mlock, in the innermost function (scripts are no functions). *)
LockCurrent ==
  \E i \in DOMAIN stack :
    /\ stack[i].fn # None
    /\ \A j \in i + 1 .. Len(stack) : stack[j].fn = None
    /\ SetLock(stack[i].fn, TRUE)

Unlock(n) == SetLock(n, FALSE)

ClearFromFunctions(n) ==
  /\ functions[n] # None /\ ~functions[n].locked
  /\ functions' = [functions EXCEPT ![n] = None]
  /\ UNCHANGED <<files, cwd, paths, caches, later, stack>>

(* (mutant) locks are not looked at *)
UnlockedOnly(fs) == [n \in Names |-> None]

LockedOnly(fs) ==
  [n \in Names |-> IF fs[n] # None /\ fs[n].locked THEN fs[n] ELSE None]

(* rehash, clear functions: every directory is read again, the names not
   found stay so, also those that have a file by now. *)
ClearFunctions ==
  /\ functions' = LockedOnly(functions)
  /\ cached_path_contents' =
       [d \in Dirs |-> IF cached_path_contents[d] = None THEN None ELSE disk[d]]
  /\ misjudged' = misjudged \cup
       {n \in not_found_functions :
          \E i \in DOMAIN Search : \E kind \in Kinds : <<kind, n>> \in disk[Search[i]]}
  /\ UNCHANGED <<files, cwd, paths, not_found_functions, later, stack>>

-----------------------------------------------------------------------------
(* Commands on the path. *)

(* (mutant) nothing is forgotten *)
KeepFuncSearchCache == UNCHANGED <<not_found_functions, misjudged>>

ResetFuncSearchCache == not_found_functions' = {} /\ misjudged' = {}

(* (mutant) repeats are not avoided *)
NeverInPaths(d) == FALSE

InPaths(d) == \E i \in DOMAIN paths : paths[i] = d

UpdatePathCache(ds) ==
  cached_path_contents' =
    [d \in Dirs |-> IF d \in ds THEN disk[d] ELSE cached_path_contents[d]]

(* addpath; a directory that is on the path already is not read again. *)
AddPath(d, end) ==
  /\ IF InPaths(d) THEN UNCHANGED <<paths, cached_path_contents>>
     ELSE /\ paths' = IF end THEN Append(paths, d) ELSE <<d>> \o paths
          /\ UpdatePathCache({d})
  /\ ResetFuncSearchCache
  /\ UNCHANGED <<files, cwd, functions, later, stack>>

Running(n) == \E i \in DOMAIN stack : stack[i].fn = n

DefinedIn(d) ==
  {n \in Names : functions[n] # None /\ functions[n].file # None
                 /\ functions[n].file[1] = d}

(* rmpath drops the directory and then its functions, none when one of them
   runs, which is an error.  The names not found stay so. *)
RemovePath(d) ==
  /\ \E i \in DOMAIN paths :
       /\ paths[i] = d
       /\ paths' = SubSeq(paths, 1, i - 1) \o SubSeq(paths, i + 1, Len(paths))
  /\ functions' =
       IF \E n \in DefinedIn(d) : Running(n) THEN functions
       ELSE [n \in Names |-> IF n \in DefinedIn(d) THEN LockedOnly(functions)[n]
                             ELSE functions[n]]
  /\ UNCHANGED <<files, cwd, caches, later, stack>>

(* path(d, ...) with directories in ds, in the order of the argument. *)
SetPath(ds) ==
  /\ paths' = ds
  /\ UpdatePathCache({ds[i] : i \in DOMAIN ds})
  /\ ResetFuncSearchCache
  /\ UNCHANGED <<files, cwd, functions, later, stack>>

(* ExprTreeEvaluator::RestorePath *)
UseDefaultPath == paths' = DefaultPath

RestorePath ==
  /\ UseDefaultPath
  /\ ResetFuncSearchCache
  /\ UNCHANGED <<files, cwd, cached_path_contents, functions, later, stack>>

ChangeDir(d) ==
  /\ cwd' = d
  /\ ResetFuncSearchCache
  /\ UNCHANGED <<files, paths, cached_path_contents, functions, later, stack>>

(* Other programs write and delete files.  Deleting what is not source is
   left out: the evaluator closes a file it could not open. *)
EditFile(d, file) ==
  /\ edits < MaxEdits /\ edits' = edits + 1
  /\ \/ disk' = [disk EXCEPT ![d] = @ \cup {file}]
     \/ /\ file[1] \in {"oml", "m"}
        /\ disk' = [disk EXCEPT ![d] = @ \ {file}]
  /\ UNCHANGED <<cwd, paths, caches, functions, later, stack>>

Paths == {<<>>} \cup {<<d>> : d \in Dirs} \cup
         {p \in Dirs \X Dirs : p[1] # p[2]}

LookupNext ==
  \/ \E n \in Names : \/ Call(n) \/ LookUp(n) \/ FunctionDefinition(n)
                      \/ Unlock(n) \/ ClearFromFunctions(n)
  \/ \E defs \in SUBSET (Names \ Scripts) :
       \/ DoString(defs)
       \/ \E d \in Dirs, file \in Files : DoFile(<<d>> \o file, defs)
  \/ Return \/ LockCurrent \/ ClearFunctions \/ RestorePath
  \/ \E d \in Dirs : \/ \E end \in BOOLEAN : AddPath(d, end)
                     \/ RemovePath(d) \/ ChangeDir(d)
                     \/ \E file \in Files : EditFile(d, file)
  \/ \E ds \in Paths : SetPath(ds)

LookupSpec == LookupInit /\ [][LookupNext]_lookupVars

-----------------------------------------------------------------------------
(* Properties. *)

(* The state keeps its types; a directory on the path has been read, and so
   has the working directory once a name was not found. *)
LookupTypeOK ==
  /\ disk \in [Dirs -> SUBSET Files]
  /\ cwd \in Dirs
  /\ paths \in Seq(Dirs)
  /\ \A i, j \in DOMAIN paths : paths[i] = paths[j] => i = j
  /\ cached_path_contents \in [Dirs -> {None} \cup SUBSET Files]
  /\ \A i \in DOMAIN paths : cached_path_contents[paths[i]] # None
  /\ not_found_functions # {} => cached_path_contents[cwd] # None
  /\ misjudged \subseteq not_found_functions /\ not_found_functions \subseteq Names
  /\ functions \in [Names -> [file : Place \cup {None}, locked : BOOLEAN] \cup {None}]
  /\ later \subseteq Names
  /\ stack \in Seq([fn : Names \cup {None}, file : Place \cup {None}])
  /\ stack # <<>> /\ stack[1].fn = None
  /\ edits \in 0 .. MaxEdits

(* A directory a search looks through has a file of this name. *)
Listed(n) == \E kind \in Kinds : Hits(kind, n) # {}

(* A name remembered as not found has no file, as far as directories have been
   read, in any that a search would look through now: whatever changes what a search sees forgets the
   names.  Except, in this code, for three: rehash after a file appeared, a
   script or function that runs and looks for its own file, and a precompiled
   file first looked for by FindFunctionByName. *)
NotFoundIsAbsent == \A n \in not_found_functions \ misjudged : ~Listed(n)

(* What a search without any memory would find: by kind, then directory. *)
Rank(kind) == CASE kind = "omlp" -> 1 [] kind = "oml" -> 2
                [] kind = "m" -> 3 [] kind = "enc" -> 4

OnDisk(n) ==
  {p \in (DOMAIN Search) \X Kinds : <<p[2], n>> \in disk[Search[p[1]]]}

DiskPlace(n) ==
  IF OnDisk(n) = {} THEN None
  ELSE LET best == CHOOSE p \in OnDisk(n) : \A q \in OnDisk(n) :
                     \/ Rank(p[2]) < Rank(q[2])
                     \/ Rank(p[2]) = Rank(q[2]) /\ p[1] <= q[1]
       IN  <<Search[best[1]], best[2], n>>

(* While the files on the search path are as they were last read, a call of
   a name that is not loaded finds the file a search of the disk finds: the
   caches are never seen, except for the names in misjudged and a file that
   calls itself. *)
ResolvesLikeDisk ==
  \A n \in Names \ misjudged :
    \/ \E i \in DOMAIN Search : Contents[Search[i]] # disk[Search[i]]
    \/ ~Unloaded(n)
    \/ FindFunction(n) # None /\ FindFunction(n) = Here
    \/ DiskPlace(n) = IF FindPrecompiledFunction(n) # None
                      THEN FindPrecompiledFunction(n)
                      ELSE IF Source(n) # None THEN Source(n)
                      ELSE FindEncryptedFunction(n)

(* A function that was locked stays loaded and locked: only munlock, a new
   definition of its name, and running the file that defined it as a command
   take it away.  clear, rehash and rmpath never do. *)
LockedStays ==
  [][\A n \in Names :
       functions[n] # None /\ functions[n].locked =>
         \/ functions'[n] = functions[n]
         \/ Unlock(n) \/ FunctionDefinition(n)
         \/ AtBase /\ stack' = Base(functions[n].file)]_lookupVars

(* A cached negative hides nothing: a name that is not loaded and was once
   not found has neither a file on the search path nor a definition further
   on in the command.  The code breaks it in four ways. *)
NothingHidden ==
  \A n \in not_found_functions :
    functions[n] = None => ~Listed(n) /\ n \notin later
=============================================================================
