--------------------- MODULE ProjectExclusionsTheorems ---------------------
(***************************************************************************)
(* The path lists of a project implement the sets of excluded files of     *)
(* ExclusionSet, for all trees, requests and dotfiles.                     *)
(*                                                                         *)
(* An inclusion opens up one entry only, so that it has its effect on      *)
(* files when no entry lies below another one.  That holds of the list in  *)
(* memory as long as it holds of the list a load takes over, which is the  *)
(* one written by hand or one that the server wrote.                       *)
(***************************************************************************)
EXTENDS ProjectExclusions, ProjectTheorems

AbsolutePath == {p \in Path : p # <<>> /\ p[1] = "/"}

\* The project, its files and the paths in requests are absolute.
PathsAbsolute == {Root} \union Files \union Resources \subseteq AbsolutePath

\* The project's folder is no file.
RootIsFolder == \A f \in Files : ~IsPathPartOfPath(Root, f)

\* A missing section is told apart from a list.
NoneIsNoList == None \notin (SUBSET Path) \union (SUBSET Macro)

\* The paths that a list of exclusions stands for do not lie below one another.
ListApart(content) ==
  content # NoDotfile =>
    content.excludePaths = None
      \/ NonNested({Resolve(Root, e) : e \in content.excludePaths})

\* So it is with the lists that a user writes.  The code does not check it.
HandListsApart ==
  \A content \in FirstDotfiles \union Dotfiles : ListApart(content)

\* The inductive invariant.
ListsInv ==
  /\ excludedPaths \subseteq AbsolutePath
  /\ NonNested(excludedPaths)
  /\ ListApart(dotfile)
-----------------------------------------------------------------------------
(* The lists *)

LEMMA NodesAbsolute ==
  ASSUME PathsAbsolute
  PROVE  Nodes \subseteq AbsolutePath
<1>1. ASSUME NEW f \in Files, NEW n \in DOMAIN f
      PROVE  SubSeq(f, 1, n) \in AbsolutePath
  <2>1. f \in Path /\ f[1] = "/"
    BY DEF PathsAbsolute, AbsolutePath
  <2>2. n \in Nat /\ 1 <= n /\ n <= Len(f)
    BY <2>1 DEF Path
  <2>3. /\ SubSeq(f, 1, n) \in Path
        /\ Len(SubSeq(f, 1, n)) = n
        /\ \A i \in 1..n : SubSeq(f, 1, n)[i] = f[i]
    BY <2>1, <2>2, PrefixAbove
  <2>4. SubSeq(f, 1, n)[1] = "/" /\ Len(SubSeq(f, 1, n)) # 0
    BY <2>1, <2>2, <2>3
  <2>5. SubSeq(f, 1, n) # <<>>
    BY <2>4
  <2> HIDE DEF Path
  <2> QED BY <2>3, <2>4, <2>5 DEF AbsolutePath
<1>2. ASSUME NEW e \in Nodes
      PROVE  \E f \in Files : \E n \in DOMAIN f : e = SubSeq(f, 1, n)
  BY DEF Nodes
<1> QED BY <1>1, <1>2

\* A load takes over paths that are absolute and apart.
LEMMA ListedAbsolute ==
  ASSUME PathsAbsolute, dotfile \in Dotfile, dotfile.excludePaths # None
  PROVE  Listed \subseteq AbsolutePath
<1>1. dotfile.excludePaths \subseteq Path /\ Root \in AbsolutePath
  BY DEF Dotfile, PathsAbsolute
<1>2. ASSUME NEW e \in Path
      PROVE  Resolve(Root, e) \in AbsolutePath
  <2>1. CASE e # <<>> /\ e[1] = "/"
    BY <2>1 DEF Resolve, AbsolutePath
  <2>2. CASE ~(e # <<>> /\ e[1] = "/")
    <3>1. Root \in Seq(STRING) /\ e \in Seq(STRING) /\ Len(Root) \in Nat \ {0} /\ Root[1] = "/"
      BY <1>1 DEF AbsolutePath, Path
    <3>2. Root \o e \in Seq(STRING) /\ Len(Root \o e) = Len(Root) + Len(e) /\ (Root \o e)[1] = Root[1]
      BY <3>1, ConcatProperties
    <3>3. Root \o e # <<>>
      BY <3>1, <3>2
    <3> QED BY <2>2, <3>1, <3>2, <3>3 DEF Resolve, AbsolutePath, Path
  <2> QED BY <2>1, <2>2
<1> QED BY <1>1, <1>2 DEF Listed

LEMMA LoadedApart ==
  ASSUME PathsAbsolute, ListApart(dotfile), dotfile \in Dotfile,
         NEW excluded \in SUBSET AbsolutePath, NonNested(excluded)
  PROVE  LoadedExclusions(excluded) \subseteq AbsolutePath
           /\ NonNested(LoadedExclusions(excluded))
<1>1. CASE dotfile.excludePaths = None
  BY <1>1 DEF LoadedExclusions
<1>2. CASE dotfile.excludePaths # None
  <2>1. NonNested(Listed)
    BY <1>2, ProjectAssumption DEF ListApart, Listed
  <2> QED BY <1>2, <2>1, ListedAbsolute DEF LoadedExclusions, NonNested
<1> QED BY <1>1, <1>2

\* What is written is the list in memory, whose entries are absolute.
LEMMA DumpApart ==
  ASSUME NEW us, NEW macros, NEW suppressions,
         NEW excluded \in SUBSET AbsolutePath, NonNested(excluded)
  PROVE  LET dump == Dump(us, excluded, macros, suppressions) IN
         /\ ListApart(dump)
         /\ {Resolve(Root, e) : e \in dump.excludePaths} = excluded
<1>1. \A e \in excluded : Resolve(Root, e) = e
  BY DEF Resolve, AbsolutePath
<1> QED BY <1>1 DEF Dump, ListApart

LEMMA WriteDotfileApart ==
  ASSUME ListApart(dotfile), WriteDotfile,
         excludedPaths' \subseteq AbsolutePath, NonNested(excludedPaths')
  PROVE  ListApart(dotfile)'
<1>1. CASE dotfile' = dotfile
  BY <1>1 DEF ListApart
<1>2. CASE dotfile' = Dump(units', excludedPaths', defines', suppressed')
  <2>1. ListApart(Dump(units', excludedPaths', defines', suppressed'))
    BY DumpApart
  <2> QED BY <1>2, <2>1 DEF ListApart
<1> QED BY <1>1, <1>2 DEF WriteDotfile

-----------------------------------------------------------------------------
(* The invariant *)

LEMMA InitApart ==
  ASSUME HandListsApart, Init
  PROVE  ListsInv
BY DEF Init, ListsInv, HandListsApart, NonNested

\* What an exclusion and an inclusion leave is absolute, and it is apart.
LEMMA ChangedAbsolute ==
  ASSUME PathsAbsolute, NEW path \in Resources, NEW excluded \in SUBSET AbsolutePath
  PROVE  /\ Excluding(excluded, path) \subseteq AbsolutePath
         /\ \A list \in Including(excluded, path, Nodes) : list \subseteq AbsolutePath
<1>1. path \in AbsolutePath
  BY DEF PathsAbsolute
<1>2. Excluding(excluded, path) \subseteq AbsolutePath
  BY <1>1 DEF Excluding
<1>3. Kept(excluded, path) \subseteq AbsolutePath
  BY DEF Kept
<1>4. \A a : Siblings(a, path, Nodes) \subseteq AbsolutePath
  BY NodesAbsolute DEF Siblings
<1> QED BY <1>2, <1>3, <1>4 DEF Including

LEMMA ChangedApart ==
  ASSUME PathsAbsolute, NEW path \in Resources,
         NEW excluded \in SUBSET AbsolutePath, NonNested(excluded)
  PROVE  /\ ~IsPathExcluded(path, excluded) =>
              /\ Excluding(excluded, path) \subseteq AbsolutePath
              /\ NonNested(Excluding(excluded, path))
         /\ \A list \in Including(excluded, path, Nodes) :
              list \subseteq AbsolutePath /\ NonNested(list)
<1>1. path \in Path /\ excluded \in SUBSET Path
  BY DEF PathsAbsolute, AbsolutePath
<1>2. Nodes \in SUBSET Path
  BY NodesAbsolute DEF AbsolutePath
<1> QED BY <1>1, <1>2, ChangedAbsolute, ExcludingApart, IncludingApart

LEMMA NextApart ==
  ASSUME PathsAbsolute, HandListsApart, DotfileOK, ListsInv, [Next]_vars
  PROVE  ListsInv'
<1> DEFINE loaded == LoadedExclusions(excludedPaths)
<1>1. dotfile \in Dotfile /\ ~(dotfile = NoDotfile)
        => loaded \subseteq AbsolutePath /\ NonNested(loaded)
  BY LoadedApart DEF ListsInv
<1>2. dotfile \in Dotfile \union {NoDotfile}
  BY DEF DotfileOK
<1>3. CASE SetProjectPath
  <2>1. NonNested({})
    BY DEF NonNested
  <2>2. dotfile # NoDotfile => LoadedExclusions({}) \subseteq AbsolutePath
                                 /\ NonNested(LoadedExclusions({}))
    BY <1>2, <2>1, LoadedApart DEF ListsInv
  <2> QED BY <1>3, <2>1, <2>2 DEF SetProjectPath, ListsInv, ListApart
<1>4. CASE ReloadDotfile
  BY <1>1, <1>2, <1>4 DEF ReloadDotfile, ListsInv, ListApart
<1>5. ASSUME UNCHANGED <<excludedPaths, dotfile>>
      PROVE  ListsInv'
  BY <1>5 DEF ListsInv, ListApart
<1>6. ASSUME NEW path \in Resources, ExcludeResource(path)
      PROVE  ListsInv'
  <2>1. loaded \subseteq AbsolutePath /\ NonNested(loaded)
    BY <1>1, <1>2, <1>6 DEF ExcludeResource, Accepted
  <2>2. CASE IsPathExcluded(path, loaded)
    BY <1>6, <2>1, <2>2 DEF ExcludeResource, ListsInv, ListApart
  <2>3. CASE ~IsPathExcluded(path, loaded)
    <3>1. excludedPaths' = Excluding(loaded, path) /\ WriteDotfile
      BY <1>6, <2>3 DEF ExcludeResource
    <3>2. excludedPaths' \subseteq AbsolutePath /\ NonNested(excludedPaths')
      BY <2>1, <2>3, <3>1, ChangedApart
    <3> QED BY <3>1, <3>2, WriteDotfileApart DEF ListsInv
  <2> QED BY <2>2, <2>3
<1>7. ASSUME NEW path \in Resources, IncludeResource(path)
      PROVE  ListsInv'
  <2>1. loaded \subseteq AbsolutePath /\ NonNested(loaded)
    BY <1>1, <1>2, <1>7 DEF IncludeResource, Accepted
  <2>2. excludedPaths' \in Including(loaded, path, Nodes) /\ WriteDotfile
    BY <1>7 DEF IncludeResource
  <2>3. excludedPaths' \subseteq AbsolutePath /\ NonNested(excludedPaths')
    BY <2>1, <2>2, ChangedApart
  <2> QED BY <2>2, <2>3, WriteDotfileApart DEF ListsInv
<1>8. ASSUME NEW macros \in MacroSets, SetMacros(macros)
      PROVE  ListsInv'
  BY <1>1, <1>2, <1>8, WriteDotfileApart DEF SetMacros, ListsInv
<1>9. ASSUME NEW path \in Imports, AddRootUnit(path) \/ RemoveRootUnit(path)
      PROVE  ListsInv'
  BY <1>9, WriteDotfileApart DEF AddRootUnit, RemoveRootUnit, ListsInv
<1>10. CASE Crash
  BY <1>10 DEF Crash, ListsInv, ListApart, NullDotfile, NonNested
<1>11. ASSUME NEW content \in Dotfiles, EditDotfile(content)
       PROVE  ListsInv'
  BY <1>11 DEF EditDotfile, ListsInv, HandListsApart, ListApart
<1>12. CASE UNCHANGED <<excludedPaths, dotfile>>
  BY <1>5, <1>12
<1> HIDE DEF loaded
<1>13. CASE Request
  BY <1>3, <1>4, <1>5, <1>6, <1>7, <1>8, <1>9, <1>13
     DEF Request, AddFile, UpdateFileBuffer, RemoveFileIfNoEnt, RejectResource
<1>14. CASE Environment
  BY <1>5, <1>10, <1>11, <1>14 DEF Environment, SaveDocument, DeleteFile, CreateFile
<1> QED BY <1>12, <1>13, <1>14 DEF Next, vars

\* The lists of exclusions hold no entry below another one, in memory and in
\* the dotfile (Project::exclude_resource, include_resource, load_dotfile).
THEOREM ListsStayApart ==
  ASSUME PathsAbsolute, HandImportsApart, HandListsApart
  PROVE  Spec => []ListsApart
<1>1. Init => ListsInv
  BY InitApart
<1>2. UnitsInv /\ ListsInv /\ [Next]_vars => ListsInv'
  BY NextApart DEF UnitsInv
<1>3. ListsInv => ListsApart
  BY DEF ListsInv, ListsApart, ListApart, Listed
<1> QED BY <1>1, <1>2, <1>3, Invariance, PTL DEF Spec

-----------------------------------------------------------------------------
(* The sets of files *)

LEMMA ExcludedByFiles ==
  ASSUME NEW paths
  PROVE  ExcludedBy(paths) \in SUBSET Files
BY DEF ExcludedBy

\* The list of a dotfile and that of the files it excludes are missing together.
LEMMA SavedIs ==
  ASSUME NoneIsNoList, dotfile # NoDotfile
  PROVE  /\ dotfile.excludePaths = None => Saved = None
         /\ dotfile.excludePaths # None => Saved = ExcludedBy(Listed) /\ Saved # None
<1>1. ExcludedBy(Listed) \in SUBSET Path
  BY ExcludedByFiles, FilesAreLeaves
<1> QED BY <1>1 DEF Saved, NoneIsNoList

\* What a reflection of a set is, by its elements.
LEMMA ReflectionIs ==
  ASSUME NEW new, NEW old, new \subseteq old, \A f \in old : f \in Present => f \in new
  PROVE  new \in Exclusions!Reflections(old)
<1>1. old \ new \in SUBSET (old \ Present) /\ new = old \ (old \ new)
  OBVIOUS
<1> QED BY <1>1 DEF Exclusions!Reflections

\* A file that exists and lies below an entry keeps the entry on the list, so
\* that a load forgets only files that do not exist.
LEMMA LoadedReflects ==
  ASSUME NEW f \in Present, f \in ExcludedBy(Listed)
  PROVE  f \in ExcludedBy({p \in Listed : Exists(p)})
<1>1. PICK p \in Listed : IsPathPartOfPath(f, p)
  BY DEF ExcludedBy, IsPathExcluded
<1>2. Exists(p)
  BY <1>1 DEF Exists, Present
<1> QED BY <1>1, <1>2 DEF ExcludedBy, IsPathExcluded

LEMMA LoadedImplements ==
  ASSUME NoneIsNoList, dotfile # NoDotfile
  PROVE  ExcludedBy(LoadedExclusions(excludedPaths)) \in Exclusions!Loads
<1>1. CASE dotfile.excludePaths = None
  BY <1>1, SavedIs DEF LoadedExclusions, Exclusions!Loads, Live
<1>2. CASE dotfile.excludePaths # None
  <2>1. ExcludedBy({p \in Listed : Exists(p)}) \subseteq ExcludedBy(Listed)
    BY DEF ExcludedBy, IsPathExcluded
  <2>2. ExcludedBy({p \in Listed : Exists(p)}) \in Exclusions!Reflections(ExcludedBy(Listed))
    BY <2>1, LoadedReflects, ReflectionIs
  <2> QED BY <1>2, <2>2, SavedIs DEF LoadedExclusions, Exclusions!Loads
<1> QED BY <1>1, <1>2

\* Writing the dotfile saves the set in memory, or leaves the saved one.
LEMMA WriteDotfileSaves ==
  ASSUME NoneIsNoList, WriteDotfile, UnitsInv',
         excludedPaths' \subseteq AbsolutePath, NonNested(excludedPaths')
  PROVE  Exclusions!MaySave
<1> DEFINE dump == Dump(units', excludedPaths', defines', suppressed')
<1>1. CASE dotfile' = dotfile
  BY <1>1 DEF Saved, Listed, Exclusions!MaySave
<1>2. CASE dotfile' = dump
  <2>1. Valued(defines') \subseteq MacroEntry
    BY ValuedOK, MacrosAreEntries DEF UnitsInv, ServerOK
  <2>2. dump \in Dotfile
    BY <2>1 DEF Dump, Dotfile, UnitsInv, GoodUnits, ServerOK
  <2>3. dotfile' # NoDotfile
    BY <1>2, <2>2, ProjectAssumption
  <2>4. dotfile'.excludePaths = excludedPaths' /\ dotfile'.excludePaths # None
    <3>1. excludedPaths' \in SUBSET Path
      BY DEF AbsolutePath
    <3> QED BY <1>2, <3>1 DEF Dump, NoneIsNoList
  <2>5. Listed' = excludedPaths'
    BY <1>2, DumpApart DEF Listed
  <2> QED BY <2>3, <2>4, <2>5 DEF Saved, Live, Exclusions!MaySave
<1> QED BY <1>1, <1>2 DEF WriteDotfile

\* Excluding a path excludes the files below it, whether or not the path was
\* excluded before.
LEMMA ExcludingEffect ==
  ASSUME NEW excluded \in SUBSET Path, NEW path \in Path
  PROVE  /\ ExcludedBy(Excluding(excluded, path)) = ExcludedBy(excluded) \union Below(path)
         /\ IsPathExcluded(path, excluded) => Below(path) \subseteq ExcludedBy(excluded)
<1>1. Files \subseteq Path
  BY FilesAreLeaves
<1>2. ExcludedBy(Excluding(excluded, path)) = ExcludedBy(excluded) \union Below(path)
  BY <1>1, ExcludingCovers DEF ExcludedBy, Below
<1>3. ASSUME IsPathExcluded(path, excluded), NEW f \in Below(path)
      PROVE  f \in ExcludedBy(excluded)
  <2>1. PICK p \in excluded : IsPathPartOfPath(path, p)
    BY <1>3 DEF IsPathExcluded
  <2>2. f \in Files /\ f \in Path /\ IsPathPartOfPath(f, path)
    BY <1>1, <1>3 DEF Below
  <2>3. IsPathPartOfPath(f, p)
    BY <2>1, <2>2, PartOfTransitive
  <2> QED BY <2>1, <2>2, <2>3 DEF ExcludedBy, IsPathExcluded
<1> QED BY <1>2, <1>3

\* A path that exists and lies below a file is that file.
LEMMA NothingBelowFiles ==
  ASSUME RootIsFolder, PathsAbsolute, NEW f \in Files, NEW path \in Path,
         Exists(path), IsPathPartOfPath(path, f)
  PROVE  IsPathPartOfPath(f, path)
<1>1. f \in Path /\ Root \in Path
  BY FilesAreLeaves, ProjectAssumption
<1>2. ~IsPathPartOfPath(Root, path)
  BY <1>1, PartOfTransitive DEF RootIsFolder
<1>3. PICK g \in Files : IsPathPartOfPath(g, path)
  BY <1>2 DEF Exists
<1>4. g \in Path /\ IsPathPartOfPath(g, f)
  BY <1>1, <1>3, PartOfTransitive, FilesAreLeaves
<1>5. g = f
  BY <1>3, <1>4, FilesAreLeaves DEF NonNested
<1> QED BY <1>3, <1>5

\* Including a path includes the files below it and no other file that exists.
LEMMA IncludingEffect ==
  ASSUME RootIsFolder, PathsAbsolute,
         NEW excluded \in SUBSET Path, NonNested(excluded),
         NEW path \in Path, Exists(path),
         NEW list \in Including(excluded, path, Nodes)
  PROVE  ExcludedBy(list) \in Exclusions!Reflections(ExcludedBy(excluded) \ Below(path))
<1>1. Files \subseteq Path /\ Nodes \in SUBSET Path
  BY FilesAreLeaves, NodesAbsolute DEF AbsolutePath
<1>2. ASSUME NEW f \in ExcludedBy(list)
      PROVE  f \in ExcludedBy(excluded) \ Below(path)
  <2>1. f \in Files /\ f \in Path /\ IsPathExcluded(f, list)
    BY <1>1 DEF ExcludedBy
  <2>2. IsPathExcluded(f, excluded) /\ ~IsPathPartOfPath(f, path)
    BY <1>1, <2>1, IncludingSound
  <2> QED BY <2>1, <2>2 DEF ExcludedBy, Below
<1>3. ASSUME NEW f \in ExcludedBy(excluded) \ Below(path), f \in Present
      PROVE  f \in ExcludedBy(list)
  <2>1. /\ f \in Files /\ f \in Path /\ disk[f] # NoText
        /\ IsPathExcluded(f, excluded) /\ ~IsPathPartOfPath(f, path)
    BY <1>1, <1>3 DEF ExcludedBy, Below, Present
  <2>2. ~IsPathPartOfPath(path, f)
    BY <2>1, NothingBelowFiles
  <2>3. ASSUME NEW n \in DOMAIN f
        PROVE  SubSeq(f, 1, n) \in Nodes
    <3> DEFINE prefixes(g) == {SubSeq(g, 1, m) : m \in DOMAIN g}
    <3>1. f \in {g \in Files : disk[g] # NoText}
      BY <2>1
    <3>2. SubSeq(f, 1, n) \in prefixes(f)
      OBVIOUS
    <3>3. Nodes = UNION {prefixes(g) : g \in {h \in Files : disk[h] # NoText}}
      BY DEF Nodes
    <3> HIDE DEF prefixes
    <3> QED BY <3>1, <3>2, <3>3
  <2>4. IsPathExcluded(f, list)
    BY <1>1, <2>1, <2>2, <2>3, IncludingComplete
  <2> QED BY <2>1, <2>4 DEF ExcludedBy
<1> QED BY <1>2, <1>3, ReflectionIs

-----------------------------------------------------------------------------
(* Every step is a step of ExclusionSet or leaves its sets as they are *)

\* What is invariant, and stays so, in the lemmas below.
Inv == UnitsInv /\ ListsInv

\* The facts that the requests which load the dotfile share.
LEMMA LoadedFacts ==
  ASSUME PathsAbsolute, Inv, dotfile # NoDotfile
  PROVE  /\ LoadedExclusions(excludedPaths) \in SUBSET Path
         /\ NonNested(LoadedExclusions(excludedPaths))
<1>1. dotfile \in Dotfile /\ ListsInv
  BY DEF Inv, UnitsInv, DotfileOK
<1> QED BY <1>1, LoadedApart DEF ListsInv, AbsolutePath

LEMMA SavesAfter ==
  ASSUME NoneIsNoList, Inv', WriteDotfile
  PROVE  Exclusions!MaySave
BY WriteDotfileSaves DEF Inv, ListsInv

LEMMA InitImplements ==
  ASSUME NoneIsNoList, Init
  PROVE  Exclusions!Init
<1>1. Live = {}
  BY DEF Init, Live, ExcludedBy, IsPathExcluded
<1>2. Saved \in {None} \union SUBSET Files
  BY ExcludedByFiles DEF Saved
<1> QED BY <1>1, <1>2 DEF Exclusions!Init, Present

LEMMA SetProjectPathImplements ==
  ASSUME NoneIsNoList, SetProjectPath
  PROVE  Exclusions!Open \/ Exclusions!Close
<1>1. Present' = Present /\ Saved' = Saved
  BY DEF SetProjectPath, Present, Saved, Listed
<1>2. CASE dotfile = NoDotfile
  BY <1>1, <1>2 DEF SetProjectPath, Live, ExcludedBy, IsPathExcluded, Exclusions!Close
<1>3. CASE dotfile # NoDotfile
  <2>1. Live' = ExcludedBy(LoadedExclusions({}))
    BY <1>3 DEF SetProjectPath, Live, ExcludedBy
  <2>2. CASE dotfile.excludePaths = None
    BY <1>1, <1>3, <2>1, <2>2, SavedIs
       DEF LoadedExclusions, ExcludedBy, IsPathExcluded, Exclusions!Open
  <2>3. CASE dotfile.excludePaths # None
    <3>1. ExcludedBy({p \in Listed : Exists(p)}) \subseteq ExcludedBy(Listed)
      BY DEF ExcludedBy, IsPathExcluded
    <3>2. Live' \in Exclusions!Reflections(Saved)
      BY <1>3, <2>1, <2>3, <3>1, SavedIs, LoadedReflects, ReflectionIs
         DEF LoadedExclusions
    <3> QED BY <1>1, <1>3, <2>3, <3>2, SavedIs DEF Exclusions!Open
  <2> QED BY <2>2, <2>3
<1> QED BY <1>2, <1>3

LEMMA ReloadDotfileImplements ==
  ASSUME NoneIsNoList, ReloadDotfile
  PROVE  Exclusions!Load
<1>1. Live' = ExcludedBy(LoadedExclusions(excludedPaths))
  BY DEF ReloadDotfile, Live, ExcludedBy
<1>2. Present' = Present /\ Saved' = Saved
  BY DEF ReloadDotfile, Present, Saved, Listed
<1>3. Live' \in Exclusions!Loads
  BY <1>1, LoadedImplements DEF ReloadDotfile
<1> QED BY <1>2, <1>3 DEF Exclusions!Load, Exclusions!MaySave

LEMMA SetMacrosImplements ==
  ASSUME NoneIsNoList, Inv', NEW macros \in MacroSets, SetMacros(macros)
  PROVE  Exclusions!Load
<1>1. Live' = ExcludedBy(LoadedExclusions(excludedPaths))
  BY DEF SetMacros, Live, ExcludedBy
<1>2. Present' = Present
  BY DEF SetMacros, Present
<1>3. Live' \in Exclusions!Loads
  BY <1>1, LoadedImplements DEF SetMacros
<1>4. Exclusions!MaySave
  BY SavesAfter DEF SetMacros
<1> QED BY <1>2, <1>3, <1>4 DEF Exclusions!Load

LEMMA ExcludeResourceImplements ==
  ASSUME PathsAbsolute, NoneIsNoList, Inv, Inv',
         NEW path \in Resources, ExcludeResource(path)
  PROVE  Exclusions!Exclude(Below(path))
<1> DEFINE loaded == LoadedExclusions(excludedPaths)
<1>1. path \in Path /\ dotfile # NoDotfile
  BY ProjectAssumption DEF ExcludeResource, Accepted
<1>2. loaded \in SUBSET Path
  BY <1>1, LoadedFacts
<1>3. ExcludedBy(loaded) \in Exclusions!Loads
  BY <1>1, LoadedImplements
<1>4. Present' = Present
  BY DEF ExcludeResource, LoadForResource, Present
<1>5. Live' = ExcludedBy(excludedPaths')
  BY DEF Live, ExcludedBy
<1>6. CASE IsPathExcluded(path, loaded)
  <2>1. excludedPaths' = loaded /\ dotfile' = dotfile
    BY <1>6 DEF ExcludeResource
  <2>2. Saved' = Saved
    BY <2>1 DEF Saved, Listed
  <2>3. Live' = ExcludedBy(loaded) \union Below(path)
    BY <1>1, <1>2, <1>5, <1>6, <2>1, ExcludingEffect
  <2> QED BY <1>3, <1>4, <2>2, <2>3 DEF Exclusions!Exclude, Exclusions!MaySave
<1>7. CASE ~IsPathExcluded(path, loaded)
  <2>1. excludedPaths' = Excluding(loaded, path) /\ WriteDotfile
    BY <1>7 DEF ExcludeResource
  <2>2. Live' = ExcludedBy(loaded) \union Below(path)
    BY <1>1, <1>2, <1>5, <2>1, ExcludingEffect
  <2>3. Exclusions!MaySave
    BY <2>1, SavesAfter
  <2> QED BY <1>3, <1>4, <2>2, <2>3 DEF Exclusions!Exclude
<1> QED BY <1>6, <1>7

LEMMA IncludeResourceImplements ==
  ASSUME PathsAbsolute, RootIsFolder, NoneIsNoList, Inv, Inv',
         NEW path \in Resources, IncludeResource(path)
  PROVE  Exclusions!Include(Below(path))
<1> DEFINE loaded == LoadedExclusions(excludedPaths)
<1>1. path \in Path /\ dotfile # NoDotfile /\ Exists(path)
  BY ProjectAssumption DEF IncludeResource, Accepted
<1>2. loaded \in SUBSET Path /\ NonNested(loaded)
  BY <1>1, LoadedFacts
<1>3. ExcludedBy(loaded) \in Exclusions!Loads
  BY <1>1, LoadedImplements
<1>4. Present' = Present
  BY DEF IncludeResource, LoadForResource, Present
<1>5. Live' = ExcludedBy(excludedPaths')
  BY DEF Live, ExcludedBy
<1>6. excludedPaths' \in Including(loaded, path, Nodes) /\ WriteDotfile
  BY DEF IncludeResource
<1>7. Live' \in Exclusions!Reflections(ExcludedBy(loaded) \ Below(path))
  <2> HIDE DEF loaded
  <2> QED BY <1>1, <1>2, <1>5, <1>6, IncludingEffect
<1>8. Exclusions!MaySave
  BY <1>6, SavesAfter
<1> QED BY <1>3, <1>4, <1>7, <1>8 DEF Exclusions!Include

LEMMA RootUnitImplements ==
  ASSUME NoneIsNoList, Inv',
         NEW path \in Imports, AddRootUnit(path) \/ RemoveRootUnit(path)
  PROVE  Exclusions!Save
<1>1. UNCHANGED <<excludedPaths, disk>> /\ WriteDotfile
  BY DEF AddRootUnit, RemoveRootUnit
<1>2. Live' = Live /\ Present' = Present
  BY <1>1 DEF Live, ExcludedBy, Present
<1> QED BY <1>1, <1>2, SavesAfter DEF Exclusions!Save

LEMMA CrashImplements ==
  ASSUME Crash
  PROVE  Exclusions!Close
<1>1. Live' = {} /\ Present' = Present
  BY DEF Crash, Live, ExcludedBy, IsPathExcluded, Present
<1>2. dotfile' = dotfile => Saved' = Saved
  BY DEF Saved, Listed
<1>3. dotfile' = NullDotfile => Saved' = None
  BY DEF Saved, NullDotfile
<1> QED BY <1>1, <1>2, <1>3 DEF Crash, Exclusions!Close

LEMMA EditDotfileImplements ==
  ASSUME NEW content \in Dotfiles, EditDotfile(content)
  PROVE  Exclusions!Edit
<1>1. Live' = Live /\ Present' = Present
  BY DEF EditDotfile, Live, ExcludedBy, Present
<1>2. ExcludedBy(Listed') \in SUBSET Files /\ Saved' \in {None, ExcludedBy(Listed')}
  BY ExcludedByFiles DEF Saved, ExcludedBy
<1> QED BY <1>1, <1>2 DEF Exclusions!Edit

\* A step that leaves the lists alone changes at most what files there are.
LEMMA OthersImplement ==
  ASSUME UNCHANGED <<excludedPaths, dotfile>>
  PROVE  Exclusions!Appear
<1>1. Live' = Live /\ Saved' = Saved
  BY DEF Live, ExcludedBy, Saved, Listed
<1>2. Present' \in SUBSET Files
  BY DEF Present
<1> QED BY <1>1, <1>2 DEF Exclusions!Appear

LEMMA NextImplements ==
  ASSUME PathsAbsolute, RootIsFolder, NoneIsNoList, Inv, Inv', [Next]_vars
  PROVE  [Exclusions!Next]_(Exclusions!vars)
<1>1. \A path \in Resources : Below(path) \in SUBSET Files
  BY DEF Below
<1>2. CASE SetProjectPath
  BY <1>2, SetProjectPathImplements DEF Exclusions!Next
<1>3. CASE ReloadDotfile
  BY <1>3, ReloadDotfileImplements DEF Exclusions!Next
<1>4. ASSUME NEW path \in Resources, ExcludeResource(path)
      PROVE  Exclusions!Next
  BY <1>1, <1>4, ExcludeResourceImplements DEF Exclusions!Next
<1>5. ASSUME NEW path \in Resources, IncludeResource(path)
      PROVE  Exclusions!Next
  BY <1>1, <1>5, IncludeResourceImplements DEF Exclusions!Next
<1>6. ASSUME NEW macros \in MacroSets, SetMacros(macros)
      PROVE  Exclusions!Next
  BY <1>6, SetMacrosImplements DEF Exclusions!Next
<1>7. ASSUME NEW path \in Imports, AddRootUnit(path) \/ RemoveRootUnit(path)
      PROVE  Exclusions!Next
  BY <1>7, RootUnitImplements DEF Exclusions!Next
<1>8. CASE Crash
  BY <1>8, CrashImplements DEF Exclusions!Next
<1>9. ASSUME NEW content \in Dotfiles, EditDotfile(content)
      PROVE  Exclusions!Next
  BY <1>9, EditDotfileImplements DEF Exclusions!Next
<1>10. ASSUME UNCHANGED <<excludedPaths, dotfile>>
       PROVE  Exclusions!Next
  BY <1>10, OthersImplement DEF Exclusions!Next
<1>11. CASE Request
  BY <1>2, <1>3, <1>4, <1>5, <1>6, <1>7, <1>10, <1>11
     DEF Request, AddFile, UpdateFileBuffer, RemoveFileIfNoEnt, RejectResource
<1>12. CASE Environment
  BY <1>8, <1>9, <1>10, <1>12 DEF Environment, SaveDocument, DeleteFile, CreateFile
<1>13. CASE UNCHANGED vars
  BY <1>10, <1>13 DEF vars
<1> QED BY <1>11, <1>12, <1>13 DEF Next

\* excludeResource and includeResource have their effect on the files below the
\* path they name, and on no other file that exists
\* (Project::exclude_resource, include_resource, exclude_helper).
THEOREM RequestsTouchWhatTheyName ==
  ASSUME PathsAbsolute, RootIsFolder, NoneIsNoList, HandImportsApart, HandListsApart
  PROVE  Spec => RequestsAsNamed
<1> DEFINE Named ==
      \A path \in Resources :
        /\ ExcludeResource(path) => Exclusions!Exclude(Below(path))
        /\ IncludeResource(path) => Exclusions!Include(Below(path))
<1>1. Init => ListsInv
  BY InitApart
<1>2. UnitsInv /\ ListsInv /\ [Next]_vars => ListsInv'
  BY NextApart DEF UnitsInv
<1>3. UnitsInv /\ UnitsInv' /\ ListsInv /\ ListsInv' /\ [Next]_vars => [Named]_vars
  BY ExcludeResourceImplements, IncludeResourceImplements DEF Inv
<1>4. Spec => [][Named]_vars
  <2> HIDE DEF Named
  <2> QED BY <1>1, <1>2, <1>3, Invariance, PTL DEF Spec
<1> QED BY <1>4 DEF RequestsAsNamed

\* Everything that reads or writes a list of exclusions changes the sets of
\* files as ExclusionSet says (Project::load_dotfile, write_dotfile and the
\* requests, crashes and hand edits between them).
THEOREM ExclusionsAreImplemented ==
  ASSUME PathsAbsolute, RootIsFolder, NoneIsNoList, HandImportsApart, HandListsApart
  PROVE  Spec => ExclusionsImplemented
<1>1. Init => Exclusions!Init
  BY InitImplements
<1>2. Init => ListsInv
  BY InitApart
<1>3. UnitsInv /\ ListsInv /\ [Next]_vars => ListsInv'
  BY NextApart DEF UnitsInv
<1>4. UnitsInv /\ UnitsInv' /\ ListsInv /\ ListsInv' /\ [Next]_vars
        => [Exclusions!Next]_(Exclusions!vars)
  BY NextImplements DEF Inv
<1> QED
  BY <1>1, <1>2, <1>3, <1>4, Invariance, PTL
     DEF Spec, ExclusionsImplemented, Exclusions!Spec
=============================================================================
