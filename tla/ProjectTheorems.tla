-------------------------- MODULE ProjectTheorems --------------------------
(***************************************************************************)
(* Whatever requests, crashes and edits by others come in which order: the *)
(* variables keep their types, no folder of a project lies below another,  *)
(* and no source is compiled for two folders.                              *)
(*                                                                         *)
(* UnitsApart is not inductive alone: the next load takes the folders from *)
(* the dotfile, so the dotfile's imports must be apart as well; and that   *)
(* targets of two folders are disjoint needs each folder's targets, and    *)
(* its cache from which the next ones come, to lie in the folder.          *)
(***************************************************************************)
EXTENDS Project, RootUnitTheorems

\* The imports of a dotfile do not lie below one another.
ImportsApart(content) ==
  content # NoDotfile => content.imports = None \/ NonNested(content.imports)

\* The imports of the dotfiles that a user writes are apart.  The code does
\* not check it.
HandImportsApart ==
  \A content \in FirstDotfiles \union Dotfiles : ImportsApart(content)

\* A map of folders to units as the methods leave it.
GoodUnits(us) ==
  /\ DOMAIN us \subseteq Path
  /\ us \in [DOMAIN us -> Unit]
  /\ NonNested(DOMAIN us)
  /\ \A dir \in DOMAIN us : Local(us[dir], dir)

\* The types of the server's variables other than its units, and those of the
\* variables around it.
ServerOK ==
  /\ excludedPaths \subseteq Path
  /\ defines \subseteq Macro
  /\ suppressed \subseteq STRING

DotfileOK == dotfile \in Dotfile \union {NoDotfile} /\ ImportsApart(dotfile)

FilesOK == disk \in Disk /\ editor \in Disk

\* The inductive invariant.
UnitsInv == GoodUnits(units) /\ ServerOK /\ DotfileOK /\ FilesOK
-----------------------------------------------------------------------------
(* The operators the actions are built from *)

LEMMA NoUnitsGood == GoodUnits(NoUnits)
BY DEF GoodUnits, NoUnits, NonNested

\* Replacing a unit by a good one keeps a map good.
LEMMA UpdateGood ==
  ASSUME NEW us, GoodUnits(us), NEW dir \in DOMAIN us,
         NEW unit \in Unit, Local(unit, dir)
  PROVE  GoodUnits([us EXCEPT ![dir] = unit])
BY DEF GoodUnits

LEMMA MarkStaleGood ==
  ASSUME NEW us, GoodUnits(us), NEW dir
  PROVE  GoodUnits(MarkStale(us, dir))
<1>1. CASE dir \in DOMAIN us
  <2>1. us[dir] \in Unit /\ Local(us[dir], dir)
    BY <1>1 DEF GoodUnits
  <2>2. LET new == [us[dir] EXCEPT !.stale = TRUE] IN new \in Unit /\ Local(new, dir)
    BY <2>1, MarkStaleOK
  <2> QED BY <1>1, <2>2, UpdateGood DEF MarkStale
<1>2. CASE dir \notin DOMAIN us
  BY <1>2 DEF MarkStale
<1> QED BY <1>1, <1>2

LEMMA ScanGood ==
  ASSUME NEW us, GoodUnits(us), NEW excluded, disk \in Disk
  PROVE  GoodUnits(Scan(us, excluded))
<1> DEFINE scanned == Scan(us, excluded)
<1>1. DOMAIN scanned = DOMAIN us
  BY DEF Scan
<1>2. ASSUME NEW dir \in DOMAIN us
      PROVE  scanned[dir] \in Unit /\ Local(scanned[dir], dir)
  <2>1. us[dir] \in Unit /\ Local(us[dir], dir)
    BY DEF GoodUnits
  <2>2. scanned[dir] \in {us[dir], ScanUnit(us[dir], dir, excluded, disk)}
    BY DEF Scan
  <2> QED BY <2>1, <2>2, ScanUnitOK
<1>3. scanned \in [DOMAIN us -> Unit]
  BY <1>2 DEF Scan
<1> QED BY <1>1, <1>2, <1>3 DEF GoodUnits

\* The unit that a path is looked up in contains the path.
LEMMA UnitViaContains ==
  ASSUME GoodUnits(units), NEW path \in Path, HasUnit(path)
  PROVE  /\ UnitVia(path) \in DOMAIN units
         /\ IsPathPartOfPath(path, UnitVia(path))
<1>1. PICK dir \in Containing(path) : TRUE
  BY DEF HasUnit
<1>2. \A other \in Containing(path) : other = dir
  BY <1>1, NonNestedUnique DEF Containing, GoodUnits
<1>3. dir \in Path
  BY <1>1 DEF Containing, GoodUnits
<1>4. Len(dir) <= Len(dir)
  BY <1>3 DEF Path
<1>5. \E d \in Containing(path) : \A other \in Containing(path) : Len(d) <= Len(other)
  BY <1>1, <1>2, <1>4
<1>6. UnitVia(path) \in Containing(path)
  BY <1>5 DEF UnitVia
<1> QED BY <1>6 DEF Containing

LEMMA UncachedGood ==
  ASSUME GoodUnits(units), NEW path \in Path
  PROVE  GoodUnits(Uncached(path)) /\ DOMAIN Uncached(path) = DOMAIN units
<1>1. CASE HasUnit(path)
  <2> DEFINE dir == UnitVia(path)
  <2>1. dir \in DOMAIN units
    BY <1>1, UnitViaContains
  <2>2. units[dir] \in Unit /\ Local(units[dir], dir)
    BY <2>1 DEF GoodUnits
  <2>3. ClearPathsCache(units[dir]) \in Unit /\ Local(ClearPathsCache(units[dir]), dir)
    BY <2>2, ClearPathsCacheOK
  <2>4. GoodUnits([units EXCEPT ![dir] = ClearPathsCache(units[dir])])
    BY <2>1, <2>3, UpdateGood
  <2> QED BY <1>1, <2>4 DEF Uncached
<1>2. CASE ~HasUnit(path)
  BY <1>2 DEF Uncached
<1> QED BY <1>1, <1>2

\* A folder that a load accepts neither contains the project nor lies in it.
LEMMA ImportableApart ==
  ASSUME NEW dir \in Path, Importable(dir)
  PROVE  ~IsPathPartOfPath(dir, Root) /\ ~IsPathPartOfPath(Root, dir)
<1>1. Root \in Path
  BY ProjectAssumption
<1>2. ASSUME NEW p \in Path, NEW q \in Path, IsPathPartOfPath(p, q)
      PROVE  IsStringPrefix(q, p, NamePrefixes)
  BY <1>2 DEF IsPathPartOfPath, IsStringPrefix, Path
<1> QED BY <1>1, <1>2 DEF Importable

LEMMA LoadedUnitsGood ==
  ASSUME NEW us, GoodUnits(us), Root \in DOMAIN us,
         dotfile \in Dotfile, dotfile # NoDotfile, ImportsApart(dotfile)
  PROVE  GoodUnits(LoadedUnits(us)) /\ Root \in DOMAIN LoadedUnits(us)
<1>1. CASE dotfile.imports = None
  BY <1>1 DEF LoadedUnits
<1>2. CASE dotfile.imports # None
  <2> DEFINE accepted == {d \in dotfile.imports : Importable(d)}
             loaded == LoadedUnits(us)
  <2>1. dotfile.imports \subseteq Path /\ NonNested(dotfile.imports)
    BY <1>2 DEF Dotfile, ImportsApart
  <2>2. loaded = [dir \in {Root} \union accepted |-> IF dir = Root THEN us[Root] ELSE NewUnit]
    BY <1>2 DEF LoadedUnits
  <2>3. NonNested(accepted \union {Root})
    <3>1. NonNested(accepted)
      BY <2>1, NonNestedSubset
    <3>2. \A d \in accepted : ~IsPathPartOfPath(Root, d) /\ ~IsPathPartOfPath(d, Root)
      BY <2>1, ImportableApart
    <3> QED BY <3>1, <3>2, NonNestedExtend
  <2>4. us[Root] \in Unit /\ Local(us[Root], Root)
    BY DEF GoodUnits
  <2>5. \A dir \in {Root} \union accepted :
          loaded[dir] \in Unit /\ Local(loaded[dir], dir)
    BY <2>2, <2>4, NewUnitOK
  <2>6. {Root} \union accepted \subseteq Path
    BY <2>1, ProjectAssumption
  <2>7. DOMAIN loaded = {Root} \union accepted /\ loaded \in [DOMAIN loaded -> Unit]
    <3> HIDE DEF accepted
    <3> QED BY <2>2, <2>5
  <2>8. {Root} \union accepted = accepted \union {Root}
    OBVIOUS
  <2> HIDE DEF accepted, loaded
  <2>9. GoodUnits(loaded) /\ Root \in DOMAIN loaded
    BY <2>3, <2>5, <2>6, <2>7, <2>8 DEF GoodUnits
  <2> QED BY <2>9 DEF loaded
<1> QED BY <1>1, <1>2

\* What a load leaves in the other variables has their types.
LEMMA ListedOK ==
  ASSUME dotfile \in Dotfile, dotfile.excludePaths # None
  PROVE  Listed \subseteq Path
<1>1. dotfile.excludePaths \subseteq Path /\ Root \in Path
  BY ProjectAssumption DEF Dotfile
<1>2. ASSUME NEW e \in Path
      PROVE  Resolve(Root, e) \in Path
  <2>1. Root \o e \in Path
    BY <1>1, ConcatProperties DEF Path
  <2> QED BY <2>1 DEF Resolve
<1> QED BY <1>1, <1>2 DEF Listed

LEMMA ValuedOK ==
  ASSUME NEW macros \in SUBSET Macro
  PROVE  Valued(macros) \subseteq Macro
<1>1. ASSUME NEW m \in Macro
      PROVE  <<m[1], IF m[2] = "" THEN "1" ELSE m[2]>> \in Macro
  BY DEF Macro
<1> QED BY <1>1 DEF Valued

\* An entry that is not skipped is a macro, and a macro is such an entry.
LEMMA CompleteOK ==
  ASSUME NEW entries \in SUBSET MacroEntry
  PROVE  Complete(entries) \in SUBSET Macro
<1>1. ASSUME NEW m \in MacroEntry, m[1] # None, m[2] # None
      PROVE  m \in Macro
  BY <1>1 DEF MacroEntry, Macro
<1> QED BY <1>1 DEF Complete

LEMMA MacrosAreEntries ==
  /\ Macro \subseteq MacroEntry
  /\ \A m \in Macro : None \notin {m[1], m[2]}
<1>1. Macro \subseteq MacroEntry
  BY DEF Macro, MacroEntry
<1>2. \A m \in Macro : m[1] # None /\ m[2] # None
  BY ProjectAssumption DEF Macro
<1> QED BY <1>1, <1>2

LEMMA LoadedOK ==
  ASSUME dotfile \in Dotfile,
         NEW excluded \in SUBSET Path,
         NEW macros \in SUBSET Macro,
         NEW suppressions \in SUBSET STRING
  PROVE  /\ LoadedExclusions(excluded) \subseteq Path
         /\ LoadedDefines(macros) \subseteq Macro
         /\ LoadedSuppressions(suppressions) \subseteq STRING
<1>1. LoadedExclusions(excluded) \subseteq Path
  BY ListedOK DEF LoadedExclusions
<1>2. LoadedDefines(macros) \subseteq Macro
  BY ValuedOK, CompleteOK DEF LoadedDefines, Dotfile
<1>3. LoadedSuppressions(suppressions) \subseteq STRING
  BY DEF LoadedSuppressions, Dotfile
<1> QED BY <1>1, <1>2, <1>3

\* What is written is a dotfile, and its imports are apart.
LEMMA WriteDotfileOK ==
  ASSUME DotfileOK, WriteDotfile, GoodUnits(units'), ServerOK'
  PROVE  DotfileOK'
<1> DEFINE dump == Dump(units', excludedPaths', defines', suppressed')
<1>1. dump \in Dotfile
  <2>1. Valued(defines') \subseteq MacroEntry
    BY ValuedOK, MacrosAreEntries DEF ServerOK
  <2> QED BY <2>1 DEF Dump, Dotfile, GoodUnits, ServerOK
<1>2. ImportsApart(dump)
  <2>1. NonNested(DOMAIN units' \ {Root})
    BY NonNestedSubset DEF GoodUnits
  <2> QED BY <2>1 DEF Dump, ImportsApart
<1>3. CASE dotfile' = dump
  BY <1>1, <1>2, <1>3 DEF DotfileOK, ImportsApart, Dotfile
<1>4. CASE dotfile' = dotfile
  BY <1>4 DEF DotfileOK, ImportsApart, Dotfile
<1> QED BY <1>3, <1>4 DEF WriteDotfile

\* The lists that an inclusion leaves are lists of paths.
LEMMA IncludingOK ==
  ASSUME NEW excluded \in SUBSET Path, NEW path,
         NEW list \in Including(excluded, path, Nodes)
  PROVE  list \subseteq Path
<1>1. Nodes \subseteq Path
  <2>1. ASSUME NEW f \in Files, NEW n \in DOMAIN f
        PROVE  SubSeq(f, 1, n) \in Path
    <3>1. f \in Path /\ n \in Nat /\ n <= Len(f)
      BY FilesAreLeaves DEF Path
    <3> QED BY <3>1, PrefixAbove
  <2>2. ASSUME NEW e \in Nodes
        PROVE  \E f \in Files : \E n \in DOMAIN f : e = SubSeq(f, 1, n)
    BY DEF Nodes
  <2> QED BY <2>1, <2>2
<1>2. Kept(excluded, path) \subseteq Path
  BY DEF Kept
<1>3. \A a : Siblings(a, path, Nodes) \subseteq Path
  BY <1>1 DEF Siblings
<1> QED BY <1>2, <1>3 DEF Including

-----------------------------------------------------------------------------
(* The initial state and the steps *)

LEMMA InitKeeps ==
  ASSUME HandImportsApart, Init
  PROVE  UnitsInv
<1>1. GoodUnits(units)
  BY NoUnitsGood DEF Init
<1>2. ServerOK /\ FilesOK
  BY ProjectAssumption DEF Init, ServerOK, FilesOK, Disk
<1>3. DotfileOK
  BY ProjectAssumption DEF Init, DotfileOK, HandImportsApart
<1> QED BY <1>1, <1>2, <1>3 DEF UnitsInv

\* The variables that a step leaves alone stay what they are.
LEMMA UnchangedOK ==
  ASSUME UnitsInv
  PROVE  /\ UNCHANGED units => GoodUnits(units')
         /\ UNCHANGED <<excludedPaths, defines, suppressed>> => ServerOK'
         /\ UNCHANGED dotfile => DotfileOK'
         /\ UNCHANGED <<disk, editor>> => FilesOK'
<1>1. ASSUME UNCHANGED units PROVE GoodUnits(units')
  BY <1>1 DEF UnitsInv
<1>2. ASSUME UNCHANGED <<excludedPaths, defines, suppressed>> PROVE ServerOK'
  BY <1>2 DEF UnitsInv, ServerOK
<1>3. ASSUME UNCHANGED dotfile PROVE DotfileOK'
  BY <1>3 DEF UnitsInv, DotfileOK, ImportsApart, Dotfile
<1>4. ASSUME UNCHANGED <<disk, editor>> PROVE FilesOK'
  BY <1>4 DEF UnitsInv, FilesOK, Disk
<1> QED BY <1>1, <1>2, <1>3, <1>4

LEMMA SetProjectPathKeeps ==
  ASSUME UnitsInv, SetProjectPath
  PROVE  UnitsInv'
<1>1. DotfileOK' /\ FilesOK'
  BY UnchangedOK DEF SetProjectPath
<1>2. CASE dotfile = NoDotfile
  <2>1. GoodUnits(units')
    BY <1>2, NoUnitsGood DEF SetProjectPath
  <2>2. ServerOK'
    BY <1>2 DEF SetProjectPath, ServerOK
  <2> QED BY <1>1, <2>1, <2>2 DEF UnitsInv
<1>3. CASE dotfile # NoDotfile
  <2> DEFINE first == [dir \in {Root} |-> NewUnit]
  <2>1. dotfile \in Dotfile /\ ImportsApart(dotfile) /\ disk \in Disk
    BY <1>3 DEF UnitsInv, DotfileOK, FilesOK
  <2>2. GoodUnits(first) /\ Root \in DOMAIN first
    <3>1. NewUnit \in Unit /\ Local(NewUnit, Root)
      BY NewUnitOK
    <3> QED BY <3>1, ProjectAssumption DEF GoodUnits, NonNested
  <2> HIDE DEF first
  <2>3. GoodUnits(LoadedUnits(first))
    BY <1>3, <2>1, <2>2, LoadedUnitsGood
  <2>4. GoodUnits(Scan(LoadedUnits(first), excludedPaths'))
    BY <2>1, <2>3, ScanGood
  <2>5. units' = Scan(LoadedUnits(first), excludedPaths')
    BY <1>3 DEF SetProjectPath, first
  <2>6. ServerOK'
    BY <1>3, <2>1, LoadedOK DEF SetProjectPath, ServerOK
  <2> QED BY <1>1, <2>4, <2>5, <2>6 DEF UnitsInv
<1> QED BY <1>2, <1>3

LEMMA CrashKeeps ==
  ASSUME UnitsInv, Crash
  PROVE  UnitsInv'
<1>1. GoodUnits(units')
  BY NoUnitsGood DEF Crash
<1>2. ServerOK' /\ FilesOK'
  BY DEF Crash, ServerOK, FilesOK, Disk, UnitsInv
<1>3. NullDotfile \in Dotfile /\ NullDotfile.imports = None
  BY DEF NullDotfile, Dotfile
<1>4. DotfileOK'
  BY <1>3, UnchangedOK DEF Crash, DotfileOK, ImportsApart, Dotfile
<1> QED BY <1>1, <1>2, <1>4 DEF UnitsInv

LEMMA ReloadDotfileKeeps ==
  ASSUME UnitsInv, ReloadDotfile
  PROVE  UnitsInv'
<1>1. DotfileOK' /\ FilesOK'
  BY UnchangedOK DEF ReloadDotfile
<1>2. dotfile \in Dotfile /\ dotfile # NoDotfile /\ ImportsApart(dotfile) /\ disk \in Disk
  BY DEF ReloadDotfile, UnitsInv, DotfileOK, FilesOK
<1>3. GoodUnits(LoadedUnits(units))
  BY <1>2, LoadedUnitsGood DEF ReloadDotfile, CurrentProject, UnitsInv
<1>4. GoodUnits(units')
  BY <1>2, <1>3, ScanGood DEF ReloadDotfile
<1>5. ServerOK'
  BY <1>2, LoadedOK DEF ReloadDotfile, ServerOK, UnitsInv
<1> QED BY <1>1, <1>4, <1>5 DEF UnitsInv

\* A method that changes one unit, to a good one, leaves a good map.
LEMMA DocumentUnit ==
  ASSUME UnitsInv, NEW f \in Documents, HasUnit(f)
  PROVE  /\ f \in Files
         /\ UnitVia(f) \in DOMAIN units
         /\ IsPathPartOfPath(f, UnitVia(f))
         /\ units[UnitVia(f)] \in Unit
         /\ Local(units[UnitVia(f)], UnitVia(f))
<1>1. f \in Files /\ f \in Path
  BY ProjectAssumption, FilesAreLeaves
<1>2. UnitVia(f) \in DOMAIN units /\ IsPathPartOfPath(f, UnitVia(f))
  BY <1>1, UnitViaContains DEF UnitsInv
<1> QED BY <1>1, <1>2 DEF UnitsInv, GoodUnits

LEMMA AddFileKeeps ==
  ASSUME UnitsInv, NEW f \in Documents, NEW text \in Texts, AddFile(f, text)
  PROVE  UnitsInv'
<1>1. ServerOK' /\ DotfileOK'
  BY UnchangedOK DEF AddFile
<1>2. FilesOK'
  BY ProjectAssumption DEF AddFile, FilesOK, Disk, UnitsInv
<1>3. CASE HasUnit(f)
  <2> DEFINE dir    == UnitVia(f)
             marked == [units[dir] EXCEPT !.stale = TRUE]
             stored == StoreFileContents(marked, f, text)
  <2>1. f \in Files /\ dir \in DOMAIN units /\ IsPathPartOfPath(f, dir)
    BY <1>3, DocumentUnit
  <2>2. marked \in Unit /\ Local(marked, dir)
    BY <1>3, DocumentUnit, MarkStaleOK
  <2> HIDE DEF dir, marked
  <2>3. stored \in Unit /\ Local(stored, dir)
    BY <2>1, <2>2, StoreFileContentsOK DEF StoreFileContents
  <2> HIDE DEF stored
  <2>4. /\ AddFileToCache(marked, f) \in Unit /\ Local(AddFileToCache(marked, f), dir)
        /\ AddFileToCache(stored, f) \in Unit /\ Local(AddFileToCache(stored, f), dir)
    BY <2>1, <2>2, <2>3, AddFileToCacheOK
  <2>5. Opened(units[dir], f, text) \in {AddFileToCache(marked, f), AddFileToCache(stored, f)}
    BY DEF Opened, marked, stored
  <2>6. GoodUnits([units EXCEPT ![dir] = Opened(units[dir], f, text)])
    BY <2>1, <2>4, <2>5, UpdateGood DEF UnitsInv
  <2> QED BY <1>1, <1>2, <1>3, <2>6 DEF AddFile, UnitsInv, dir
<1>4. CASE ~HasUnit(f)
  BY <1>1, <1>2, <1>4 DEF AddFile, UnitsInv
<1> QED BY <1>3, <1>4

\* An edit leaves the units good.
LEMMA EditedGood ==
  ASSUME UnitsInv, NEW f \in Documents, NEW text \in Texts, HasUnit(f)
  PROVE  GoodUnits([units EXCEPT ![UnitVia(f)] = Edited(units[UnitVia(f)], f, text)])
<1> DEFINE dir    == UnitVia(f)
           unit   == units[dir]
           marked == [unit EXCEPT !.stale = TRUE]
           added  == AddedIncludes(FileContents(unit, f), text)
           moved  == AddInlinedFiles(marked, added, excludedPaths)
           stored == StoreFileContents(moved, f, text)
<1>1. f \in Files /\ dir \in DOMAIN units /\ IsPathPartOfPath(f, dir)
  BY DocumentUnit
<1>2. marked \in Unit /\ Local(marked, dir)
  BY DocumentUnit, MarkStaleOK
<1> HIDE DEF dir, marked
<1>3. moved \in Unit /\ Local(moved, dir)
  BY <1>2, AddInlinedFilesOK
<1> HIDE DEF moved
<1>4. stored \in Unit /\ Local(stored, dir)
  BY <1>1, <1>3, StoreFileContentsOK DEF StoreFileContents
<1>5. Edited(unit, f, text) = AddFileToCache(stored, f)
  BY DEF Edited, stored, moved, marked
<1> HIDE DEF stored
<1>6. Edited(unit, f, text) \in Unit /\ Local(Edited(unit, f, text), dir)
  BY <1>1, <1>4, <1>5, AddFileToCacheOK
<1> QED BY <1>1, <1>6, UpdateGood DEF UnitsInv, dir, unit

LEMMA UpdateFileBufferKeeps ==
  ASSUME UnitsInv, NEW f \in Documents, NEW text \in Texts, UpdateFileBuffer(f, text)
  PROVE  UnitsInv'
<1>1. ServerOK' /\ DotfileOK'
  BY UnchangedOK DEF UpdateFileBuffer
<1>2. FilesOK'
  BY ProjectAssumption DEF UpdateFileBuffer, FilesOK, Disk, UnitsInv
<1>3. CASE HasUnit(f)
  <2> DEFINE edited == [units EXCEPT ![UnitVia(f)] = Edited(units[UnitVia(f)], f, text)]
  <2>1. GoodUnits(edited)
    BY <1>3, EditedGood
  <2>2. units' \in {edited, Scan(edited, excludedPaths)}
    BY <1>3 DEF UpdateFileBuffer
  <2> HIDE DEF edited
  <2>3. GoodUnits(Scan(edited, excludedPaths))
    BY <2>1, ScanGood DEF UnitsInv, FilesOK
  <2> QED BY <1>1, <1>2, <2>1, <2>2, <2>3 DEF UnitsInv
<1>4. CASE ~HasUnit(f)
  BY <1>1, <1>2, <1>4 DEF UpdateFileBuffer, UnitsInv
<1> QED BY <1>3, <1>4

LEMMA RemoveFileIfNoEntKeeps ==
  ASSUME UnitsInv, NEW f \in Documents, RemoveFileIfNoEnt(f)
  PROVE  UnitsInv'
<1>1. ServerOK' /\ DotfileOK'
  BY UnchangedOK DEF RemoveFileIfNoEnt
<1>2. FilesOK'
  BY DEF RemoveFileIfNoEnt, FilesOK, Disk, UnitsInv
<1>3. CASE HasUnit(f)
  <2> DEFINE dir     == UnitVia(f)
             marked  == [units[dir] EXCEPT !.stale = TRUE]
             cleared == ClearFileContents(marked, f)
  <2>1. f \in Files /\ dir \in DOMAIN units
    BY <1>3, DocumentUnit
  <2>2. marked \in Unit /\ Local(marked, dir)
    BY <1>3, DocumentUnit, MarkStaleOK
  <2> HIDE DEF dir, marked
  <2>3. cleared \in Unit /\ Local(cleared, dir)
    BY <2>1, <2>2, StoreFileContentsOK DEF ClearFileContents
  <2>4. Closed(units[dir], f) = RemoveFileFromCache(cleared, f)
    BY DEF Closed, cleared, marked
  <2> HIDE DEF cleared
  <2>5. Closed(units[dir], f) \in Unit /\ Local(Closed(units[dir], f), dir)
    BY <2>3, <2>4, RemoveFileFromCacheOK
  <2>6. GoodUnits([units EXCEPT ![dir] = Closed(units[dir], f)])
    BY <2>1, <2>5, UpdateGood DEF UnitsInv
  <2> QED BY <1>1, <1>2, <1>3, <2>6 DEF RemoveFileIfNoEnt, UnitsInv, dir
<1>4. CASE ~HasUnit(f)
  BY <1>1, <1>2, <1>4 DEF RemoveFileIfNoEnt, UnitsInv
<1> QED BY <1>3, <1>4

LEMMA RejectResourceKeeps ==
  ASSUME UnitsInv, NEW path \in Resources, RejectResource(path)
  PROVE  UnitsInv'
<1>1. ServerOK' /\ DotfileOK' /\ FilesOK'
  BY UnchangedOK DEF RejectResource
<1>2. GoodUnits(units')
  BY UncachedGood, ProjectAssumption DEF RejectResource, UnitsInv
<1> QED BY <1>1, <1>2 DEF UnitsInv

\* The units and the dotfile that excluding and including start from.
LEMMA LoadForResourceOK ==
  ASSUME UnitsInv, NEW path \in Resources, CurrentProject, Accepted(path)
  PROVE  /\ dotfile \in Dotfile
         /\ LoadedExclusions(excludedPaths) \subseteq Path
         /\ GoodUnits(LoadedUnits(Uncached(path)))
         /\ \A excluded :
              GoodUnits(Scan(MarkStale(LoadedUnits(Uncached(path)), UnitVia(path)), excluded))
         /\ LoadForResource => defines' \subseteq Macro /\ suppressed' \subseteq STRING
<1>1. dotfile \in Dotfile /\ dotfile # NoDotfile /\ ImportsApart(dotfile) /\ disk \in Disk
  BY DEF Accepted, UnitsInv, DotfileOK, FilesOK
<1>2. GoodUnits(Uncached(path)) /\ Root \in DOMAIN Uncached(path)
  BY UncachedGood, ProjectAssumption DEF CurrentProject, UnitsInv
<1>3. GoodUnits(LoadedUnits(Uncached(path)))
  BY <1>1, <1>2, LoadedUnitsGood
<1>4. \A excluded :
        GoodUnits(Scan(MarkStale(LoadedUnits(Uncached(path)), UnitVia(path)), excluded))
  BY <1>1, <1>3, MarkStaleGood, ScanGood
<1>5. /\ LoadedExclusions(excludedPaths) \subseteq Path
      /\ LoadForResource => defines' \subseteq Macro /\ suppressed' \subseteq STRING
  BY <1>1, LoadedOK DEF LoadForResource, UnitsInv, ServerOK
<1> QED BY <1>1, <1>3, <1>4, <1>5

LEMMA ExcludeResourceKeeps ==
  ASSUME UnitsInv, NEW path \in Resources, ExcludeResource(path)
  PROVE  UnitsInv'
<1> DEFINE excluded == LoadedExclusions(excludedPaths)
<1>1. CurrentProject /\ Accepted(path) /\ LoadForResource
  BY DEF ExcludeResource
<1>2. FilesOK'
  BY <1>1, UnchangedOK DEF LoadForResource
<1>3. GoodUnits(units')
  BY <1>1, LoadForResourceOK DEF ExcludeResource
<1>4. ServerOK'
  <2>1. Excluding(excluded, path) \subseteq Path
    BY <1>1, LoadForResourceOK, ProjectAssumption DEF Excluding
  <2>2. excludedPaths' \in {excluded, Excluding(excluded, path)}
    BY DEF ExcludeResource
  <2> QED BY <1>1, <2>1, <2>2, LoadForResourceOK DEF ServerOK
<1>5. DotfileOK'
  <2>1. UNCHANGED dotfile \/ WriteDotfile
    BY DEF ExcludeResource
  <2> QED BY <1>3, <1>4, <2>1, WriteDotfileOK, UnchangedOK DEF UnitsInv
<1> QED BY <1>2, <1>3, <1>4, <1>5 DEF UnitsInv

LEMMA IncludeResourceKeeps ==
  ASSUME UnitsInv, NEW path \in Resources, IncludeResource(path)
  PROVE  UnitsInv'
<1>1. CurrentProject /\ Accepted(path) /\ LoadForResource /\ WriteDotfile
  BY DEF IncludeResource
<1>2. FilesOK'
  BY <1>1, UnchangedOK DEF LoadForResource
<1>3. GoodUnits(units')
  BY <1>1, LoadForResourceOK DEF IncludeResource
<1>4. ServerOK'
  <2>1. excludedPaths' \subseteq Path
    BY <1>1, LoadForResourceOK, IncludingOK DEF IncludeResource
  <2> QED BY <1>1, <2>1, LoadForResourceOK DEF ServerOK
<1>5. DotfileOK'
  BY <1>1, <1>3, <1>4, WriteDotfileOK DEF UnitsInv
<1> QED BY <1>2, <1>3, <1>4, <1>5 DEF UnitsInv

LEMMA SetMacrosKeeps ==
  ASSUME UnitsInv, NEW macros \in MacroSets, SetMacros(macros)
  PROVE  UnitsInv'
<1>1. dotfile \in Dotfile /\ dotfile # NoDotfile /\ ImportsApart(dotfile)
  BY DEF SetMacros, UnitsInv, DotfileOK
<1>2. FilesOK'
  BY UnchangedOK DEF SetMacros
<1>3. GoodUnits(units')
  BY <1>1, LoadedUnitsGood DEF SetMacros, CurrentProject, UnitsInv
<1>4. ServerOK'
  BY <1>1, LoadedOK, ProjectAssumption DEF SetMacros, UnitsInv, ServerOK
<1>5. DotfileOK'
  BY <1>3, <1>4, WriteDotfileOK DEF SetMacros, UnitsInv
<1> QED BY <1>2, <1>3, <1>4, <1>5 DEF UnitsInv

\* A folder is added only when no other one contains it or lies in it.
LEMMA AddRootUnitKeeps ==
  ASSUME UnitsInv, NEW path \in Imports, AddRootUnit(path)
  PROVE  UnitsInv'
<1> DEFINE us == [dir \in DOMAIN units \union {path} |->
                    IF dir = path THEN NewUnit ELSE units[dir]]
<1>1. NonNested(DOMAIN units \union {path})
  <2>1. \A dir \in DOMAIN units :
          ~IsPathPartOfPath(path, dir) /\ ~IsPathPartOfPath(dir, path)
    BY DEF AddRootUnit, Separate, HasUnit, Containing
  <2> QED BY <2>1, NonNestedExtend DEF UnitsInv, GoodUnits
<1>2. \A dir \in DOMAIN us : us[dir] \in Unit /\ Local(us[dir], dir)
  BY NewUnitOK DEF UnitsInv, GoodUnits
<1>3. GoodUnits(us)
  BY <1>1, <1>2, ProjectAssumption DEF UnitsInv, GoodUnits
<1>4. GoodUnits(units')
  <2> HIDE DEF us
  <2>1. units' = Scan(us, excludedPaths)
    BY DEF AddRootUnit, Separate, us
  <2> QED BY <1>3, <2>1, ScanGood DEF UnitsInv, FilesOK
<1>5. ServerOK' /\ FilesOK'
  BY UnchangedOK DEF AddRootUnit, Separate
<1>6. DotfileOK'
  BY <1>4, <1>5, WriteDotfileOK DEF AddRootUnit, Separate, UnitsInv
<1> QED BY <1>4, <1>5, <1>6 DEF UnitsInv

LEMMA RemoveRootUnitKeeps ==
  ASSUME UnitsInv, NEW path \in Imports, RemoveRootUnit(path)
  PROVE  UnitsInv'
<1>1. NonNested(DOMAIN units \ {path})
  BY NonNestedSubset DEF UnitsInv, GoodUnits
<1>2. GoodUnits(units')
  BY <1>1 DEF RemoveRootUnit, UnitsInv, GoodUnits
<1>3. ServerOK' /\ FilesOK'
  BY UnchangedOK DEF RemoveRootUnit
<1>4. DotfileOK'
  BY <1>2, <1>3, WriteDotfileOK DEF RemoveRootUnit, UnitsInv
<1> QED BY <1>2, <1>3, <1>4 DEF UnitsInv

LEMMA EnvironmentKeeps ==
  ASSUME HandImportsApart, UnitsInv, Environment
  PROVE  UnitsInv'
<1>1. CASE Crash
  BY <1>1, CrashKeeps
<1>2. ASSUME NEW f \in Documents, SaveDocument(f)
      PROVE  UnitsInv'
  <2>1. FilesOK'
    BY <1>2 DEF SaveDocument, UnitsInv, FilesOK, Disk
  <2> QED BY <1>2, <2>1, UnchangedOK DEF SaveDocument, UnitsInv
<1>3. ASSUME NEW f \in Volatile, NEW text \in Texts, DeleteFile(f) \/ CreateFile(f, text)
      PROVE  UnitsInv'
  <2>1. FilesOK'
    BY <1>3 DEF DeleteFile, CreateFile, UnitsInv, FilesOK, Disk
  <2> QED BY <1>3, <2>1, UnchangedOK DEF DeleteFile, CreateFile, UnitsInv
<1>4. ASSUME NEW content \in Dotfiles, EditDotfile(content)
      PROVE  UnitsInv'
  <2>1. DotfileOK'
    BY <1>4, ProjectAssumption
       DEF EditDotfile, HandImportsApart, DotfileOK, ImportsApart, Dotfile
  <2> QED BY <1>4, <2>1, UnchangedOK DEF EditDotfile, UnitsInv
<1>5. EmptyText \in Texts
  BY RootUnitAssumption
<1> QED BY <1>1, <1>2, <1>3, <1>4, <1>5 DEF Environment

LEMMA NextKeeps ==
  ASSUME HandImportsApart, UnitsInv, [Next]_vars
  PROVE  UnitsInv'
<1>1. CASE SetProjectPath
  BY <1>1, SetProjectPathKeeps
<1>2. CASE ReloadDotfile
  BY <1>2, ReloadDotfileKeeps
<1>3. ASSUME NEW f \in Documents, NEW text \in Texts,
             AddFile(f, text) \/ UpdateFileBuffer(f, text)
      PROVE  UnitsInv'
  BY <1>3, AddFileKeeps, UpdateFileBufferKeeps
<1>4. ASSUME NEW f \in Documents, RemoveFileIfNoEnt(f)
      PROVE  UnitsInv'
  BY <1>4, RemoveFileIfNoEntKeeps
<1>5. ASSUME NEW path \in Resources,
             ExcludeResource(path) \/ IncludeResource(path) \/ RejectResource(path)
      PROVE  UnitsInv'
  BY <1>5, ExcludeResourceKeeps, IncludeResourceKeeps, RejectResourceKeeps
<1>6. ASSUME NEW macros \in MacroSets, SetMacros(macros)
      PROVE  UnitsInv'
  BY <1>6, SetMacrosKeeps
<1>7. ASSUME NEW path \in Imports, AddRootUnit(path) \/ RemoveRootUnit(path)
      PROVE  UnitsInv'
  BY <1>7, AddRootUnitKeeps, RemoveRootUnitKeeps
<1>8. CASE Environment
  BY <1>8, EnvironmentKeeps
<1>9. CASE UNCHANGED vars
  BY <1>9, UnchangedOK DEF vars, UnitsInv
<1> QED BY <1>1, <1>2, <1>3, <1>4, <1>5, <1>6, <1>7, <1>8, <1>9 DEF Next, Request

\* Two folders neither of which contains the other have no file in common, so
\* that good units have no target in common.
LEMMA GoodTargetsOnce ==
  ASSUME GoodUnits(units)
  PROVE  EachTargetOnce
<1>1. ASSUME NEW d1 \in DOMAIN units, NEW d2 \in DOMAIN units, d1 # d2,
             NEW f \in units[d1].nonInlined \intersect units[d2].nonInlined
      PROVE  FALSE
  <2>1. f \in Path
    BY FilesAreLeaves, RootUnitAssumption DEF GoodUnits, Unit
  <2>2. IsPathPartOfPath(f, d1) /\ IsPathPartOfPath(f, d2)
    BY DEF GoodUnits, Local
  <2>3. DOMAIN units \in SUBSET Path /\ NonNested(DOMAIN units)
    BY DEF GoodUnits
  <2>4. d1 = d2
    BY <2>1, <2>2, <2>3, NonNestedUnique
  <2> QED BY <1>1, <2>4
<1>2. \A dir \in DOMAIN units : units[dir].nonInlined \intersect units[dir].inlined = {}
  BY DEF GoodUnits, Local
<1> QED BY <1>1, <1>2 DEF EachTargetOnce
-----------------------------------------------------------------------------
\* Spec keeps the inductive invariant, provided the hand-written imports are
\* apart.
THEOREM Invariance ==
  ASSUME HandImportsApart
  PROVE  Spec => []UnitsInv
<1>1. Init => UnitsInv
  BY InitKeeps
<1>2. UnitsInv /\ [Next]_vars => UnitsInv'
  BY NextKeeps
<1> QED BY <1>1, <1>2, PTL DEF Spec

\* The variables keep their types: no request, crash or foreign edit leads to
\* a unit, a list or a dotfile that the methods cannot handle.
THEOREM TypeCorrect ==
  ASSUME HandImportsApart
  PROVE  Spec => []TypeOK
<1>1. UnitsInv => TypeOK
  BY DEF UnitsInv, GoodUnits, ServerOK, DotfileOK, FilesOK, Disk, TypeOK
<1> QED BY <1>1, Invariance, PTL

\* No folder of the project ever lies below another one (Project::add_root_unit
\* and load_dotfile).
THEOREM FoldersApart ==
  ASSUME HandImportsApart
  PROVE  Spec => []UnitsApart
<1>1. UnitsInv => UnitsApart
  BY DEF UnitsInv, GoodUnits, UnitsApart
<1> QED BY <1>1, Invariance, PTL

\* No source is compiled on behalf of two folders, nor compiled and included
\* (RootUnit::scan_files, add_inlined_file).
THEOREM TargetsOnce ==
  ASSUME HandImportsApart
  PROVE  Spec => []EachTargetOnce
<1>1. UnitsInv => EachTargetOnce
  BY GoodTargetsOnce DEF UnitsInv
<1> QED BY <1>1, Invariance, PTL
-----------------------------------------------------------------------------
\* The steps of a project that is neither opened nor closed.
OtherStep ==
  \/ ReloadDotfile
  \/ \E f \in Documents : \E text \in Texts :
       AddFile(f, text) \/ UpdateFileBuffer(f, text) \/ RemoveFileIfNoEnt(f)
  \/ \E path \in Resources :
       ExcludeResource(path) \/ IncludeResource(path) \/ RejectResource(path)
  \/ \E macros \in MacroSets : SetMacros(macros)
  \/ \E path \in Imports : AddRootUnit(path) \/ RemoveRootUnit(path)
  \/ UNCHANGED units

\* No method closes the project or opens one, but for setProjectPath.
LEMMA ProjectStays ==
  ASSUME UnitsInv, OtherStep
  PROVE  CurrentProject' = CurrentProject
<1>1. ASSUME NEW us PROVE Root \in DOMAIN LoadedUnits(us) \/ LoadedUnits(us) = us
  BY DEF LoadedUnits
<1>2. ASSUME NEW us, NEW excluded PROVE DOMAIN Scan(us, excluded) = DOMAIN us
  BY DEF Scan
<1>3. ASSUME NEW us, NEW dir PROVE DOMAIN MarkStale(us, dir) = DOMAIN us
  BY DEF MarkStale
<1>4. ASSUME NEW path PROVE DOMAIN Uncached(path) = DOMAIN units
  BY DEF Uncached
<1>5. CASE ReloadDotfile
  BY <1>1, <1>2, <1>5 DEF ReloadDotfile, CurrentProject
<1>6. ASSUME NEW f \in Documents, NEW text \in Texts,
             AddFile(f, text) \/ UpdateFileBuffer(f, text) \/ RemoveFileIfNoEnt(f)
      PROVE  CurrentProject' = CurrentProject
  BY <1>2, <1>6 DEF AddFile, UpdateFileBuffer, RemoveFileIfNoEnt, CurrentProject
<1>7. ASSUME NEW path \in Resources,
             ExcludeResource(path) \/ IncludeResource(path) \/ RejectResource(path)
      PROVE  CurrentProject' = CurrentProject
  BY <1>1, <1>2, <1>3, <1>4, <1>7
     DEF ExcludeResource, IncludeResource, RejectResource, CurrentProject
<1>8. ASSUME NEW macros \in MacroSets, SetMacros(macros)
      PROVE  CurrentProject' = CurrentProject
  BY <1>1, <1>8 DEF SetMacros, CurrentProject
<1>9. ASSUME NEW path \in Imports, AddRootUnit(path)
      PROVE  CurrentProject' = CurrentProject
  BY <1>2, <1>9 DEF AddRootUnit, CurrentProject
<1>10. ASSUME NEW path \in Imports, RemoveRootUnit(path)
       PROVE  CurrentProject' = CurrentProject
  <2>1. path # Root
    <3>1. SUFFICES ASSUME path = Root PROVE FALSE
      OBVIOUS
    <3>2. Root \in DOMAIN units /\ Root \in Path
      BY <1>10, ProjectAssumption DEF RemoveRootUnit, CurrentProject
    <3>3. IsPathPartOfPath(Root, UnitVia(Root)) /\ UnitVia(Root) \in DOMAIN units
      BY <1>10, <3>1, <3>2, UnitViaContains DEF RemoveRootUnit, UnitsInv
    <3>4. UnitVia(Root) = Root
      BY <3>2, <3>3 DEF UnitsInv, GoodUnits, NonNested
    <3> QED BY <1>10, <3>1, <3>4 DEF RemoveRootUnit
  <2> QED BY <1>10, <2>1 DEF RemoveRootUnit, CurrentProject
<1>11. CASE UNCHANGED units
  BY <1>11 DEF CurrentProject
<1> QED BY <1>5, <1>6, <1>7, <1>8, <1>9, <1>10, <1>11 DEF OtherStep
=============================================================================
