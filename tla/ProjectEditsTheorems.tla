------------------------ MODULE ProjectEditsTheorems ------------------------
(***************************************************************************)
(* What people do is not undone by requests: the text of an open document  *)
(* stays in the buffers of the project's own folder through every load,    *)
(* scan and change of folders, and what a user wrote into the dotfile      *)
(* survives the requests that load it first.  And what requests do agrees: *)
(* targets with exclusions and disk, memory with the dotfile, and imported *)
(* folders with the scan that is to find their sources.                    *)
(*                                                                         *)
(* OpenTextKept is not inductive: an empty text is not stored when it is   *)
(* opened, so that the buffer of a document that is not open must be empty *)
(* too.                                                                    *)
(***************************************************************************)
EXTENDS ProjectExclusionsTheorems

\* A unit holds what the editor shows of a file, and nothing of a file that is
\* not open.
Mirrors(unit, f) ==
  /\ editor[f] = NoText => unit.buffers[f] = NoText
  /\ editor[f] # NoText => FileContents(unit, f) = editor[f]

BuffersInv ==
  CurrentProject =>
    \A f \in Documents : IsPathPartOfPath(f, Root) => Mirrors(units[Root], f)

\* The inductive invariant.
EditsInv == UnitsInv /\ BuffersInv
-----------------------------------------------------------------------------
(* Which operators leave the buffers of the project's own unit alone *)

LEMMA ScanBuffers ==
  ASSUME NEW us, Root \in DOMAIN us, "buffers" \in DOMAIN us[Root], NEW excluded
  PROVE  Scan(us, excluded)[Root].buffers = us[Root].buffers
<1>1. ScanUnit(us[Root], Root, excluded, disk).buffers = us[Root].buffers
  BY DEF ScanUnit, FillCache
<1> QED BY <1>1 DEF Scan

\* A good unit is a record with buffers.
LEMMA HasBuffers ==
  ASSUME NEW us, GoodUnits(us), Root \in DOMAIN us
  PROVE  us[Root] \in Unit /\ "buffers" \in DOMAIN us[Root]
<1>1. us[Root] \in Unit
  BY DEF GoodUnits
<1> QED BY <1>1 DEF Unit

LEMMA LoadedUnitsBuffers ==
  ASSUME NEW us, Root \in DOMAIN us
  PROVE  LoadedUnits(us)[Root] = us[Root] /\ Root \in DOMAIN LoadedUnits(us)
BY DEF LoadedUnits

LEMMA MarkStaleBuffers ==
  ASSUME NEW us, GoodUnits(us), Root \in DOMAIN us, NEW dir
  PROVE  /\ MarkStale(us, dir)[Root].buffers = us[Root].buffers
         /\ Root \in DOMAIN MarkStale(us, dir)
<1>1. us[Root] \in Unit
  BY DEF GoodUnits
<1> QED BY <1>1 DEF MarkStale, Unit

LEMMA UncachedBuffers ==
  ASSUME UnitsInv, CurrentProject, NEW path
  PROVE  /\ Uncached(path)[Root].buffers = units[Root].buffers
         /\ Root \in DOMAIN Uncached(path)
<1>1. units[Root] \in Unit
  BY DEF UnitsInv, GoodUnits, CurrentProject
<1> QED BY <1>1 DEF Uncached, ClearPathsCache, Unit, CurrentProject

\* A document of the project's folder belongs to the project's own unit.
LEMMA OwnUnit ==
  ASSUME UnitsInv, CurrentProject, NEW f \in Documents, IsPathPartOfPath(f, Root)
  PROVE  HasUnit(f) /\ UnitVia(f) = Root
<1>1. f \in Path
  BY ProjectAssumption, FilesAreLeaves
<1>2. HasUnit(f)
  BY DEF HasUnit, Containing, CurrentProject
<1>3. UnitVia(f) \in DOMAIN units /\ IsPathPartOfPath(f, UnitVia(f))
  BY <1>1, <1>2, UnitViaContains DEF UnitsInv
<1>4. DOMAIN units \in SUBSET Path /\ NonNested(DOMAIN units) /\ Root \in DOMAIN units
  BY DEF UnitsInv, GoodUnits, CurrentProject
<1>5. UnitVia(f) = Root
  BY <1>1, <1>3, <1>4, NonNestedUnique
<1> QED BY <1>2, <1>5

\* What the document methods do to the buffers of a unit.
LEMMA DocumentBuffers ==
  ASSUME NEW unit \in Unit, NEW f \in Files, NEW text \in Texts
  PROVE  /\ Opened(unit, f, text).buffers =
              IF text = EmptyText THEN unit.buffers ELSE [unit.buffers EXCEPT ![f] = text]
         /\ Edited(unit, f, text).buffers = [unit.buffers EXCEPT ![f] = text]
         /\ "buffers" \in DOMAIN Edited(unit, f, text)
         /\ Closed(unit, f).buffers = [unit.buffers EXCEPT ![f] = NoText]
<1> DEFINE marked == [unit EXCEPT !.stale = TRUE]
<1>1. marked \in Unit /\ marked.buffers = unit.buffers
  BY DEF Unit
<1> HIDE DEF marked
<1>2. ASSUME NEW u, NEW b, u = [marked EXCEPT !.buffers = b]
      PROVE  AddFileToCache(u, f).buffers = b /\ RemoveFileFromCache(u, f).buffers = b
  BY <1>1, <1>2 DEF AddFileToCache, RemoveFileFromCache, Unit
<1>3. Opened(unit, f, text).buffers =
        IF text = EmptyText THEN unit.buffers ELSE [unit.buffers EXCEPT ![f] = text]
  <2>1. AddFileToCache(marked, f).buffers = unit.buffers
    BY <1>1 DEF AddFileToCache, Unit
  <2>2. AddFileToCache(StoreFileContents(marked, f, text), f).buffers
          = [unit.buffers EXCEPT ![f] = text]
    BY <1>1, <1>2 DEF StoreFileContents
  <2> QED BY <2>1, <2>2 DEF Opened, marked
<1>4. /\ Edited(unit, f, text).buffers = [unit.buffers EXCEPT ![f] = text]
      /\ "buffers" \in DOMAIN Edited(unit, f, text)
  <2> DEFINE moved == AddInlinedFiles(marked, AddedIncludes(FileContents(unit, f), text), excludedPaths)
  <2>1. /\ DOMAIN moved = DOMAIN marked
        /\ moved.buffers = unit.buffers
        /\ DOMAIN marked = DOMAIN unit
    BY <1>1 DEF AddInlinedFiles, Unit
  <2>2. "buffers" \in DOMAIN moved /\ "sources" \in DOMAIN moved /\ "headers" \in DOMAIN moved
    BY <2>1 DEF Unit
  <2> HIDE DEF moved
  <2>3. LET edited == AddFileToCache(StoreFileContents(moved, f, text), f)
        IN  edited.buffers = [unit.buffers EXCEPT ![f] = text] /\ "buffers" \in DOMAIN edited
    BY <2>1, <2>2 DEF StoreFileContents, AddFileToCache
  <2> QED BY <2>3 DEF Edited, moved, marked
<1>5. Closed(unit, f).buffers = [unit.buffers EXCEPT ![f] = NoText]
  BY <1>1, <1>2 DEF Closed, ClearFileContents, marked
<1> QED BY <1>3, <1>4, <1>5
-----------------------------------------------------------------------------
(* The steps *)

\* A step that changes neither the documents nor the buffers of the project's
\* own unit keeps them equal.
LEMMA SameBuffers ==
  ASSUME BuffersInv, UNCHANGED editor,
         CurrentProject' => CurrentProject /\ units'[Root].buffers = units[Root].buffers
  PROVE  BuffersInv'
BY DEF BuffersInv, Mirrors, FileContents

\* A project is opened while no document is open.
LEMMA SetProjectPathBuffers ==
  ASSUME ~OpensLate, UnitsInv, SetProjectPath
  PROVE  BuffersInv'
<1> SUFFICES ASSUME CurrentProject',
                    NEW f \in Documents, IsPathPartOfPath(f, Root)
             PROVE  Mirrors(units[Root], f)'
  BY DEF BuffersInv
<1> DEFINE first == [dir \in {Root} |-> NewUnit]
<1>1. editor'[f] = NoText /\ f \in Files
  BY ProjectAssumption DEF SetProjectPath
<1>2. dotfile # NoDotfile
  BY DEF SetProjectPath, NoUnits, CurrentProject
<1>3. GoodUnits(first) /\ Root \in DOMAIN first /\ first[Root] = NewUnit
  <2>1. NewUnit \in Unit /\ Local(NewUnit, Root)
    BY NewUnitOK
  <2> QED BY <2>1, ProjectAssumption DEF GoodUnits, NonNested
<1> HIDE DEF first
<1>4. GoodUnits(LoadedUnits(first))
  BY <1>2, <1>3, LoadedUnitsGood DEF UnitsInv, DotfileOK
<1>5. LoadedUnits(first)[Root] = NewUnit /\ Root \in DOMAIN LoadedUnits(first)
  BY <1>3, LoadedUnitsBuffers
<1>6. units' = Scan(LoadedUnits(first), excludedPaths')
  BY <1>2 DEF SetProjectPath, first
<1>7. units'[Root].buffers = NewUnit.buffers
  BY <1>4, <1>5, <1>6, HasBuffers, ScanBuffers
<1> QED BY <1>1, <1>7 DEF Mirrors, NewUnit

LEMMA LoadingBuffers ==
  ASSUME UnitsInv, BuffersInv,
         \/ ReloadDotfile
         \/ \E macros \in MacroSets : SetMacros(macros)
  PROVE  BuffersInv'
<1>1. /\ CurrentProject /\ dotfile # NoDotfile /\ UNCHANGED editor
      /\ units' \in {LoadedUnits(units), Scan(LoadedUnits(units), excludedPaths')}
  BY DEF ReloadDotfile, SetMacros
<1>2. GoodUnits(LoadedUnits(units))
  BY <1>1, LoadedUnitsGood DEF UnitsInv, DotfileOK, CurrentProject
<1>3. LoadedUnits(units)[Root] = units[Root] /\ Root \in DOMAIN LoadedUnits(units)
  BY <1>1, LoadedUnitsBuffers DEF CurrentProject
<1>4. Scan(LoadedUnits(units), excludedPaths')[Root].buffers = units[Root].buffers
  BY <1>2, <1>3, HasBuffers, ScanBuffers
<1> QED BY <1>1, <1>3, <1>4, SameBuffers

LEMMA ResourceBuffers ==
  ASSUME UnitsInv, BuffersInv, NEW path \in Resources,
         ExcludeResource(path) \/ IncludeResource(path) \/ RejectResource(path)
  PROVE  BuffersInv'
<1> DEFINE uncached == Uncached(path)
           loaded   == LoadedUnits(uncached)
           marked   == MarkStale(loaded, UnitVia(path))
<1>1. CurrentProject /\ UNCHANGED editor
  BY DEF ExcludeResource, IncludeResource, RejectResource, LoadForResource
<1>2. uncached[Root].buffers = units[Root].buffers /\ Root \in DOMAIN uncached
  BY <1>1, UncachedBuffers
<1>3. loaded[Root] = uncached[Root] /\ Root \in DOMAIN loaded
  BY <1>2, LoadedUnitsBuffers
<1>4. CASE RejectResource(path)
  BY <1>1, <1>2, <1>4, SameBuffers DEF RejectResource
<1>5. CASE ExcludeResource(path) \/ IncludeResource(path)
  <2>1. Accepted(path)
    BY <1>5 DEF ExcludeResource, IncludeResource
  <2>2. GoodUnits(loaded)
    BY <1>1, <2>1, LoadForResourceOK
  <2>3. marked[Root].buffers = units[Root].buffers /\ Root \in DOMAIN marked
    BY <1>2, <1>3, <2>2, MarkStaleBuffers
  <2>4. GoodUnits(marked)
    BY <2>2, MarkStaleGood
  <2>5. Scan(marked, excludedPaths')[Root].buffers = units[Root].buffers
    BY <2>3, <2>4, HasBuffers, ScanBuffers
  <2>6. units' \in {loaded, Scan(marked, excludedPaths')}
    BY <1>5 DEF ExcludeResource, IncludeResource
  <2> HIDE DEF uncached, loaded, marked
  <2> QED BY <1>1, <1>2, <1>3, <2>5, <2>6, SameBuffers
<1> QED BY <1>4, <1>5

\* removeRootUnit cannot name the project's own folder.
LEMMA FolderBuffers ==
  ASSUME UnitsInv, BuffersInv, NEW path \in Imports,
         AddRootUnit(path) \/ RemoveRootUnit(path)
  PROVE  BuffersInv'
<1>1. CurrentProject /\ UNCHANGED editor
  BY DEF AddRootUnit, RemoveRootUnit
<1>2. CASE AddRootUnit(path)
  <2> DEFINE us == [dir \in DOMAIN units \union {path} |->
                      IF dir = path THEN NewUnit ELSE units[dir]]
  <2>1. path # Root
    BY <1>1, <1>2, PartOfReflexive, ProjectAssumption
       DEF AddRootUnit, Separate, HasUnit, Containing, CurrentProject
  <2>2. us[Root] = units[Root] /\ Root \in DOMAIN us
    BY <1>1, <2>1 DEF CurrentProject
  <2>3. units' = Scan(us, excludedPaths)
    BY <1>2 DEF AddRootUnit
  <2>4. "buffers" \in DOMAIN us[Root]
    BY <1>1, <2>2, HasBuffers DEF UnitsInv, CurrentProject
  <2> HIDE DEF us
  <2>5. Scan(us, excludedPaths)[Root].buffers = us[Root].buffers
    BY <2>2, <2>4, ScanBuffers
  <2> QED BY <1>1, <2>2, <2>3, <2>5, SameBuffers
<1>3. CASE RemoveRootUnit(path)
  <2>1. units'[Root] = units[Root] \/ Root \notin DOMAIN units'
    BY <1>3 DEF RemoveRootUnit
  <2> QED BY <1>1, <2>1, SameBuffers DEF CurrentProject
<1> QED BY <1>2, <1>3

\* A document method changes the buffer of its document, and no other one.
LEMMA DocumentsMirrored ==
  ASSUME UnitsInv, BuffersInv, NEW f \in Documents, NEW text \in Texts,
         AddFile(f, text) \/ UpdateFileBuffer(f, text) \/ RemoveFileIfNoEnt(f)
  PROVE  BuffersInv'
<1> SUFFICES ASSUME CurrentProject',
                    NEW g \in Documents, IsPathPartOfPath(g, Root)
             PROVE  Mirrors(units[Root], g)'
  BY DEF BuffersInv
<1> DEFINE unit == units[Root]
           dir  == UnitVia(f)
<1>1. CurrentProject
  BY DEF CurrentProject, AddFile, UpdateFileBuffer, RemoveFileIfNoEnt, Scan
<1>2. Mirrors(unit, g)
  BY <1>1 DEF BuffersInv
<1>3. f \in Files /\ g \in Files
  BY ProjectAssumption
<1>4. unit \in Unit /\ unit.buffers \in [Files -> Texts \union {NoText}]
  BY <1>1 DEF UnitsInv, GoodUnits, CurrentProject, Unit
<1>5. NoText \notin Texts /\ editor \in [Files -> Texts \union {NoText}]
  BY RootUnitAssumption DEF UnitsInv, FilesOK, Disk
<1>6. ~(HasUnit(f) /\ dir = Root) => units'[Root].buffers = unit.buffers
  <2> SUFFICES ASSUME ~(HasUnit(f) /\ dir = Root) PROVE units'[Root].buffers = unit.buffers
    OBVIOUS
  <2>1. CASE ~HasUnit(f)
    BY <2>1 DEF AddFile, UpdateFileBuffer, RemoveFileIfNoEnt
  <2>2. CASE HasUnit(f)
    <3>1. \A new : LET us == [units EXCEPT ![dir] = new]
                   IN  /\ us[Root] = unit
                       /\ Scan(us, excludedPaths)[Root].buffers = unit.buffers
      <4> TAKE new
      <4> DEFINE us == [units EXCEPT ![dir] = new]
      <4>1. us[Root] = unit /\ Root \in DOMAIN us
        BY <1>1, <2>2 DEF CurrentProject
      <4>2. "buffers" \in DOMAIN us[Root]
        BY <1>4, <4>1 DEF Unit
      <4> HIDE DEF us
      <4>3. Scan(us, excludedPaths)[Root].buffers = unit.buffers
        BY <4>1, <4>2, ScanBuffers
      <4> QED BY <4>1, <4>3 DEF us
    <3> QED BY <2>2, <3>1 DEF AddFile, UpdateFileBuffer, RemoveFileIfNoEnt
  <2> QED BY <2>1, <2>2
<1>7. HasUnit(f) /\ dir = Root =>
        /\ AddFile(f, text) => units'[Root].buffers = Opened(unit, f, text).buffers
        /\ UpdateFileBuffer(f, text) => units'[Root].buffers = Edited(unit, f, text).buffers
        /\ RemoveFileIfNoEnt(f) => units'[Root].buffers = Closed(unit, f).buffers
  <2> SUFFICES ASSUME HasUnit(f), dir = Root
               PROVE  /\ AddFile(f, text) => units'[Root].buffers = Opened(unit, f, text).buffers
                      /\ UpdateFileBuffer(f, text) =>
                           units'[Root].buffers = Edited(unit, f, text).buffers
                      /\ RemoveFileIfNoEnt(f) => units'[Root].buffers = Closed(unit, f).buffers
    OBVIOUS
  <2>1. \A new : LET us == [units EXCEPT ![dir] = new] IN us[Root] = new /\ Root \in DOMAIN us
    BY <1>1 DEF CurrentProject
  <2>2. ASSUME UpdateFileBuffer(f, text)
        PROVE  units'[Root].buffers = Edited(unit, f, text).buffers
    <3> DEFINE edited == [units EXCEPT ![dir] = Edited(unit, f, text)]
    <3>1. edited[Root] = Edited(unit, f, text) /\ Root \in DOMAIN edited
      BY <2>1
    <3>2. "buffers" \in DOMAIN edited[Root]
      BY <1>3, <1>4, <3>1, DocumentBuffers
    <3>3. units' \in {edited, Scan(edited, excludedPaths)}
      BY <2>2 DEF UpdateFileBuffer
    <3> HIDE DEF edited
    <3> QED BY <3>1, <3>2, <3>3, ScanBuffers
  <2> QED BY <2>1, <2>2 DEF AddFile, RemoveFileIfNoEnt
<1>8. /\ Opened(unit, f, text).buffers =
           IF text = EmptyText THEN unit.buffers ELSE [unit.buffers EXCEPT ![f] = text]
      /\ Edited(unit, f, text).buffers = [unit.buffers EXCEPT ![f] = text]
      /\ Closed(unit, f).buffers = [unit.buffers EXCEPT ![f] = NoText]
  BY <1>3, <1>4, DocumentBuffers
<1> HIDE DEF unit, dir
<1>9. CASE g # f
  <2>1. editor'[g] = editor[g]
    BY <1>3, <1>5, <1>9 DEF AddFile, UpdateFileBuffer, RemoveFileIfNoEnt
  <2>2. units'[Root].buffers[g] = unit.buffers[g]
    BY <1>3, <1>4, <1>6, <1>7, <1>9, <1>8
  <2> QED BY <1>2, <2>1, <2>2 DEF Mirrors, FileContents, unit
<1>10. CASE g = f
  <2>1. HasUnit(f) /\ dir = Root
    BY <1>1, <1>10, OwnUnit DEF dir
  <2>2. CASE AddFile(f, text)
    <3>1. editor[f] = NoText /\ editor'[f] = text
      BY <1>3, <1>5, <2>2 DEF AddFile
    <3>2. unit.buffers[f] = NoText
      BY <1>2, <1>10, <3>1 DEF Mirrors, unit
    <3>3. units'[Root].buffers =
            IF text = EmptyText THEN unit.buffers ELSE [unit.buffers EXCEPT ![f] = text]
      BY <1>7, <1>8, <2>1, <2>2
    <3>4. text # NoText
      BY <1>5
    <3> QED BY <1>3, <1>4, <1>10, <3>1, <3>2, <3>3, <3>4 DEF Mirrors, FileContents, unit
  <2>3. CASE UpdateFileBuffer(f, text)
    <3>1. editor'[f] = text /\ text # NoText
      BY <1>3, <1>5, <2>3 DEF UpdateFileBuffer
    <3>2. units'[Root].buffers = [unit.buffers EXCEPT ![f] = text]
      BY <1>7, <1>8, <2>1, <2>3
    <3> QED BY <1>3, <1>4, <1>10, <3>1, <3>2 DEF Mirrors, FileContents, unit
  <2>4. CASE RemoveFileIfNoEnt(f)
    <3>1. editor'[f] = NoText
      BY <1>3, <1>5, <2>4 DEF RemoveFileIfNoEnt
    <3>2. units'[Root].buffers = [unit.buffers EXCEPT ![f] = NoText]
      BY <1>7, <1>8, <2>1, <2>4
    <3> QED BY <1>3, <1>4, <1>10, <3>1, <3>2 DEF Mirrors, unit
  <2> QED BY <2>2, <2>3, <2>4
<1> QED BY <1>9, <1>10

LEMMA EditsInvKept ==
  ASSUME HandImportsApart, ~OpensLate, EditsInv, [Next]_vars
  PROVE  EditsInv'
<1>1. UnitsInv'
  BY NextKeeps DEF EditsInv
<1> SUFFICES BuffersInv'
  BY <1>1 DEF EditsInv
<1>2. CASE SetProjectPath
  BY <1>2, SetProjectPathBuffers DEF EditsInv
<1>3. CASE ReloadDotfile \/ \E macros \in MacroSets : SetMacros(macros)
  BY <1>3, LoadingBuffers DEF EditsInv
<1>4. ASSUME NEW f \in Documents, NEW text \in Texts,
             AddFile(f, text) \/ UpdateFileBuffer(f, text) \/ RemoveFileIfNoEnt(f)
      PROVE  BuffersInv'
  BY <1>4, DocumentsMirrored DEF EditsInv
<1>5. ASSUME NEW path \in Resources,
             ExcludeResource(path) \/ IncludeResource(path) \/ RejectResource(path)
      PROVE  BuffersInv'
  BY <1>5, ResourceBuffers DEF EditsInv
<1>6. ASSUME NEW path \in Imports, AddRootUnit(path) \/ RemoveRootUnit(path)
      PROVE  BuffersInv'
  BY <1>6, FolderBuffers DEF EditsInv
<1>7. CASE Crash
  <2>1. ~CurrentProject'
    BY <1>7 DEF Crash, NoUnits, CurrentProject
  <2> QED BY <2>1 DEF BuffersInv
<1>8. CASE UNCHANGED <<units, editor>>
  BY <1>8, SameBuffers DEF EditsInv, CurrentProject
<1>9. EmptyText \in Texts
  BY RootUnitAssumption
<1>10. CASE Environment
  BY <1>7, <1>8, <1>10
     DEF Environment, SaveDocument, DeleteFile, CreateFile, EditDotfile
<1> QED BY <1>2, <1>3, <1>4, <1>5, <1>6, <1>8, <1>9, <1>10 DEF Next, Request, vars

\* The project's own folder never loses the text of an open document, whatever
\* loads, scans and changes of folders come in between (load_dotfile keeps the
\* project's unit; Project::add_file, update_file_buffer).
THEOREM OpenTextStays ==
  ASSUME HandImportsApart, ~OpensLate
  PROVE  Spec => []OpenTextKept
<1>1. Init => EditsInv
  <2>1. Init => BuffersInv
    BY DEF Init, NoUnits, CurrentProject, BuffersInv
  <2> QED BY <2>1, InitKeeps DEF EditsInv
<1>2. EditsInv /\ [Next]_vars => EditsInv'
  BY EditsInvKept
<1>3. EditsInv => OpenTextKept
  BY DEF EditsInv, BuffersInv, Mirrors, OpenTextKept
<1> QED BY <1>1, <1>2, <1>3, PTL DEF Spec

-----------------------------------------------------------------------------
(* What requests keep of the dotfile *)

\* Reading a macro that was written changes nothing.
LEMMA ValuedTwice ==
  ASSUME NEW macros
  PROVE  Valued(Valued(macros)) = Valued(macros)
<1> DEFINE value(m) == IF m[2] = "" THEN "1" ELSE m[2]
<1>1. \A m : LET v == <<m[1], value(m)>> IN <<v[1], value(v)>> = v
  OBVIOUS
<1>2. Valued(macros) = {<<m[1], value(m)>> : m \in macros}
  BY DEF Valued
<1>3. \A v \in Valued(macros) : <<v[1], value(v)>> = v
  BY <1>1, <1>2
<1>4. Valued(Valued(macros)) = {<<v[1], value(v)>> : v \in Valued(macros)}
  BY DEF Valued
<1> HIDE DEF value
<1> QED BY <1>3, <1>4

\* The imports that a load accepts are its folders, and none is the project's.
LEMMA AcceptedKept ==
  ASSUME NEW us, dotfile \in Dotfile, dotfile.imports # None
  PROVE  {d \in dotfile.imports : Importable(d)} \subseteq DOMAIN LoadedUnits(us) \ {Root}
<1>1. dotfile.imports \subseteq Path
  BY DEF Dotfile
<1>2. ~Importable(Root)
  BY ImportableApart, PartOfReflexive, ProjectAssumption
<1> QED BY <1>1, <1>2 DEF LoadedUnits

\* What a request writes that has loaded the dotfile and kept the folders.
LEMMA WritingKeeps ==
  ASSUME NoneIsNoList, UnitsInv, UnitsInv', dotfile # NoDotfile,
         WriteDotfile, dotfile' # dotfile, NEW us,
         DOMAIN units' = DOMAIN LoadedUnits(us),
         suppressed' = LoadedSuppressions(suppressed)
  PROVE  /\ OthersKept
         /\ excludedPaths' = LoadedExclusions(excludedPaths) => ExclusionsKept
         /\ defines' = LoadedDefines(defines) => MacrosKept
<1>1. dotfile \in Dotfile
  BY DEF UnitsInv, DotfileOK
<1>2. dotfile' = Dump(units', excludedPaths', defines', suppressed')
  BY DEF WriteDotfile
<1>3. /\ dotfile'.imports = DOMAIN units' \ {Root}
      /\ dotfile'.excludePaths = excludedPaths'
      /\ dotfile'.macros = Valued(defines')
      /\ dotfile'.projectSuppressions = suppressed'
  BY <1>2 DEF Dump
<1>4. dotfile'.imports # None /\ dotfile'.excludePaths # None
  BY <1>3 DEF NoneIsNoList, UnitsInv, GoodUnits, ServerOK
<1>5. OthersKept
  BY <1>1, <1>3, <1>4, AcceptedKept DEF OthersKept, LoadedSuppressions
<1>6. excludedPaths' = LoadedExclusions(excludedPaths) => ExclusionsKept
  BY <1>3, <1>4 DEF ExclusionsKept, LoadedExclusions
<1>7. defines' = LoadedDefines(defines) => MacrosKept
  <2>1. dotfile.macros # None =>
          {m \in dotfile.macros : None \notin {m[1], m[2]}} = Complete(dotfile.macros)
    BY DEF Complete
  <2> QED BY <1>3, <2>1, ValuedTwice DEF MacrosKept, LoadedDefines
<1> QED BY <1>5, <1>6, <1>7

\* Marking and scanning change no folder.
LEMMA SameFolders ==
  ASSUME NEW us, NEW dir, NEW excluded
  PROVE  DOMAIN Scan(MarkStale(us, dir), excluded) = DOMAIN us
BY DEF Scan, MarkStale

\* A method that loads the dotfile before it writes it loses nothing that a
\* user wrote by hand in the sections it is not about but the entries that the
\* load skips: paths that are gone, imports that are refused, and macros without
\* name or value (exclude_resource,
\* include_resource and the setter of macros, all of which call load_dotfile).
THEOREM HandEditsStay ==
  ASSUME HandImportsApart, NoneIsNoList
  PROVE  Spec => HandEditsKept
<1>1. ASSUME UnitsInv, UnitsInv', CurrentProject, dotfile' # dotfile,
             NoDotfile \notin {dotfile, dotfile'}
      PROVE  /\ ~(ExclusionsKept /\ OthersKept) =>
                   \A macros \in MacroSets : ~SetMacros(macros)
             /\ ~(MacrosKept /\ OthersKept) =>
                   \A path \in Resources : ~ExcludeResource(path) /\ ~IncludeResource(path)
  <2>1. dotfile # NoDotfile
    BY <1>1
  <2>2. ASSUME NEW macros \in MacroSets, SetMacros(macros)
        PROVE  ExclusionsKept /\ OthersKept
    <3>1. /\ units' = LoadedUnits(units)
          /\ excludedPaths' = LoadedExclusions(excludedPaths)
          /\ suppressed' = LoadedSuppressions(suppressed)
          /\ WriteDotfile
      BY <2>2 DEF SetMacros
    <3> QED BY <1>1, <2>1, <3>1, WritingKeeps
  <2>3. ASSUME NEW path \in Resources, ExcludeResource(path) \/ IncludeResource(path)
        PROVE  MacrosKept /\ OthersKept
    <3> DEFINE loaded == LoadedUnits(Uncached(path))
    <3>1. LoadForResource
      BY <2>3 DEF ExcludeResource, IncludeResource
    <3>2. /\ units' = Scan(MarkStale(loaded, UnitVia(path)), excludedPaths')
          /\ WriteDotfile
      BY <1>1, <2>3 DEF ExcludeResource, IncludeResource
    <3>3. DOMAIN units' = DOMAIN loaded
      BY <3>2, SameFolders
    <3>4. defines' = LoadedDefines(defines) /\ suppressed' = LoadedSuppressions(suppressed)
      BY <3>1 DEF LoadForResource
    <3> QED BY <1>1, <2>1, <3>2, <3>3, <3>4, WritingKeeps
  <2> QED BY <2>2, <2>3
<1>2. UnitsInv /\ UnitsInv' /\ [Next]_vars
        => [CurrentProject /\ dotfile' # dotfile /\ NoDotfile \notin {dotfile, dotfile'} =>
              /\ ~(ExclusionsKept /\ OthersKept) =>
                   \A macros \in MacroSets : ~SetMacros(macros)
              /\ ~(MacrosKept /\ OthersKept) =>
                   \A path \in Resources : ~ExcludeResource(path) /\ ~IncludeResource(path)]_vars
  BY <1>1
<1> QED BY <1>2, Invariance, PTL DEF Spec, HandEditsKept

-----------------------------------------------------------------------------
(* What a scan finds *)

\* With an empty cache a scan finds what the disk alone determines.  A folder
\* that is a regular file holds no other one, and is taken into the cache
\* even when it is excluded.
LEMMA FreshScan ==
  ASSUME NEW unit \in Unit, unit.sources = {}, unit.headers = {},
         NEW dir \in Path, NEW excluded, disk \in Disk
  PROVE  ScanUnit(unit, dir, excluded, disk).nonInlined = Roots(dir, excluded, disk)
<1> DEFINE found   == Walk(dir, excluded, disk)
           sources == found \intersect SourceFiles
           headers == found \intersect HeaderFiles
           inlined == headers \union IncludedOnDisk(sources, disk)
           live    == {f \in SourceFiles : /\ disk[f] # NoText
                                           /\ IsPathPartOfPath(f, dir)
                                           /\ ~IsPathExcluded(f, excluded)}
<1>1. ScanUnit(unit, dir, excluded, disk).nonInlined
        = {f \in sources \ inlined : ~IsPathExcluded(f, excluded)}
  BY DEF ScanUnit, FillCache, Unit
<1>2. Roots(dir, excluded, disk) = {f \in live : \A g \in live : f \notin IncludedBy(disk[g], live)}
  BY DEF Roots
<1>3. SourceFiles \subseteq Files /\ SourceFiles \intersect HeaderFiles = {}
  BY RootUnitAssumption
<1>4. live \subseteq sources /\ \A f \in sources : ~IsPathExcluded(f, excluded) => f \in live
  BY <1>3 DEF Walk
<1>5. \A f \in sources : disk[f] # NoText
  BY DEF Walk
<1>6. CASE sources = live
  <2>1. \A f \in live : f \notin headers
    BY <1>3
  <2>2. IncludedOnDisk(live, disk) = UNION {IncludedBy(disk[g], live) : g \in live}
    <3>1. {g \in live : disk[g] # NoText} = live
      OBVIOUS
    <3> QED BY <3>1 DEF IncludedOnDisk
  <2>3. \A f : f \in IncludedOnDisk(live, disk) <=> \E g \in live : f \in IncludedBy(disk[g], live)
    <3> HIDE DEF live
    <3> QED BY <2>2
  <2>4. \A f \in live : ~IsPathExcluded(f, excluded)
    OBVIOUS
  <2>5. \A f \in live : f \notin inlined <=> \A g \in live : f \notin IncludedBy(disk[g], live)
    <3> HIDE DEF live, headers, sources
    <3> QED BY <1>6, <2>1, <2>3
  <2> HIDE DEF live, inlined, sources
  <2>6. {f \in sources \ inlined : ~IsPathExcluded(f, excluded)} = {f \in live : f \notin inlined}
    BY <1>6, <2>4
  <2> QED BY <1>1, <1>2, <2>5, <2>6
<1>7. CASE sources # live
  <2>1. PICK h \in sources : h \notin live
    BY <1>4, <1>7
  <2>2. h = dir /\ h \in Files
    BY <1>4, <2>1 DEF Walk
  <2>3. \A f \in sources : f = h
    BY <1>3, <2>2, FilesAreLeaves DEF Walk, NonNested
  <2>4. live = {} /\ \A f \in sources : IsPathExcluded(f, excluded)
    BY <1>4, <2>1, <2>3
  <2> HIDE DEF live, sources
  <2> QED BY <1>1, <1>2, <2>4
<1> QED BY <1>6, <1>7

\* A request that changes the exclusions scans the folder of its path from an
\* empty cache, whether a load has replaced the folder or not.
LEMMA RequestScansFresh ==
  ASSUME UnitsInv, NEW path \in Resources, CurrentProject, Accepted(path),
         NEW excluded, UnitVia(path) \in DOMAIN LoadedUnits(Uncached(path))
  PROVE  LET dir == UnitVia(path) IN
         Scan(MarkStale(LoadedUnits(Uncached(path)), dir), excluded)[dir].nonInlined
           = Roots(dir, excluded, disk)
<1> DEFINE dir    == UnitVia(path)
           loaded == LoadedUnits(Uncached(path))
           marked == [loaded[dir] EXCEPT !.stale = TRUE]
<1>1. GoodUnits(loaded) /\ disk \in Disk
  BY LoadForResourceOK DEF UnitsInv, FilesOK
<1>2. dir \in DOMAIN units /\ dir \in Path
  <2>1. HasUnit(path) /\ path \in Path
    BY ProjectAssumption DEF Accepted
  <2> QED BY <2>1, UnitViaContains DEF UnitsInv, GoodUnits
<1>3. Uncached(path)[dir] = ClearPathsCache(units[dir]) /\ units[dir] \in Unit
  BY <1>2 DEF Uncached, Accepted, UnitsInv, GoodUnits
<1>4. loaded[dir] \in {Uncached(path)[dir], NewUnit}
  BY DEF LoadedUnits
<1>5. loaded[dir] \in Unit /\ loaded[dir].sources = {} /\ loaded[dir].headers = {}
  <2>1. loaded[dir] \in Unit
    BY <1>1 DEF GoodUnits
  <2>2. \A unit \in {ClearPathsCache(units[dir]), NewUnit} : unit.sources = {} /\ unit.headers = {}
    <3>1. NewUnit.sources = {} /\ NewUnit.headers = {}
      BY DEF NewUnit
    <3>2. ASSUME NEW unit \in Unit
          PROVE  ClearPathsCache(unit).sources = {} /\ ClearPathsCache(unit).headers = {}
      BY DEF ClearPathsCache, Unit
    <3> QED BY <1>3, <3>1, <3>2
  <2> HIDE DEF loaded, dir
  <2> QED BY <1>3, <1>4, <2>1, <2>2
<1> HIDE DEF loaded, dir
<1>6. marked \in Unit /\ marked.sources = {} /\ marked.headers = {} /\ marked.stale
  BY <1>5 DEF Unit
<1>7. ScanUnit(marked, dir, excluded, disk).nonInlined = Roots(dir, excluded, disk)
  BY <1>1, <1>2, <1>6, FreshScan
<1>8. Scan(MarkStale(loaded, dir), excluded)[dir] = ScanUnit(marked, dir, excluded, disk)
  <2>1. MarkStale(loaded, dir) = [loaded EXCEPT ![dir] = marked]
    BY DEF MarkStale, loaded, dir
  <2>2. dir \in DOMAIN loaded
    BY DEF loaded, dir
  <2> HIDE DEF marked
  <2> QED BY <1>6, <2>1, <2>2 DEF Scan
<1> QED BY <1>7, <1>8 DEF loaded, dir

\* After an exclusion or an inclusion the compiler gets the sources of the
\* folder that the disk and the new exclusions determine, whatever the caches
\* and the imports were before (the clear_paths_cache, set_stale and scan_files
\* of exclude_resource and include_resource).
THEOREM ScanStaysExact ==
  ASSUME HandImportsApart
  PROVE  Spec => ScanExact
<1> DEFINE Exact ==
      \A dir \in DOMAIN units' :
        units'[dir].nonInlined # Roots(dir, excludedPaths', disk')
        => \A path \in Resources : HasUnit(path) /\ UnitVia(path) = dir =>
             /\ ~IncludeResource(path)
             /\ ExcludeResource(path) => IsPathExcluded(path, LoadedExclusions(excludedPaths))
<1>1. ASSUME UnitsInv PROVE Exact
  <2> SUFFICES ASSUME NEW path \in Resources, UnitVia(path) \in DOMAIN units',
                      \/ IncludeResource(path)
                      \/ /\ ExcludeResource(path)
                         /\ ~IsPathExcluded(path, LoadedExclusions(excludedPaths))
               PROVE  units'[UnitVia(path)].nonInlined
                        = Roots(UnitVia(path), excludedPaths', disk')
    OBVIOUS
  <2> DEFINE loaded == LoadedUnits(Uncached(path))
             dir    == UnitVia(path)
  <2>1. CurrentProject /\ Accepted(path) /\ disk' = disk
    BY DEF IncludeResource, ExcludeResource, LoadForResource
  <2>2. units' = Scan(MarkStale(loaded, dir), excludedPaths')
    BY DEF IncludeResource, ExcludeResource
  <2>3. dir \in DOMAIN loaded
    BY <2>2, SameFolders
  <2>4. Scan(MarkStale(loaded, dir), excludedPaths')[dir].nonInlined
          = Roots(dir, excludedPaths', disk)
    BY <1>1, <2>1, <2>3, RequestScansFresh
  <2>5. Roots(dir, excludedPaths', disk') = Roots(dir, excludedPaths', disk)
    BY <2>1
  <2> QED BY <2>2, <2>4, <2>5
<1>2. UnitsInv /\ [Next]_vars => [Exact]_vars
  BY <1>1
<1>3. Spec => [][Exact]_vars
  <2> HIDE DEF Exact
  <2> QED BY <1>2, Invariance, PTL DEF Spec
<1> QED BY <1>3 DEF ScanExact

-----------------------------------------------------------------------------
(* Targets and exclusions *)

\* A unit's sources are split as a list of exclusions has it.
Split(unit, excluded) ==
  (unit.nonInlined \union unit.inlined) \intersect SourceFiles
    = {f \in unit.named : ~IsPathExcluded(f, excluded)}

\* So is what a scan leaves, and what has not been scanned at all.
LEMMA ScannedSplit ==
  ASSUME NEW unit \in Unit, NEW dir, NEW excluded
  PROVE  Split(ScanUnit(unit, dir, excluded, disk), excluded)
<1> DEFINE filled  == FillCache(unit, dir, excluded, disk)
           inlined == filled.headers \union IncludedOnDisk(filled.sources, disk)
           scanned == ScanUnit(unit, dir, excluded, disk)
<1>1. /\ filled.sources \subseteq SourceFiles /\ filled.headers \subseteq HeaderFiles
      /\ DOMAIN filled = DOMAIN unit
  BY DEF FillCache, Unit
<1>2. IncludedOnDisk(filled.sources, disk) \subseteq filled.sources
  <2> HIDE DEF filled
  <2>1. \A text : IncludedBy(text, filled.sources) \subseteq filled.sources
    BY DEF IncludedBy
  <2> QED BY <2>1 DEF IncludedOnDisk
<1>3. /\ scanned.nonInlined = {f \in filled.sources \ inlined : ~IsPathExcluded(f, excluded)}
      /\ scanned.inlined = {f \in inlined : ~IsPathExcluded(f, excluded)}
      /\ scanned.named = filled.sources
  <2>1. {"nonInlined", "inlined", "named", "stale"} \subseteq DOMAIN filled
    BY <1>1 DEF Unit
  <2> HIDE DEF filled, inlined
  <2>2. scanned = [filled EXCEPT
                     !.nonInlined = {f \in filled.sources \ inlined : ~IsPathExcluded(f, excluded)},
                     !.inlined    = {f \in inlined : ~IsPathExcluded(f, excluded)},
                     !.named      = filled.sources,
                     !.stale      = FALSE]
    BY DEF ScanUnit, filled, inlined
  <2> HIDE DEF scanned
  <2> QED BY <2>1, <2>2
<1>4. SourceFiles \intersect HeaderFiles = {}
  BY RootUnitAssumption
<1> HIDE DEF filled, scanned
<1> QED BY <1>1, <1>2, <1>3, <1>4 DEF Split, scanned

LEMMA NewSplit ==
  ASSUME NEW excluded
  PROVE  Split(NewUnit, excluded)
BY DEF NewUnit, Split

\* The document methods keep the split.
LEMMA DocumentSplit ==
  ASSUME NEW unit \in Unit, Split(unit, excludedPaths), NEW f, NEW text
  PROVE  /\ Split(Opened(unit, f, text), excludedPaths)
         /\ Split(Edited(unit, f, text), excludedPaths)
         /\ Split(Closed(unit, f), excludedPaths)
<1> DEFINE Lists(u) == <<u.nonInlined, u.inlined, u.named>>
           Fields   == {"nonInlined", "inlined", "named"}
<1>1. \A u : Lists(u) = Lists(unit) => Split(u, excludedPaths)
  BY DEF Split
<1>2. ASSUME NEW u, Fields \subseteq DOMAIN u
      PROVE  /\ Lists(AddFileToCache(u, f)) = Lists(u)
             /\ Lists(StoreFileContents(u, f, text)) = Lists(u)
             /\ Lists(RemoveFileFromCache(ClearFileContents(u, f), f)) = Lists(u)
             /\ Fields \subseteq DOMAIN StoreFileContents(u, f, text)
  BY <1>2 DEF AddFileToCache, StoreFileContents, RemoveFileFromCache, ClearFileContents
<1> DEFINE marked == [unit EXCEPT !.stale = TRUE]
           moved  == AddInlinedFiles(marked, AddedIncludes(FileContents(unit, f), text), excludedPaths)
<1>3. Lists(marked) = Lists(unit) /\ Fields \subseteq DOMAIN marked
  BY DEF Unit
<1>4. PICK found \in SUBSET marked.named :
        /\ \A g \in found : ~IsPathExcluded(g, excludedPaths)
        /\ moved = [marked EXCEPT !.inlined = @ \union found, !.nonInlined = @ \ found]
  <2> HIDE DEF marked
  <2> QED BY DEF AddInlinedFiles
<1> HIDE DEF marked, moved
<1>5. /\ Fields \subseteq DOMAIN moved
      /\ moved.named = unit.named
      /\ moved.inlined = unit.inlined \union found
      /\ moved.nonInlined = unit.nonInlined \ found
  BY <1>3, <1>4
<1>6. Split(moved, excludedPaths)
  <2>1. found \subseteq SourceFiles
    BY <1>3, <1>4 DEF Unit
  <2> QED BY <1>3, <1>4, <1>5, <2>1 DEF Split
<1>7. Split(Opened(unit, f, text), excludedPaths)
  <2>1. Lists(AddFileToCache(marked, f)) = Lists(unit)
    BY <1>2, <1>3
  <2>2. Lists(AddFileToCache(StoreFileContents(marked, f, text), f)) = Lists(unit)
    BY <1>2, <1>3
  <2> HIDE DEF Lists, Fields
  <2> QED BY <1>1, <2>1, <2>2 DEF Opened, marked
<1>8. Split(Edited(unit, f, text), excludedPaths)
  <2>1. Lists(AddFileToCache(StoreFileContents(moved, f, text), f)) = Lists(moved)
    BY <1>2, <1>5
  <2> QED BY <1>6, <2>1 DEF Edited, Split, moved, marked
<1>9. Split(Closed(unit, f), excludedPaths)
  <2>1. Lists(RemoveFileFromCache(ClearFileContents(marked, f), f)) = Lists(unit)
    BY <1>2, <1>3
  <2> HIDE DEF Lists, Fields
  <2> QED BY <1>1, <2>1 DEF Closed, marked
<1> QED BY <1>7, <1>8, <1>9

\* The units of a map are split as the list has it.
AllSplit(us, excluded) == \A dir \in DOMAIN us : Split(us[dir], excluded)

LEMMA ScanSplits ==
  ASSUME NEW us, GoodUnits(us), NEW excluded,
         \A dir \in DOMAIN us : us[dir].stale \/ Split(us[dir], excluded)
  PROVE  AllSplit(Scan(us, excluded), excluded)
<1>1. ASSUME NEW dir \in DOMAIN us
      PROVE  Split(Scan(us, excluded)[dir], excluded)
  <2>1. us[dir] \in Unit
    BY DEF GoodUnits
  <2>2. Split(ScanUnit(us[dir], dir, excluded, disk), excluded)
    BY <2>1, ScannedSplit
  <2> QED BY <2>2 DEF Scan
<1>2. DOMAIN Scan(us, excluded) = DOMAIN us
  BY DEF Scan
<1> QED BY <1>1, <1>2 DEF AllSplit

LEMMA LoadedSplit ==
  ASSUME NEW us, Root \in DOMAIN us, NEW excluded, AllSplit(us, excluded)
  PROVE  AllSplit(LoadedUnits(us), excluded)
BY NewSplit DEF AllSplit, LoadedUnits

LEMMA UncachedSplit ==
  ASSUME UnitsInv, NEW path, NEW excluded, AllSplit(units, excluded)
  PROVE  AllSplit(Uncached(path), excluded)
<1>1. ASSUME NEW dir \in DOMAIN units
      PROVE  Split(Uncached(path)[dir], excluded)
  <2>1. units[dir] \in Unit /\ Split(units[dir], excluded)
    BY DEF UnitsInv, GoodUnits, AllSplit
  <2>2. Split(ClearPathsCache(units[dir]), excluded)
    BY <2>1 DEF ClearPathsCache, Split, Unit
  <2>3. Uncached(path)[dir] \in {units[dir], ClearPathsCache(units[dir])}
    BY DEF Uncached
  <2> QED BY <2>1, <2>2, <2>3
<1>2. DOMAIN Uncached(path) = DOMAIN units
  BY DEF Uncached
<1> QED BY <1>1, <1>2 DEF AllSplit

\* The files of a folder do not lie below a path of another folder.
LEMMA ElsewhereNotBelow ==
  ASSUME UnitsInv, NEW path \in Resources, HasUnit(path),
         NEW dir \in DOMAIN units, dir # UnitVia(path),
         NEW f \in Path, IsPathPartOfPath(f, dir)
  PROVE  ~IsPathPartOfPath(f, path)
<1>1. path \in Path
  BY ProjectAssumption
<1>2. UnitVia(path) \in DOMAIN units /\ IsPathPartOfPath(path, UnitVia(path))
  BY <1>1, UnitViaContains DEF UnitsInv
<1>3. DOMAIN units \in SUBSET Path /\ NonNested(DOMAIN units)
  BY DEF UnitsInv, GoodUnits
<1>4. IsPathPartOfPath(f, path) => IsPathPartOfPath(f, UnitVia(path))
  BY <1>1, <1>2, <1>3, PartOfTransitive
<1> QED BY <1>2, <1>3, <1>4, NonNestedUnique

\* A request that changes the status of files below its path only leaves every
\* unit split: the unit of the path is scanned, new ones are, and the files of
\* the others keep their status.
LEMMA RequestSplits ==
  ASSUME UnitsInv, AllSplit(units, excludedPaths),
         NEW path \in Resources, CurrentProject, Accepted(path), NEW excluded,
         \A dir \in DOMAIN units : \A f \in units[dir].named :
           ~IsPathPartOfPath(f, path) =>
             (IsPathExcluded(f, excluded) <=> IsPathExcluded(f, excludedPaths))
  PROVE  AllSplit(Scan(MarkStale(LoadedUnits(Uncached(path)), UnitVia(path)), excluded), excluded)
<1> DEFINE loaded == LoadedUnits(Uncached(path))
           marked == MarkStale(loaded, UnitVia(path))
<1>1. GoodUnits(loaded)
  BY LoadForResourceOK
<1>2. GoodUnits(marked)
  BY <1>1, MarkStaleGood
<1>3. ASSUME NEW dir \in DOMAIN marked
      PROVE  marked[dir].stale \/ Split(marked[dir], excluded)
  <2>1. dir \in DOMAIN loaded /\ loaded[dir] \in Unit
    BY <1>1 DEF MarkStale, GoodUnits
  <2>2. CASE dir = UnitVia(path)
    <3>1. marked[dir] = [loaded[dir] EXCEPT !.stale = TRUE]
      BY <2>1, <2>2 DEF MarkStale
    <3>2. [loaded[dir] EXCEPT !.stale = TRUE].stale
      BY <2>1 DEF Unit
    <3> HIDE DEF marked, loaded
    <3> QED BY <3>1, <3>2
  <2>3. CASE dir # UnitVia(path)
    <3>1. marked[dir] = loaded[dir]
      BY <2>1, <2>3 DEF MarkStale
    <3>2. CASE loaded[dir] = NewUnit
      BY <3>1, <3>2, NewSplit
    <3>3. CASE loaded[dir] # NewUnit
      <4>1. dir \in DOMAIN units /\ loaded[dir] = units[dir]
        BY <2>1, <2>3, <3>3 DEF LoadedUnits, Uncached, CurrentProject
      <4>2. units[dir] \in Unit /\ Split(units[dir], excludedPaths)
        BY <4>1 DEF UnitsInv, GoodUnits, AllSplit
      <4>3. \A f \in units[dir].named : IsPathPartOfPath(f, dir) /\ f \in Path
        BY <4>1, <4>2, FilesAreLeaves, RootUnitAssumption DEF UnitsInv, GoodUnits, Local, Unit
      <4>4. \A f \in units[dir].named :
              IsPathExcluded(f, excluded) <=> IsPathExcluded(f, excludedPaths)
        BY <2>3, <4>1, <4>3, ElsewhereNotBelow DEF Accepted
      <4>5. {f \in units[dir].named : ~IsPathExcluded(f, excluded)}
              = {f \in units[dir].named : ~IsPathExcluded(f, excludedPaths)}
        BY <4>4
      <4>6. Split(units[dir], excluded)
        BY <4>2, <4>5 DEF Split
      <4> QED BY <3>1, <4>1, <4>6
    <3> QED BY <3>2, <3>3
  <2> QED BY <2>2, <2>3
<1> HIDE DEF marked
<1>4. AllSplit(Scan(marked, excluded), excluded)
  BY <1>2, <1>3, ScanSplits
<1> QED BY <1>4 DEF marked, loaded

\* No step but the load of unknown exclusions, or an inclusion while indexed
\* files are gone, leaves the split.
LEMMA ExcludeSplits ==
  ASSUME UnitsInv, AllSplit(units, excludedPaths),
         LoadedExclusions(excludedPaths) = excludedPaths,
         NEW path \in Resources, ExcludeResource(path)
  PROVE  AllSplit(units', excludedPaths')
<1>1. CurrentProject /\ Accepted(path)
  BY DEF ExcludeResource
<1>2. CASE IsPathExcluded(path, excludedPaths)
  <2>1. units' = LoadedUnits(Uncached(path)) /\ excludedPaths' = excludedPaths
    BY <1>2 DEF ExcludeResource
  <2>2. Root \in DOMAIN Uncached(path)
    BY <1>1, UncachedBuffers
  <2> QED BY <2>1, <2>2, UncachedSplit, LoadedSplit
<1>3. CASE ~IsPathExcluded(path, excludedPaths)
  <2>1. /\ excludedPaths' = Excluding(excludedPaths, path)
        /\ units' = Scan(MarkStale(LoadedUnits(Uncached(path)), UnitVia(path)), excludedPaths')
    BY <1>3 DEF ExcludeResource
  <2>2. excludedPaths \in SUBSET Path /\ path \in Path
    BY ProjectAssumption DEF UnitsInv, ServerOK
  <2>3. \A f \in Path :
          IsPathExcluded(f, excludedPaths') <=> IsPathExcluded(f, excludedPaths) \/ IsPathPartOfPath(f, path)
    BY <2>1, <2>2, ExcludingCovers
  <2>4. \A dir \in DOMAIN units : \A f \in units[dir].named : f \in Path
    BY FilesAreLeaves, RootUnitAssumption DEF UnitsInv, GoodUnits, Unit
  <2> QED BY <1>1, <2>1, <2>3, <2>4, RequestSplits
<1> QED BY <1>2, <1>3

LEMMA IncludeSplits ==
  ASSUME PathsAbsolute, RootIsFolder, Inv, AllSplit(units, excludedPaths),
         LoadedExclusions(excludedPaths) = excludedPaths,
         NEW path \in Resources, IncludeResource(path),
         \A dir \in DOMAIN units : \A f \in units[dir].named : disk[f] # NoText
  PROVE  AllSplit(units', excludedPaths')
<1>1. /\ CurrentProject /\ Accepted(path) /\ Exists(path) /\ path \in Path
      /\ excludedPaths' \in Including(excludedPaths, path, Nodes)
      /\ units' = Scan(MarkStale(LoadedUnits(Uncached(path)), UnitVia(path)), excludedPaths')
  BY ProjectAssumption DEF IncludeResource, Accepted
<1>2. UnitsInv /\ excludedPaths \in SUBSET Path /\ NonNested(excludedPaths)
  BY DEF Inv, ListsInv, AbsolutePath
<1>3. ExcludedBy(excludedPaths') \in Exclusions!Reflections(ExcludedBy(excludedPaths) \ Below(path))
  BY <1>1, <1>2, IncludingEffect
<1>4. \A f \in Present : ~IsPathPartOfPath(f, path) =>
        (IsPathExcluded(f, excludedPaths') <=> IsPathExcluded(f, excludedPaths))
  BY <1>3 DEF Exclusions!Reflections, ExcludedBy, Below, Present
<1>5. \A dir \in DOMAIN units : \A f \in units[dir].named : f \in Present
  BY <1>2, RootUnitAssumption DEF UnitsInv, GoodUnits, Unit, Present
<1> QED BY <1>1, <1>2, <1>4, <1>5, RequestSplits

\* Whatever was loaded, a list that is the same afterwards needs no scan.
LEMMA SameListSplits ==
  ASSUME UnitsInv, AllSplit(units, excludedPaths), excludedPaths' = excludedPaths,
         NEW path \in Resources, ExcludeResource(path) \/ IncludeResource(path)
  PROVE  AllSplit(units', excludedPaths')
<1>1. CurrentProject /\ Accepted(path)
  BY DEF ExcludeResource, IncludeResource
<1>2. \/ units' = LoadedUnits(Uncached(path))
      \/ units' = Scan(MarkStale(LoadedUnits(Uncached(path)), UnitVia(path)), excludedPaths')
  BY DEF ExcludeResource, IncludeResource
<1>3. CASE units' = LoadedUnits(Uncached(path))
  <2>1. Root \in DOMAIN Uncached(path)
    BY <1>1, UncachedBuffers
  <2> QED BY <1>3, <2>1, UncachedSplit, LoadedSplit
<1>4. CASE units' = Scan(MarkStale(LoadedUnits(Uncached(path)), UnitVia(path)), excludedPaths')
  BY <1>1, <1>4, RequestSplits
<1> QED BY <1>2, <1>3, <1>4

\* The steps that name no path.
LEMMA OthersSplit ==
  ASSUME UnitsInv, AllSplit(units, excludedPaths),
         \/ ReloadDotfile /\ excludedPaths' = excludedPaths
         \/ \E macros \in MacroSets : SetMacros(macros) /\ excludedPaths' = excludedPaths
         \/ \E path \in Resources : RejectResource(path)
         \/ \E path \in Imports : AddRootUnit(path) \/ RemoveRootUnit(path)
  PROVE  AllSplit(units', excludedPaths')
<1>1. CurrentProject
  BY DEF ReloadDotfile, SetMacros, RejectResource, AddRootUnit, RemoveRootUnit
<1>2. AllSplit(LoadedUnits(units), excludedPaths)
  BY <1>1, LoadedSplit DEF CurrentProject
<1>3. CASE ReloadDotfile /\ excludedPaths' = excludedPaths
  <2>1. dotfile # NoDotfile /\ GoodUnits(LoadedUnits(units))
    BY <1>1, <1>3, LoadedUnitsGood DEF ReloadDotfile, UnitsInv, DotfileOK, CurrentProject
  <2>2. AllSplit(Scan(LoadedUnits(units), excludedPaths), excludedPaths)
    BY <1>2, <2>1, ScanSplits DEF AllSplit
  <2> QED BY <1>3, <2>2 DEF ReloadDotfile
<1>4. ASSUME NEW macros \in MacroSets, SetMacros(macros), excludedPaths' = excludedPaths
      PROVE  AllSplit(units', excludedPaths')
  BY <1>2, <1>4 DEF SetMacros
<1>5. ASSUME NEW path \in Resources, RejectResource(path)
      PROVE  AllSplit(units', excludedPaths')
  BY <1>5, UncachedSplit DEF RejectResource
<1>6. ASSUME NEW path \in Imports, AddRootUnit(path)
      PROVE  AllSplit(units', excludedPaths')
  <2> DEFINE us == [dir \in DOMAIN units \union {path} |->
                      IF dir = path THEN NewUnit ELSE units[dir]]
  <2>1. NonNested(DOMAIN units \union {path})
    <3>1. \A dir \in DOMAIN units :
            ~IsPathPartOfPath(path, dir) /\ ~IsPathPartOfPath(dir, path)
      BY <1>6 DEF AddRootUnit, Separate, HasUnit, Containing
    <3> QED BY <3>1, NonNestedExtend DEF UnitsInv, GoodUnits
  <2>2. \A dir \in DOMAIN us : us[dir] \in Unit /\ Local(us[dir], dir)
    BY NewUnitOK DEF UnitsInv, GoodUnits
  <2>3. GoodUnits(us)
    BY <2>1, <2>2, ProjectAssumption DEF UnitsInv, GoodUnits
  <2>4. \A dir \in DOMAIN us : us[dir].stale \/ Split(us[dir], excludedPaths)
    BY NewSplit DEF AllSplit
  <2>5. units' = Scan(us, excludedPaths) /\ excludedPaths' = excludedPaths
    BY <1>6 DEF AddRootUnit
  <2> HIDE DEF us
  <2> QED BY <2>3, <2>4, <2>5, ScanSplits
<1>7. ASSUME NEW path \in Imports, RemoveRootUnit(path)
      PROVE  AllSplit(units', excludedPaths')
  BY <1>7 DEF RemoveRootUnit, AllSplit
<1> QED BY <1>3, <1>4, <1>5, <1>6, <1>7

LEMMA DocumentsSplit ==
  ASSUME UnitsInv, AllSplit(units, excludedPaths),
         NEW f \in Documents, NEW text \in Texts,
         AddFile(f, text) \/ UpdateFileBuffer(f, text) \/ RemoveFileIfNoEnt(f)
  PROVE  AllSplit(units', excludedPaths')
<1> DEFINE dir == UnitVia(f)
<1>1. excludedPaths' = excludedPaths
  BY DEF AddFile, UpdateFileBuffer, RemoveFileIfNoEnt
<1>2. CASE ~HasUnit(f)
  BY <1>1, <1>2 DEF AddFile, UpdateFileBuffer, RemoveFileIfNoEnt
<1>3. CASE HasUnit(f)
  <2>1. f \in Files /\ dir \in DOMAIN units /\ units[dir] \in Unit
    BY <1>3, DocumentUnit
  <2>2. Split(units[dir], excludedPaths)
    BY <2>1 DEF AllSplit
  <2>3. \A new : Split(new, excludedPaths) => AllSplit([units EXCEPT ![dir] = new], excludedPaths)
    BY DEF AllSplit
  <2>4. CASE AddFile(f, text) \/ RemoveFileIfNoEnt(f)
    <3>1. units' \in {[units EXCEPT ![dir] = Opened(units[dir], f, text)],
                      [units EXCEPT ![dir] = Closed(units[dir], f)]}
      BY <1>3, <2>4 DEF AddFile, RemoveFileIfNoEnt
    <3> QED BY <1>1, <2>1, <2>2, <2>3, <3>1, DocumentSplit
  <2>5. CASE UpdateFileBuffer(f, text)
    <3> DEFINE edited == [units EXCEPT ![dir] = Edited(units[dir], f, text)]
    <3>1. AllSplit(edited, excludedPaths)
      BY <2>1, <2>2, <2>3, DocumentSplit
    <3>2. units' \in {edited, Scan(edited, excludedPaths)}
      BY <1>3, <2>5 DEF UpdateFileBuffer
    <3>3. GoodUnits(edited)
      BY <1>3, <2>1, EditedGood
    <3> HIDE DEF edited
    <3>4. AllSplit(Scan(edited, excludedPaths), excludedPaths)
      BY <3>1, <3>3, ScanSplits DEF AllSplit
    <3> QED BY <1>1, <3>1, <3>2, <3>4
  <2> QED BY <2>4, <2>5
<1> QED BY <1>2, <1>3

LEMMA SplitStep ==
  ASSUME PathsAbsolute, RootIsFolder, Inv, Next, AllSplit(units, excludedPaths)
  PROVE  \/ AllSplit(units', excludedPaths')
         \/ /\ excludedPaths' # excludedPaths
            /\ \/ LoadedExclusions(excludedPaths) # excludedPaths
               \/ /\ \E dir \in DOMAIN units : \E f \in units[dir].named : disk[f] = NoText
                  /\ \E path \in Resources : IncludeResource(path)
<1> SUFFICES ASSUME \/ excludedPaths' = excludedPaths
                    \/ /\ LoadedExclusions(excludedPaths) = excludedPaths
                       /\ ~ /\ \E dir \in DOMAIN units : \E f \in units[dir].named : disk[f] = NoText
                            /\ \E path \in Resources : IncludeResource(path)
             PROVE  AllSplit(units', excludedPaths')
  OBVIOUS
<1>1. UnitsInv
  BY DEF Inv
<1>2. CASE SetProjectPath
  <2>1. CASE dotfile = NoDotfile
    BY <1>2, <2>1 DEF SetProjectPath, NoUnits, AllSplit
  <2>2. CASE dotfile # NoDotfile
    <3> DEFINE first == [dir \in {Root} |-> NewUnit]
    <3>1. GoodUnits(first) /\ Root \in DOMAIN first /\ AllSplit(first, excludedPaths')
      <4>1. NewUnit \in Unit /\ Local(NewUnit, Root) /\ Split(NewUnit, excludedPaths')
        BY NewUnitOK, NewSplit
      <4> QED BY <4>1, ProjectAssumption DEF GoodUnits, NonNested, AllSplit
    <3> HIDE DEF first
    <3>2. GoodUnits(LoadedUnits(first))
      BY <1>1, <2>2, <3>1, LoadedUnitsGood DEF UnitsInv, DotfileOK
    <3>3. AllSplit(LoadedUnits(first), excludedPaths')
      BY <3>1, LoadedSplit
    <3>4. AllSplit(Scan(LoadedUnits(first), excludedPaths'), excludedPaths')
      BY <3>2, <3>3, ScanSplits DEF AllSplit
    <3> QED BY <1>2, <2>2, <3>4 DEF SetProjectPath, first
  <2> QED BY <2>1, <2>2
<1>3. CASE \/ ReloadDotfile
           \/ \E macros \in MacroSets : SetMacros(macros)
           \/ \E path \in Resources : RejectResource(path)
           \/ \E path \in Imports : AddRootUnit(path) \/ RemoveRootUnit(path)
  <2>1. (ReloadDotfile \/ \E macros \in MacroSets : SetMacros(macros)) =>
          excludedPaths' = excludedPaths
    BY DEF ReloadDotfile, SetMacros
  <2> QED BY <1>1, <1>3, <2>1, OthersSplit
<1>4. ASSUME NEW f \in Documents, NEW text \in Texts,
             AddFile(f, text) \/ UpdateFileBuffer(f, text) \/ RemoveFileIfNoEnt(f)
      PROVE  AllSplit(units', excludedPaths')
  BY <1>1, <1>4, DocumentsSplit
<1>5. ASSUME NEW path \in Resources, ExcludeResource(path)
      PROVE  AllSplit(units', excludedPaths')
  BY <1>1, <1>5, ExcludeSplits, SameListSplits
<1>6. ASSUME NEW path \in Resources, IncludeResource(path)
      PROVE  AllSplit(units', excludedPaths')
  <2>1. CASE excludedPaths' = excludedPaths
    BY <1>1, <1>6, <2>1, SameListSplits
  <2>2. CASE excludedPaths' # excludedPaths
    <3>1. \A dir \in DOMAIN units : \A f \in units[dir].named : disk[f] # NoText
      BY <1>6, <2>2
    <3> QED BY <1>6, <2>2, <3>1, IncludeSplits
  <2> QED BY <2>1, <2>2
<1>7. CASE Crash
  BY <1>7 DEF Crash, NoUnits, AllSplit
<1>8. CASE UNCHANGED <<units, excludedPaths>>
  BY <1>8
<1>9. CASE Environment
  BY <1>7, <1>8, <1>9 DEF Environment, SaveDocument, DeleteFile, CreateFile, EditDotfile
<1>10. EmptyText \in Texts
  BY RootUnitAssumption
<1> QED BY <1>2, <1>3, <1>4, <1>5, <1>6, <1>9, <1>10 DEF Next, Request

\* Of the sources the server knows, those that are not excluded are compiled or
\* included, and no others, until a request changes the exclusions and either
\* its load brings some the server did not know (load_dotfile, 534) or it is an
\* inclusion that finds indexed files gone.
THEOREM SplitKept ==
  ASSUME PathsAbsolute, RootIsFolder, HandImportsApart, HandListsApart
  PROVE  Spec => SplitStays
<1>1. SplitFollowsExclusions <=> AllSplit(units, excludedPaths)
  BY DEF SplitFollowsExclusions, AllSplit, Split
<1>2. Init => ListsInv
  BY InitApart
<1>3. UnitsInv /\ ListsInv /\ [Next]_vars => ListsInv'
  BY NextApart DEF UnitsInv
<1> DEFINE Stays ==
      SplitFollowsExclusions /\ ~SplitFollowsExclusions' =>
        /\ excludedPaths' # excludedPaths
        /\ \/ LoadedExclusions(excludedPaths) # excludedPaths
           \/ /\ \E dir \in DOMAIN units : \E f \in units[dir].named : disk[f] = NoText
              /\ \E path \in Resources : IncludeResource(path)
<1>4. UnitsInv /\ ListsInv /\ [Next]_vars => [Stays]_vars
  <2>1. SplitFollowsExclusions' <=> AllSplit(units', excludedPaths')
    BY DEF SplitFollowsExclusions, AllSplit, Split
  <2> QED BY <1>1, <2>1, SplitStep DEF Inv
<1>5. Spec => [][Stays]_vars
  <2> HIDE DEF Stays
  <2> QED BY <1>2, <1>3, <1>4, Invariance, PTL DEF Spec
<1> QED BY <1>5 DEF SplitStays
-----------------------------------------------------------------------------
(* Memory and dotfile *)

\* The dotfile can be written, and an import whose printed path starts with the
\* project's, or the other way round, lies below it.  Without the second, what
\* addRootUnit accepts is not what a load accepts.
DotfileWritable == FALSE \notin WriteOutcomes

ImportsPrintedApart ==
  \A d \in Imports :
    /\ IsStringPrefix(Root, d, NamePrefixes) => IsPathPartOfPath(d, Root)
    /\ IsStringPrefix(d, Root, NamePrefixes) => IsPathPartOfPath(Root, d)

\* The folders are told apart from the project's by their printed paths.
PrintedApart(us) ==
  \A d \in DOMAIN us \ {Root} :
    ~IsStringPrefix(Root, d, NamePrefixes) /\ ~IsStringPrefix(d, Root, NamePrefixes)

\* The inductive invariant: what a load would accept or read as it is.
SavableInv == UnitsInv /\ PrintedApart(units) /\ excludedPaths \subseteq AbsolutePath

LEMMA LoadedPrinted ==
  ASSUME NEW us, PrintedApart(us)
  PROVE  PrintedApart(LoadedUnits(us))
BY DEF PrintedApart, LoadedUnits, Importable

LEMMA LoadedAbsolute ==
  ASSUME PathsAbsolute, dotfile \in Dotfile, NEW excluded \in SUBSET AbsolutePath
  PROVE  LoadedExclusions(excluded) \subseteq AbsolutePath
BY ListedAbsolute DEF LoadedExclusions

LEMMA UnitsPrinted ==
  ASSUME NEW us, NEW other, DOMAIN us = DOMAIN other, PrintedApart(other)
  PROVE  PrintedApart(us)
BY DEF PrintedApart

\* A folder that is added lies neither below the project's nor above it.
LEMMA AddedPrinted ==
  ASSUME ImportsPrintedApart, PrintedApart(units), NEW path \in Imports, AddRootUnit(path)
  PROVE  PrintedApart(units')
<1>1. DOMAIN units' = DOMAIN units \union {path}
  BY DEF AddRootUnit, Scan
<1>2. ~IsPathPartOfPath(path, Root) /\ ~IsPathPartOfPath(Root, path)
  BY DEF AddRootUnit, Separate, HasUnit, Containing, CurrentProject
<1> QED BY <1>1, <1>2 DEF PrintedApart, ImportsPrintedApart

LEMMA ScanFolders ==
  ASSUME NEW us, NEW excluded
  PROVE  DOMAIN Scan(us, excluded) = DOMAIN us
BY DEF Scan

LEMMA DocumentFolders ==
  ASSUME NEW f \in Documents, NEW text \in Texts,
         AddFile(f, text) \/ UpdateFileBuffer(f, text) \/ RemoveFileIfNoEnt(f)
  PROVE  DOMAIN units' = DOMAIN units
BY ScanFolders DEF AddFile, UpdateFileBuffer, RemoveFileIfNoEnt

LEMMA UncachedFolders ==
  ASSUME NEW path
  PROVE  DOMAIN Uncached(path) = DOMAIN units
BY DEF Uncached

LEMMA SavableKept ==
  ASSUME PathsAbsolute, HandImportsApart, ImportsPrintedApart, SavableInv, [Next]_vars
  PROVE  SavableInv'
<1>1. UnitsInv'
  BY NextKeeps DEF SavableInv
<1> SUFFICES PrintedApart(units') /\ excludedPaths' \subseteq AbsolutePath
  BY <1>1 DEF SavableInv
<1>2. /\ UnitsInv /\ PrintedApart(units) /\ excludedPaths \in SUBSET AbsolutePath
      /\ dotfile # NoDotfile => dotfile \in Dotfile
  BY DEF SavableInv, UnitsInv, DotfileOK
<1>3. /\ PrintedApart(LoadedUnits(units))
      /\ \A path : PrintedApart(LoadedUnits(Uncached(path)))
      /\ dotfile # NoDotfile => LoadedExclusions(excludedPaths) \subseteq AbsolutePath
  BY <1>2, LoadedPrinted, UnitsPrinted, UncachedFolders, LoadedAbsolute
<1>4. CASE SetProjectPath
  <2>1. CASE dotfile = NoDotfile
    BY <1>4, <2>1 DEF SetProjectPath, NoUnits, PrintedApart
  <2>2. CASE dotfile # NoDotfile
    <3> DEFINE first == [dir \in {Root} |-> NewUnit]
    <3>1. PrintedApart(first)
      BY DEF PrintedApart
    <3>2. units' = Scan(LoadedUnits(first), excludedPaths')
      BY <1>4, <2>2 DEF SetProjectPath
    <3> HIDE DEF first
    <3>3. PrintedApart(units')
      BY <3>1, <3>2, LoadedPrinted, ScanFolders, UnitsPrinted
    <3>4. excludedPaths' = LoadedExclusions({})
      BY <1>4, <2>2 DEF SetProjectPath
    <3> QED BY <1>2, <2>2, <3>3, <3>4, LoadedAbsolute
  <2> QED BY <2>1, <2>2
<1>5. CASE ReloadDotfile
  BY <1>3, <1>5, ScanFolders, UnitsPrinted DEF ReloadDotfile
<1>6. ASSUME NEW f \in Documents, NEW text \in Texts,
             AddFile(f, text) \/ UpdateFileBuffer(f, text) \/ RemoveFileIfNoEnt(f)
      PROVE  PrintedApart(units') /\ excludedPaths' \subseteq AbsolutePath
  <2>1. excludedPaths' = excludedPaths
    BY <1>6 DEF AddFile, UpdateFileBuffer, RemoveFileIfNoEnt
  <2> QED BY <1>2, <1>6, <2>1, DocumentFolders, UnitsPrinted
<1>7. ASSUME NEW path \in Resources, ExcludeResource(path) \/ IncludeResource(path)
      PROVE  PrintedApart(units') /\ excludedPaths' \subseteq AbsolutePath
  <2> DEFINE loaded == LoadedExclusions(excludedPaths)
  <2>1. loaded \in SUBSET AbsolutePath
    BY <1>3, <1>7 DEF ExcludeResource, IncludeResource, Accepted
  <2>2. excludedPaths' \in {loaded, Excluding(loaded, path)} \union Including(loaded, path, Nodes)
    BY <1>7 DEF ExcludeResource, IncludeResource
  <2>3. excludedPaths' \subseteq AbsolutePath
    <3> HIDE DEF loaded
    <3> QED BY <2>1, <2>2, ChangedAbsolute
  <2>4. DOMAIN units' = DOMAIN LoadedUnits(Uncached(path))
    BY <1>7, SameFolders DEF ExcludeResource, IncludeResource
  <2> QED BY <1>3, <2>3, <2>4, UnitsPrinted
<1>8. ASSUME NEW path \in Resources, RejectResource(path)
      PROVE  PrintedApart(units') /\ excludedPaths' \subseteq AbsolutePath
  BY <1>2, <1>8, UncachedFolders, UnitsPrinted DEF RejectResource
<1>9. ASSUME NEW macros \in MacroSets, SetMacros(macros)
      PROVE  PrintedApart(units') /\ excludedPaths' \subseteq AbsolutePath
  BY <1>3, <1>9 DEF SetMacros
<1>10. ASSUME NEW path \in Imports, AddRootUnit(path)
       PROVE  PrintedApart(units') /\ excludedPaths' \subseteq AbsolutePath
  BY <1>2, <1>10, AddedPrinted DEF AddRootUnit
<1>11. ASSUME NEW path \in Imports, RemoveRootUnit(path)
       PROVE  PrintedApart(units') /\ excludedPaths' \subseteq AbsolutePath
  BY <1>2, <1>11 DEF RemoveRootUnit, PrintedApart
<1>12. CASE Crash
  BY <1>12 DEF Crash, NoUnits, PrintedApart
<1>13. CASE UNCHANGED <<units, excludedPaths>>
  BY <1>2, <1>13
<1>14. CASE Environment
  BY <1>12, <1>13, <1>14 DEF Environment, SaveDocument, DeleteFile, CreateFile, EditDotfile
<1>15. EmptyText \in Texts
  BY RootUnitAssumption
<1> QED BY <1>4, <1>5, <1>6, <1>7, <1>8, <1>9, <1>10, <1>11, <1>13, <1>14, <1>15
        DEF Next, Request, vars

\* The dotfile was written from memory.
LEMMA WrittenSaved ==
  ASSUME PathsAbsolute, NoneIsNoList
  PROVE  SavableInv /\ CurrentProject /\ dotfile = Dump(units, excludedPaths, defines, suppressed)
           => MemoryIsSaved
<1> SUFFICES ASSUME SavableInv, CurrentProject,
                    dotfile = Dump(units, excludedPaths, defines, suppressed)
             PROVE  MemoryIsSaved
  OBVIOUS
<1>1. /\ dotfile.imports = DOMAIN units \ {Root}
      /\ dotfile.excludePaths = excludedPaths
      /\ dotfile.macros = Valued(defines)
  BY DEF Dump
<1>2. Root \in Path /\ Exists(Root)
  BY ProjectAssumption, PartOfReflexive DEF Exists
<1>3. {d \in DOMAIN units : Exists(d)} = {Root} \union {d \in dotfile.imports : Importable(d)}
  <2>1. \A d \in DOMAIN units \ {Root} : Importable(d) <=> Exists(d)
    BY DEF Importable, SavableInv, PrintedApart
  <2> QED BY <1>1, <1>2, <2>1 DEF CurrentProject
<1>4. {p \in LoadedExclusions(excludedPaths) : Exists(p)} = {p \in excludedPaths : Exists(p)}
  <2>1. \A e \in excludedPaths : Resolve(Root, e) = e
    BY DEF SavableInv, AbsolutePath, Resolve
  <2>2. dotfile.excludePaths # None => Listed = excludedPaths
    BY <1>1, <2>1 DEF Listed
  <2> QED BY <2>2 DEF LoadedExclusions
<1>5. LoadedDefines(defines) = Valued(defines)
  <2>1. Valued(defines) \in SUBSET Macro
    BY ValuedOK DEF SavableInv, UnitsInv, ServerOK
  <2>2. Valued(defines) # None
    BY <2>1 DEF NoneIsNoList
  <2>3. Complete(Valued(defines)) = Valued(defines)
    BY <2>1, MacrosAreEntries DEF Complete
  <2> QED BY <1>1, <2>2, <2>3, ValuedTwice DEF LoadedDefines
<1> QED BY <1>3, <1>4, <1>5 DEF MemoryIsSaved

\* Memory was loaded from the dotfile.
FromDotfile ==
  dotfile # NoDotfile =>
    /\ dotfile.imports # None =>
         DOMAIN units = {Root} \union {d \in dotfile.imports : Importable(d)}
    /\ dotfile.excludePaths # None => excludedPaths = {p \in Listed : Exists(p)}
    /\ defines = IF dotfile.macros = None THEN Valued(defines)
                                           ELSE Valued(Complete(dotfile.macros))

LEMMA LoadedSaved == FromDotfile => MemoryIsSaved
<1> SUFFICES ASSUME FromDotfile, dotfile # NoDotfile
             PROVE  MemoryIsSaved
  BY DEF MemoryIsSaved
<1>1. Exists(Root)
  BY ProjectAssumption, PartOfReflexive DEF Exists
<1>2. \A d : Importable(d) => Exists(d)
  BY DEF Importable
<1>3. dotfile.imports # None =>
        {d \in DOMAIN units : Exists(d)} = {Root} \union {d \in dotfile.imports : Importable(d)}
  BY <1>1, <1>2 DEF FromDotfile
<1>4. {p \in LoadedExclusions(excludedPaths) : Exists(p)} = {p \in excludedPaths : Exists(p)}
  BY DEF FromDotfile, LoadedExclusions
<1>5. LoadedDefines(defines) = Valued(defines)
  BY ValuedTwice DEF FromDotfile, LoadedDefines
<1> QED BY <1>3, <1>4, <1>5 DEF MemoryIsSaved

\* A step that loads leaves what a load leaves.
LEMMA LoadingSaved ==
  ASSUME dotfile # NoDotfile, UNCHANGED <<dotfile, disk>>,
         NEW us, DOMAIN units' = DOMAIN LoadedUnits(us),
         NEW excluded, excludedPaths' = LoadedExclusions(excluded),
         NEW macros, defines' = LoadedDefines(macros),
         dotfile.macros = None => macros = Valued(macros)
  PROVE  MemoryIsSaved'
<1>1. \A p : (Exists(p)' <=> Exists(p)) /\ (Importable(p)' <=> Importable(p))
  BY DEF Exists, Importable
<1>2. Listed' = Listed
  BY DEF Listed
<1>3. dotfile.imports # None =>
        DOMAIN units' = {Root} \union {d \in dotfile.imports : Importable(d)}
  BY DEF LoadedUnits
<1>4. dotfile.excludePaths # None => excludedPaths' = {p \in Listed : Exists(p)}
  BY DEF LoadedExclusions
<1>5. defines' = IF dotfile.macros = None THEN Valued(defines')
                                            ELSE Valued(Complete(dotfile.macros))
  BY DEF LoadedDefines
<1>6. FromDotfile'
  BY <1>1, <1>2, <1>3, <1>4, <1>5 DEF FromDotfile
<1> QED BY <1>6, LoadedSaved, PTL

\* A step that writes leaves the dotfile as memory is.
LEMMA WritingSaved ==
  ASSUME PathsAbsolute, NoneIsNoList, DotfileWritable,
         SavableInv', CurrentProject', WriteDotfile
  PROVE  MemoryIsSaved'
<1>1. dotfile' = Dump(units', excludedPaths', defines', suppressed')
  BY ProjectAssumption DEF WriteDotfile, DotfileWritable
<1>2. Dump(units', excludedPaths', defines', suppressed')
        = Dump(units, excludedPaths, defines, suppressed)'
  BY DEF Dump, Valued
<1>3. (SavableInv /\ CurrentProject /\ dotfile = Dump(units, excludedPaths, defines, suppressed))'
  BY <1>1, <1>2
<1> QED BY <1>3, WrittenSaved, PTL

\* A step that changes neither the folders nor what is written of the rest.
LEMMA SameSaved ==
  ASSUME UNCHANGED <<excludedPaths, defines, dotfile, disk>>,
         DOMAIN units' = DOMAIN units, MemoryIsSaved
  PROVE  MemoryIsSaved'
<1>1. \A p : (Exists(p)' <=> Exists(p)) /\ (Importable(p)' <=> Importable(p))
  BY DEF Exists, Importable
<1>2. LoadedExclusions(excludedPaths)' = LoadedExclusions(excludedPaths)
  BY <1>1 DEF LoadedExclusions, Listed
<1>3. LoadedDefines(defines)' = LoadedDefines(defines)
  BY DEF LoadedDefines
<1>4. CurrentProject' <=> CurrentProject
  BY DEF CurrentProject
<1> QED BY <1>1, <1>2, <1>3, <1>4 DEF MemoryIsSaved

\* The requests that load the dotfile and do not write it.
LEMMA LoadsSaved ==
  ASSUME MemoryIsSaved,
         \/ SetProjectPath
         \/ ReloadDotfile
         \/ \E path \in Resources :
              ExcludeResource(path) /\ IsPathExcluded(path, LoadedExclusions(excludedPaths))
  PROVE  MemoryIsSaved'
<1>1. CASE SetProjectPath
  <2>1. CASE dotfile = NoDotfile
    <3>1. ~CurrentProject'
      BY <1>1, <2>1 DEF SetProjectPath, NoUnits, CurrentProject
    <3> QED BY <3>1 DEF MemoryIsSaved
  <2>2. CASE dotfile # NoDotfile
    <3> DEFINE first == [dir \in {Root} |-> NewUnit]
    <3>1. /\ units' = Scan(LoadedUnits(first), excludedPaths')
          /\ excludedPaths' = LoadedExclusions({}) /\ defines' = LoadedDefines({})
          /\ UNCHANGED <<dotfile, disk>>
      BY <1>1, <2>2 DEF SetProjectPath
    <3>2. Valued({}) = {}
      BY DEF Valued
    <3> HIDE DEF first
    <3> QED BY <2>2, <3>1, <3>2, ScanFolders, LoadingSaved
  <2> QED BY <2>1, <2>2
<1>2. ASSUME CurrentProject, dotfile # NoDotfile, dotfile.macros = None
      PROVE  defines = Valued(defines)
  BY <1>2 DEF MemoryIsSaved, LoadedDefines
<1>3. CASE ReloadDotfile
  <2>1. /\ CurrentProject /\ dotfile # NoDotfile
        /\ units' = Scan(LoadedUnits(units), excludedPaths')
        /\ excludedPaths' = LoadedExclusions(excludedPaths) /\ defines' = LoadedDefines(defines)
        /\ UNCHANGED <<dotfile, disk>>
    BY <1>3 DEF ReloadDotfile
  <2> QED BY <1>2, <2>1, ScanFolders, LoadingSaved
<1>4. ASSUME NEW path \in Resources, ExcludeResource(path),
             IsPathExcluded(path, LoadedExclusions(excludedPaths))
      PROVE  MemoryIsSaved'
  <2>1. /\ CurrentProject /\ dotfile # NoDotfile
        /\ units' = LoadedUnits(Uncached(path))
        /\ excludedPaths' = LoadedExclusions(excludedPaths) /\ defines' = LoadedDefines(defines)
        /\ UNCHANGED <<dotfile, disk>>
    BY <1>4 DEF ExcludeResource, LoadForResource, Accepted
  <2> QED BY <1>2, <2>1, LoadingSaved
<1> QED BY <1>1, <1>3, <1>4

\* The requests that write the dotfile.
LEMMA WritesSaved ==
  ASSUME PathsAbsolute, NoneIsNoList, DotfileWritable, SavableInv', UnitsInv,
         \/ \E path \in Resources :
              \/ /\ ExcludeResource(path)
                 /\ ~IsPathExcluded(path, LoadedExclusions(excludedPaths))
              \/ IncludeResource(path)
         \/ \E macros \in MacroSets : SetMacros(macros)
         \/ \E path \in Imports : AddRootUnit(path) \/ RemoveRootUnit(path)
  PROVE  MemoryIsSaved'
<1>1. WriteDotfile
  BY DEF ExcludeResource, IncludeResource, SetMacros, AddRootUnit, RemoveRootUnit
<1>2. CurrentProject
  BY DEF ExcludeResource, IncludeResource, SetMacros, AddRootUnit, RemoveRootUnit
<1>3. CurrentProject'
  BY <1>2, ProjectStays DEF OtherStep
<1> QED BY <1>1, <1>3, WritingSaved

\* No request leaves memory and dotfile apart that were not apart before, if
\* the dotfile can be written (write_dotfile, 404) and no printed path of an
\* import misleads load_dotfile (509): addRootUnit, removeRootUnit, setMacros,
\* excludeResource and includeResource write all of memory, and what the others
\* load is what the next load reads.
THEOREM SavedKept ==
  ASSUME PathsAbsolute, HandImportsApart, ImportsPrintedApart, DotfileWritable, NoneIsNoList
  PROVE  Spec => SavedStays
<1>1. Init => SavableInv
  BY InitKeeps DEF Init, NoUnits, SavableInv, PrintedApart
<1>2. SavableInv /\ [Next]_vars => SavableInv'
  BY SavableKept
<1> DEFINE Stays ==
      MemoryIsSaved /\ ~MemoryIsSaved' =>
        disk' # disk \/ \E content \in Dotfiles : EditDotfile(content)
<1>3. SavableInv /\ SavableInv' /\ Next => Stays
  <2> SUFFICES ASSUME SavableInv, SavableInv', Next, MemoryIsSaved, disk' = disk,
                      ~ \E content \in Dotfiles : EditDotfile(content)
               PROVE  MemoryIsSaved'
    OBVIOUS
  <2>1. UnitsInv
    BY DEF SavableInv
  <2>2. CASE \/ SetProjectPath
             \/ ReloadDotfile
             \/ \E path \in Resources :
                  ExcludeResource(path) /\ IsPathExcluded(path, LoadedExclusions(excludedPaths))
    BY <2>2, LoadsSaved
  <2>3. CASE \/ \E path \in Resources :
                  \/ /\ ExcludeResource(path)
                     /\ ~IsPathExcluded(path, LoadedExclusions(excludedPaths))
                  \/ IncludeResource(path)
             \/ \E macros \in MacroSets : SetMacros(macros)
             \/ \E path \in Imports : AddRootUnit(path) \/ RemoveRootUnit(path)
    BY <2>1, <2>3, WritesSaved
  <2>4. ASSUME NEW f \in Documents, NEW text \in Texts,
               AddFile(f, text) \/ UpdateFileBuffer(f, text) \/ RemoveFileIfNoEnt(f)
        PROVE  MemoryIsSaved'
    <3>1. UNCHANGED <<excludedPaths, defines, dotfile, disk>>
      BY <2>4 DEF AddFile, UpdateFileBuffer, RemoveFileIfNoEnt
    <3> QED BY <2>4, <3>1, DocumentFolders, SameSaved
  <2>5. ASSUME NEW path \in Resources, RejectResource(path)
        PROVE  MemoryIsSaved'
    BY <2>5, UncachedFolders, SameSaved DEF RejectResource
  <2>6. CASE Crash
    <3>1. ~CurrentProject'
      BY <2>6 DEF Crash, NoUnits, CurrentProject
    <3> QED BY <3>1 DEF MemoryIsSaved
  <2>7. CASE UNCHANGED <<units, excludedPaths, defines, dotfile>>
    BY <2>7, SameSaved
  <2>8. CASE Environment
    BY <2>6, <2>7, <2>8 DEF Environment, SaveDocument, DeleteFile, CreateFile
  <2>9. EmptyText \in Texts
    BY RootUnitAssumption
  <2> QED BY <2>2, <2>3, <2>4, <2>5, <2>8, <2>9 DEF Next, Request
<1>4. SavableInv /\ SavableInv' /\ [Next]_vars => [Stays]_vars
  BY <1>3
<1>5. Spec => [][Stays]_vars
  <2> HIDE DEF Stays
  <2> QED BY <1>1, <1>2, <1>4, PTL DEF Spec
<1> QED BY <1>5 DEF SavedStays
-----------------------------------------------------------------------------
(* Imported folders are scanned *)

\* The folders for which a scan is still to come, or that have nothing to find,
\* or whose sources were not found before the step.
Pending(us, excluded) ==
  \A dir \in DOMAIN us \ {Root} :
    \/ us[dir].stale
    \/ us[dir].named # {}
    \/ Roots(dir, excluded, disk) = {}
    \/ dir \in Unscanned

\* Those the step may leave.
Served(us, excluded) ==
  \A dir \in DOMAIN us \ {Root} :
    \/ us[dir].headers # {}
    \/ us[dir].named # {}
    \/ Roots(dir, excluded, disk) = {}
    \/ dir \in Unscanned

\* A scan finds the sources of a folder, or takes the headers in the cache for
\* all there is.
LEMMA ScanFinds ==
  ASSUME NEW unit \in Unit, NEW dir, NEW excluded
  PROVE  LET scanned == ScanUnit(unit, dir, excluded, disk) IN
         scanned.headers # {} \/ scanned.named # {} \/ Roots(dir, excluded, disk) = {}
<1> DEFINE filled  == FillCache(unit, dir, excluded, disk)
           scanned == ScanUnit(unit, dir, excluded, disk)
<1>1. /\ filled.sources = {} /\ filled.headers = {} =>
           Walk(dir, excluded, disk) \intersect SourceFiles = {}
      /\ DOMAIN filled = DOMAIN unit
  BY DEF FillCache, Unit
<1>2. scanned.named = filled.sources /\ scanned.headers = filled.headers
  <2>1. {"headers", "nonInlined", "inlined", "named", "stale"} \subseteq DOMAIN filled
    BY <1>1 DEF Unit
  <2> HIDE DEF filled
  <2> QED BY <2>1 DEF ScanUnit, filled
<1>3. Walk(dir, excluded, disk) \intersect SourceFiles = {} => Roots(dir, excluded, disk) = {}
  BY RootUnitAssumption DEF Walk, Roots
<1> HIDE DEF filled, scanned
<1> QED BY <1>1, <1>2, <1>3 DEF scanned

LEMMA ScanServes ==
  ASSUME NEW us, GoodUnits(us), NEW excluded, Pending(us, excluded)
  PROVE  Served(Scan(us, excluded), excluded)
<1> SUFFICES ASSUME NEW dir \in DOMAIN us \ {Root}
             PROVE  LET unit == Scan(us, excluded)[dir] IN
                    \/ unit.headers # {}
                    \/ unit.named # {}
                    \/ Roots(dir, excluded, disk) = {}
                    \/ dir \in Unscanned
  BY ScanFolders DEF Served
<1>1. us[dir] \in Unit
  BY DEF GoodUnits
<1>2. CASE us[dir].stale
  BY <1>1, <1>2, ScanFinds DEF Scan
<1>3. CASE ~us[dir].stale
  BY <1>3 DEF Scan, Pending
<1> QED BY <1>2, <1>3

\* What was not scanned before the step is among what Unscanned holds.
LEMMA UnitsServed == Pending(units, excludedPaths) /\ Served(units, excludedPaths)
BY DEF Pending, Served, Unscanned

\* The sources to be found depend on the exclusions of the folder's files only.
LEMMA SameRoots ==
  ASSUME NEW dir, NEW before, NEW after,
         \A f \in SourceFiles : disk[f] # NoText /\ IsPathPartOfPath(f, dir) =>
           (IsPathExcluded(f, after) <=> IsPathExcluded(f, before))
  PROVE  Roots(dir, after, disk) = Roots(dir, before, disk)
<1> DEFINE live(excluded) == {f \in SourceFiles : /\ disk[f] # NoText
                                                 /\ IsPathPartOfPath(f, dir)
                                                 /\ ~IsPathExcluded(f, excluded)}
<1>1. live(after) = live(before)
  OBVIOUS
<1>2. \A excluded : Roots(dir, excluded, disk)
        = {f \in live(excluded) : \A g \in live(excluded) : f \notin IncludedBy(disk[g], live(excluded))}
  BY DEF Roots
<1> HIDE DEF live
<1> QED BY <1>1, <1>2

\* A load that names imports gives every imported folder a new unit.
LEMMA LoadedPending ==
  ASSUME NEW us, Root \in DOMAIN us, NEW excluded,
         dotfile.imports = None => Pending(us, excluded)
  PROVE  Pending(LoadedUnits(us), excluded)
<1>1. NewUnit.stale
  BY DEF NewUnit
<1> QED BY <1>1 DEF LoadedUnits, Pending

\* Emptying the cache of a unit and marking it keep the rest of it.
LEMMA UncachedIndex ==
  ASSUME UnitsInv, NEW path, NEW dir \in DOMAIN units
  PROVE  Uncached(path)[dir].named = units[dir].named
<1>1. units[dir] \in Unit
  BY DEF UnitsInv, GoodUnits
<1> QED BY <1>1 DEF Uncached, ClearPathsCache, Unit

LEMMA MarkPending ==
  ASSUME NEW us, GoodUnits(us), NEW via, NEW excluded,
         \A dir \in DOMAIN us \ {Root, via} :
           us[dir].stale \/ us[dir].named # {} \/ Roots(dir, excluded, disk) = {} \/ dir \in Unscanned
  PROVE  Pending(MarkStale(us, via), excluded)
<1>1. \A dir \in DOMAIN us : us[dir] \in Unit
  BY DEF GoodUnits
<1>2. \A unit \in Unit : [unit EXCEPT !.stale = TRUE].stale
  BY DEF Unit
<1> QED BY <1>1, <1>2 DEF MarkStale, Pending

\* A request that changes the status of files below its path only scans the
\* folder of the path and every folder a load has replaced.
LEMMA RequestServes ==
  ASSUME UnitsInv, NEW path \in Resources, CurrentProject, Accepted(path), NEW excluded,
         dotfile.imports = None =>
           \A f \in SourceFiles : disk[f] # NoText /\ ~IsPathPartOfPath(f, path) =>
             (IsPathExcluded(f, excluded) <=> IsPathExcluded(f, excludedPaths))
  PROVE  Served(Scan(MarkStale(LoadedUnits(Uncached(path)), UnitVia(path)), excluded), excluded)
<1> DEFINE loaded == LoadedUnits(Uncached(path))
           via    == UnitVia(path)
<1>1. GoodUnits(loaded)
  BY LoadForResourceOK
<1>2. ASSUME NEW dir \in DOMAIN loaded \ {Root, via}
      PROVE  \/ loaded[dir].stale
             \/ loaded[dir].named # {}
             \/ Roots(dir, excluded, disk) = {}
             \/ dir \in Unscanned
  <2>1. CASE dotfile.imports # None
    BY <2>1 DEF LoadedUnits, NewUnit
  <2>2. CASE dotfile.imports = None
    <3>1. dir \in DOMAIN units /\ loaded[dir].named = units[dir].named
      BY <2>2, UncachedFolders, UncachedIndex DEF LoadedUnits
    <3>2. \A f \in SourceFiles : f \in Path
      BY FilesAreLeaves, RootUnitAssumption
    <3>3. \A f \in SourceFiles : IsPathPartOfPath(f, dir) => ~IsPathPartOfPath(f, path)
      BY <3>1, <3>2, ElsewhereNotBelow DEF Accepted
    <3>4. Roots(dir, excluded, disk) = Roots(dir, excludedPaths, disk)
      BY <2>2, <3>3, SameRoots
    <3> QED BY <3>1, <3>4 DEF Unscanned
  <2> QED BY <2>1, <2>2
<1> HIDE DEF loaded, via
<1>3. Pending(MarkStale(loaded, via), excluded)
  BY <1>1, <1>2, MarkPending
<1>4. GoodUnits(MarkStale(loaded, via))
  BY <1>1, MarkStaleGood
<1> QED BY <1>3, <1>4, ScanServes DEF loaded, via

LEMMA ExcludeServes ==
  ASSUME PathsAbsolute, Inv, NEW path \in Resources, ExcludeResource(path),
         ~IsPathExcluded(path, LoadedExclusions(excludedPaths)),
         dotfile.imports = None => LoadedExclusions(excludedPaths) = excludedPaths
  PROVE  Served(units', excludedPaths')
<1>1. /\ CurrentProject /\ Accepted(path)
      /\ excludedPaths' = Excluding(LoadedExclusions(excludedPaths), path)
      /\ units' = Scan(MarkStale(LoadedUnits(Uncached(path)), UnitVia(path)), excludedPaths')
  BY DEF ExcludeResource
<1>2. UnitsInv /\ excludedPaths \in SUBSET Path /\ path \in Path
  BY ProjectAssumption DEF Inv, UnitsInv, ServerOK
<1>3. \A f \in SourceFiles : f \in Path
  BY FilesAreLeaves, RootUnitAssumption
<1>4. dotfile.imports = None =>
        \A f \in Path :
          IsPathExcluded(f, excludedPaths') <=> IsPathExcluded(f, excludedPaths) \/ IsPathPartOfPath(f, path)
  BY <1>1, <1>2, ExcludingCovers
<1> QED BY <1>1, <1>2, <1>3, <1>4, RequestServes

LEMMA IncludeServes ==
  ASSUME PathsAbsolute, RootIsFolder, Inv, NEW path \in Resources, IncludeResource(path),
         dotfile.imports = None => LoadedExclusions(excludedPaths) = excludedPaths
  PROVE  Served(units', excludedPaths')
<1>1. /\ CurrentProject /\ Accepted(path) /\ Exists(path) /\ path \in Path
      /\ excludedPaths' \in Including(LoadedExclusions(excludedPaths), path, Nodes)
      /\ units' = Scan(MarkStale(LoadedUnits(Uncached(path)), UnitVia(path)), excludedPaths')
  BY ProjectAssumption DEF IncludeResource, Accepted
<1>2. UnitsInv /\ excludedPaths \in SUBSET Path /\ NonNested(excludedPaths)
  BY DEF Inv, ListsInv, AbsolutePath
<1>3. dotfile.imports = None =>
        ExcludedBy(excludedPaths') \in Exclusions!Reflections(ExcludedBy(excludedPaths) \ Below(path))
  BY <1>1, <1>2, IncludingEffect
<1>4. SourceFiles \subseteq Files
  BY RootUnitAssumption
<1>5. dotfile.imports = None =>
        \A f \in SourceFiles : disk[f] # NoText /\ ~IsPathPartOfPath(f, path) =>
          (IsPathExcluded(f, excludedPaths') <=> IsPathExcluded(f, excludedPaths))
  BY <1>3, <1>4 DEF Exclusions!Reflections, ExcludedBy, Below, Present
<1> QED BY <1>1, <1>2, <1>5, RequestServes

\* Opening, reloading, importing and removing scan what is new.
LEMMA FoldersServe ==
  ASSUME UnitsInv,
         \/ SetProjectPath
         \/ /\ ReloadDotfile
            /\ dotfile.imports = None => LoadedExclusions(excludedPaths) = excludedPaths
         \/ \E path \in Resources : RejectResource(path)
         \/ \E path \in Imports : AddRootUnit(path) \/ RemoveRootUnit(path)
  PROVE  Served(units', excludedPaths')
<1>1. CASE SetProjectPath
  <2>1. CASE dotfile = NoDotfile
    BY <1>1, <2>1 DEF SetProjectPath, NoUnits, Served
  <2>2. CASE dotfile # NoDotfile
    <3> DEFINE first == [dir \in {Root} |-> NewUnit]
    <3>1. GoodUnits(first) /\ Root \in DOMAIN first /\ Pending(first, excludedPaths')
      <4>1. NewUnit \in Unit /\ Local(NewUnit, Root)
        BY NewUnitOK
      <4> QED BY <4>1, ProjectAssumption DEF GoodUnits, NonNested, Pending
    <3> HIDE DEF first
    <3>2. GoodUnits(LoadedUnits(first))
      BY <2>2, <3>1, LoadedUnitsGood DEF UnitsInv, DotfileOK
    <3>3. Pending(LoadedUnits(first), excludedPaths')
      BY <3>1, LoadedPending
    <3>4. Served(Scan(LoadedUnits(first), excludedPaths'), excludedPaths')
      BY <3>2, <3>3, ScanServes
    <3> QED BY <1>1, <2>2, <3>4 DEF SetProjectPath, first
  <2> QED BY <2>1, <2>2
<1>2. ASSUME ReloadDotfile,
             dotfile.imports = None => LoadedExclusions(excludedPaths) = excludedPaths
      PROVE  Served(units', excludedPaths')
  <2>1. /\ dotfile # NoDotfile /\ Root \in DOMAIN units
        /\ excludedPaths' = LoadedExclusions(excludedPaths)
        /\ units' = Scan(LoadedUnits(units), excludedPaths')
    BY <1>2 DEF ReloadDotfile, CurrentProject
  <2>2. GoodUnits(LoadedUnits(units))
    BY <2>1, LoadedUnitsGood DEF UnitsInv, DotfileOK
  <2>3. dotfile.imports = None => Pending(units, excludedPaths')
    BY <1>2, <2>1, UnitsServed
  <2>4. Pending(LoadedUnits(units), excludedPaths')
    BY <2>1, <2>3, LoadedPending
  <2> QED BY <2>1, <2>2, <2>4, ScanServes
<1>3. ASSUME NEW path \in Resources, RejectResource(path)
      PROVE  Served(units', excludedPaths')
  <2>1. units' = Uncached(path) /\ excludedPaths' = excludedPaths
    BY <1>3 DEF RejectResource
  <2> QED BY <2>1, UncachedFolders, UncachedIndex DEF Served, Unscanned
<1>4. ASSUME NEW path \in Imports, AddRootUnit(path)
      PROVE  Served(units', excludedPaths')
  <2> DEFINE us == [dir \in DOMAIN units \union {path} |->
                      IF dir = path THEN NewUnit ELSE units[dir]]
  <2>1. NonNested(DOMAIN units \union {path})
    <3>1. \A dir \in DOMAIN units :
            ~IsPathPartOfPath(path, dir) /\ ~IsPathPartOfPath(dir, path)
      BY <1>4 DEF AddRootUnit, Separate, HasUnit, Containing
    <3> QED BY <3>1, NonNestedExtend DEF UnitsInv, GoodUnits
  <2>2. \A dir \in DOMAIN us : us[dir] \in Unit /\ Local(us[dir], dir)
    BY NewUnitOK DEF UnitsInv, GoodUnits
  <2>3. GoodUnits(us)
    BY <2>1, <2>2, ProjectAssumption DEF UnitsInv, GoodUnits
  <2>4. Pending(us, excludedPaths)
    BY UnitsServed DEF Pending, NewUnit
  <2>5. units' = Scan(us, excludedPaths) /\ excludedPaths' = excludedPaths
    BY <1>4 DEF AddRootUnit
  <2> HIDE DEF us
  <2> QED BY <2>3, <2>4, <2>5, ScanServes
<1>5. ASSUME NEW path \in Imports, RemoveRootUnit(path)
      PROVE  Served(units', excludedPaths')
  BY <1>5, UnitsServed DEF RemoveRootUnit, Served
<1> QED BY <1>1, <1>2, <1>3, <1>4, <1>5

\* The document methods keep what the last scan found.
LEMMA DocumentIndex ==
  ASSUME NEW unit \in Unit, NEW f, NEW text
  PROVE  /\ Opened(unit, f, text).named = unit.named
         /\ Edited(unit, f, text).named = unit.named
         /\ Closed(unit, f).named = unit.named
<1> DEFINE marked == [unit EXCEPT !.stale = TRUE]
           moved  == AddInlinedFiles(marked, AddedIncludes(FileContents(unit, f), text), excludedPaths)
<1>1. marked.named = unit.named /\ "named" \in DOMAIN marked
  BY DEF Unit
<1>2. moved.named = marked.named /\ DOMAIN moved = DOMAIN marked
  BY <1>1 DEF AddInlinedFiles
<1>3. ASSUME NEW u, "named" \in DOMAIN u
      PROVE  /\ AddFileToCache(u, f).named = u.named
             /\ AddFileToCache(StoreFileContents(u, f, text), f).named = u.named
             /\ RemoveFileFromCache(ClearFileContents(u, f), f).named = u.named
  BY <1>3 DEF AddFileToCache, StoreFileContents, RemoveFileFromCache, ClearFileContents
<1> HIDE DEF marked, moved
<1>4. Opened(unit, f, text).named = unit.named
  BY <1>1, <1>3 DEF Opened, marked
<1>5. Edited(unit, f, text).named = unit.named
  BY <1>1, <1>2, <1>3 DEF Edited, marked, moved
<1>6. Closed(unit, f).named = unit.named
  BY <1>1, <1>3 DEF Closed, marked
<1> QED BY <1>4, <1>5, <1>6

LEMMA DocumentsServe ==
  ASSUME UnitsInv, NEW f \in Documents, NEW text \in Texts,
         AddFile(f, text) \/ UpdateFileBuffer(f, text) \/ RemoveFileIfNoEnt(f)
  PROVE  Served(units', excludedPaths')
<1> DEFINE via == UnitVia(f)
<1>1. excludedPaths' = excludedPaths
  BY DEF AddFile, UpdateFileBuffer, RemoveFileIfNoEnt
<1>2. CASE ~HasUnit(f)
  BY <1>1, <1>2, UnitsServed DEF AddFile, UpdateFileBuffer, RemoveFileIfNoEnt
<1>3. CASE HasUnit(f)
  <2>1. via \in DOMAIN units /\ units[via] \in Unit
    BY <1>3, DocumentUnit
  <2>2. \A new : new.named = units[via].named =>
          LET us == [units EXCEPT ![via] = new]
          IN  Pending(us, excludedPaths) /\ Served(us, excludedPaths)
    BY DEF Pending, Served, Unscanned
  <2>3. CASE AddFile(f, text) \/ RemoveFileIfNoEnt(f)
    <3>1. units' \in {[units EXCEPT ![via] = Opened(units[via], f, text)],
                      [units EXCEPT ![via] = Closed(units[via], f)]}
      BY <1>3, <2>3 DEF AddFile, RemoveFileIfNoEnt
    <3> QED BY <1>1, <2>1, <2>2, <3>1, DocumentIndex
  <2>4. CASE UpdateFileBuffer(f, text)
    <3> DEFINE edited == [units EXCEPT ![via] = Edited(units[via], f, text)]
    <3>1. Pending(edited, excludedPaths) /\ Served(edited, excludedPaths)
      BY <2>1, <2>2, DocumentIndex
    <3>2. units' \in {edited, Scan(edited, excludedPaths)}
      BY <1>3, <2>4 DEF UpdateFileBuffer
    <3>3. GoodUnits(edited)
      BY <1>3, <2>1, EditedGood
    <3> HIDE DEF edited
    <3>4. Served(Scan(edited, excludedPaths), excludedPaths)
      BY <3>1, <3>3, ScanServes
    <3> QED BY <1>1, <3>1, <3>2, <3>4
  <2> QED BY <2>3, <2>4
<1> QED BY <1>2, <1>3

\* What may leave an imported folder unscanned.
Exempt(dir) ==
  \/ disk' # disk
  \/ \E macros \in MacroSets : SetMacros(macros)
  \/ \E path \in Resources :
       ExcludeResource(path) /\ IsPathExcluded(path, LoadedExclusions(excludedPaths))
  \/ /\ dotfile # NoDotfile
     /\ dotfile.imports = None /\ LoadedExclusions(excludedPaths) # excludedPaths
  \/ units'[dir].headers # {}

LEMMA StepServes ==
  ASSUME PathsAbsolute, RootIsFolder, Inv, Next, disk' = disk,
         ~ \E macros \in MacroSets : SetMacros(macros),
         ~ \E path \in Resources :
             ExcludeResource(path) /\ IsPathExcluded(path, LoadedExclusions(excludedPaths)),
         dotfile = NoDotfile \/ dotfile.imports # None
           \/ LoadedExclusions(excludedPaths) = excludedPaths
  PROVE  Served(units', excludedPaths')
<1>1. UnitsInv
  BY DEF Inv
<1>2. CASE \/ SetProjectPath
           \/ \E path \in Resources : RejectResource(path)
           \/ \E path \in Imports : AddRootUnit(path) \/ RemoveRootUnit(path)
  BY <1>1, <1>2, FoldersServe
<1>3. CASE ReloadDotfile
  <2>1. dotfile.imports = None => LoadedExclusions(excludedPaths) = excludedPaths
    BY <1>3 DEF ReloadDotfile
  <2> QED BY <1>1, <1>3, <2>1, FoldersServe
<1>4. ASSUME NEW path \in Resources, ExcludeResource(path) \/ IncludeResource(path)
      PROVE  Served(units', excludedPaths')
  <2>1. dotfile.imports = None => LoadedExclusions(excludedPaths) = excludedPaths
    BY <1>4 DEF ExcludeResource, IncludeResource, Accepted
  <2> QED BY <1>4, <2>1, ExcludeServes, IncludeServes
<1>5. ASSUME NEW f \in Documents, NEW text \in Texts,
             AddFile(f, text) \/ UpdateFileBuffer(f, text) \/ RemoveFileIfNoEnt(f)
      PROVE  Served(units', excludedPaths')
  BY <1>1, <1>5, DocumentsServe
<1>6. CASE Crash
  BY <1>6 DEF Crash, NoUnits, Served
<1>7. CASE UNCHANGED <<units, excludedPaths>>
  BY <1>7, UnitsServed
<1>8. CASE Environment
  BY <1>6, <1>7, <1>8 DEF Environment, SaveDocument, DeleteFile, CreateFile, EditDotfile
<1>9. EmptyText \in Texts
  BY RootUnitAssumption
<1> QED BY <1>2, <1>3, <1>4, <1>5, <1>8, <1>9 DEF Next, Request

\* No request but setMacros leaves an imported folder whose sources no scan has
\* found (load_dotfile replaces the units, scan_files scans what is stale),
\* except where an exclusion returns early, where a load changes the
\* exclusions and not the folders, and where headers are all a cache holds.
THEOREM LoadsAreScanned ==
  ASSUME PathsAbsolute, RootIsFolder, HandImportsApart, HandListsApart
  PROVE  Spec => ScanFollowsLoad
<1>1. Init => ListsInv
  BY InitApart
<1>2. UnitsInv /\ ListsInv /\ [Next]_vars => ListsInv'
  BY NextApart DEF UnitsInv
<1> DEFINE Follows == \A dir \in Unscanned' \ Unscanned : Exempt(dir)
<1>3. UnitsInv /\ ListsInv /\ [Next]_vars => [Follows]_vars
  <2> SUFFICES ASSUME UnitsInv, ListsInv, Next, NEW dir \in Unscanned' \ Unscanned, ~Exempt(dir)
               PROVE  FALSE
    OBVIOUS
  <2>1. Served(units', excludedPaths')
    BY StepServes DEF Inv, Exempt
  <2>2. /\ dir \in DOMAIN units' \ {Root}
        /\ units'[dir].named = {} /\ Roots(dir, excludedPaths', disk') # {}
    BY DEF Unscanned
  <2>3. disk' = disk /\ units'[dir].headers = {}
    BY DEF Exempt
  <2> QED BY <2>1, <2>2, <2>3 DEF Served
<1>4. Spec => [][Follows]_vars
  <2> HIDE DEF Follows
  <2> QED BY <1>1, <1>2, <1>3, Invariance, PTL DEF Spec
<1> QED BY <1>4 DEF ScanFollowsLoad, Exempt
-----------------------------------------------------------------------------
(* Where the buffers are *)

\* A unit holds buffers of documents below its folder only.
Held(us) ==
  \A dir \in DOMAIN us : \A f \in Files :
    us[dir].buffers[f] # NoText => f \in Documents /\ IsPathPartOfPath(f, dir)

\* Without a project there are no units, and the editor opens documents only.
OpenedInv ==
  /\ Held(units)
  /\ ~CurrentProject => units = NoUnits
  /\ \A f \in Files : editor[f] # NoText => f \in Documents

LEMMA ScanHeld ==
  ASSUME NEW us, GoodUnits(us), Held(us), NEW excluded
  PROVE  Held(Scan(us, excluded))
<1>1. ASSUME NEW dir \in DOMAIN us
      PROVE  Scan(us, excluded)[dir].buffers = us[dir].buffers
  <2>1. "buffers" \in DOMAIN us[dir]
    BY DEF GoodUnits, Unit
  <2>2. ScanUnit(us[dir], dir, excluded, disk).buffers = us[dir].buffers
    BY <2>1 DEF ScanUnit, FillCache
  <2> QED BY <2>2 DEF Scan
<1> QED BY <1>1, ScanFolders DEF Held

LEMMA LoadedHeld ==
  ASSUME NEW us, Root \in DOMAIN us, Held(us)
  PROVE  Held(LoadedUnits(us))
BY DEF Held, LoadedUnits, NewUnit

LEMMA MarkHeld ==
  ASSUME NEW us, GoodUnits(us), Held(us), NEW via
  PROVE  Held(MarkStale(us, via))
<1>1. \A dir \in DOMAIN us : us[dir] \in Unit
  BY DEF GoodUnits
<1>2. \A unit \in Unit : [unit EXCEPT !.stale = TRUE].buffers = unit.buffers
  BY DEF Unit
<1> QED BY <1>1, <1>2 DEF MarkStale, Held

LEMMA UncachedHeld ==
  ASSUME UnitsInv, Held(units), NEW path
  PROVE  Held(Uncached(path))
<1>1. \A dir \in DOMAIN units : units[dir] \in Unit
  BY DEF UnitsInv, GoodUnits
<1>2. \A unit \in Unit : ClearPathsCache(unit).buffers = unit.buffers
  BY DEF ClearPathsCache, Unit
<1> QED BY <1>1, <1>2 DEF Uncached, Held

LEMMA ChangedHeld ==
  ASSUME UnitsInv, Held(units), NEW f \in Documents, HasUnit(f), NEW new,
         \A g \in Files : g # f => new.buffers[g] = units[UnitVia(f)].buffers[g]
  PROVE  Held([units EXCEPT ![UnitVia(f)] = new])
<1> DEFINE via == UnitVia(f)
<1>1. via \in DOMAIN units /\ IsPathPartOfPath(f, via)
  BY DocumentUnit
<1>2. \A g \in Files : g # f => new.buffers[g] = units[via].buffers[g]
  OBVIOUS
<1> HIDE DEF via
<1>3. ASSUME NEW g \in Files, new.buffers[g] # NoText
      PROVE  g \in Documents /\ IsPathPartOfPath(g, via)
  <2>1. CASE g = f
    BY <1>1, <2>1
  <2>2. CASE g # f
    <3>1. new.buffers[g] = units[via].buffers[g]
      BY <1>2, <2>2
    <3> QED BY <1>1, <1>3, <3>1 DEF Held
  <2> QED BY <2>1, <2>2
<1>4. Held([units EXCEPT ![via] = new])
  BY <1>1, <1>3 DEF Held
<1> QED BY <1>4 DEF via

LEMMA DocumentsHeld ==
  ASSUME UnitsInv, Held(units), NEW f \in Documents, NEW text \in Texts,
         AddFile(f, text) \/ UpdateFileBuffer(f, text) \/ RemoveFileIfNoEnt(f)
  PROVE  Held(units')
<1> DEFINE unit == units[UnitVia(f)]
<1>1. CASE ~HasUnit(f)
  BY <1>1 DEF AddFile, UpdateFileBuffer, RemoveFileIfNoEnt
<1>2. CASE HasUnit(f)
  <2>1. unit \in Unit /\ f \in Files /\ unit.buffers \in [Files -> Texts \union {NoText}]
    BY <1>2, DocumentUnit DEF Unit
  <2>2. /\ Opened(unit, f, text).buffers =
             IF text = EmptyText THEN unit.buffers ELSE [unit.buffers EXCEPT ![f] = text]
        /\ Edited(unit, f, text).buffers = [unit.buffers EXCEPT ![f] = text]
        /\ Closed(unit, f).buffers = [unit.buffers EXCEPT ![f] = NoText]
    BY <2>1, DocumentBuffers
  <2> DEFINE Changed(new) == \A g \in Files : g # f => new.buffers[g] = unit.buffers[g]
  <2>3. Changed(Opened(unit, f, text)) /\ Changed(Edited(unit, f, text)) /\ Changed(Closed(unit, f))
    BY <2>1, <2>2
  <2>4. \A new : Changed(new) => Held([units EXCEPT ![UnitVia(f)] = new])
    BY <1>2, ChangedHeld
  <2> HIDE DEF Changed
  <2>5. CASE AddFile(f, text)
    <3>1. units' = [units EXCEPT ![UnitVia(f)] = Opened(unit, f, text)]
      BY <1>2, <2>5 DEF AddFile
    <3> QED BY <2>3, <2>4, <3>1
  <2>6. CASE RemoveFileIfNoEnt(f)
    <3>1. units' = [units EXCEPT ![UnitVia(f)] = Closed(unit, f)]
      BY <1>2, <2>6 DEF RemoveFileIfNoEnt
    <3> QED BY <2>3, <2>4, <3>1
  <2>7. CASE UpdateFileBuffer(f, text)
    <3> DEFINE edited == [units EXCEPT ![UnitVia(f)] = Edited(unit, f, text)]
    <3>1. Held(edited)
      BY <2>3, <2>4
    <3>2. units' \in {edited, Scan(edited, excludedPaths)}
      BY <1>2, <2>7 DEF UpdateFileBuffer
    <3>3. GoodUnits(edited)
      BY <1>2, EditedGood
    <3> HIDE DEF edited
    <3> QED BY <3>1, <3>2, <3>3, ScanHeld
  <2> QED BY <2>5, <2>6, <2>7
<1> QED BY <1>1, <1>2

LEMMA LoadsHeld ==
  ASSUME UnitsInv, Held(units), CurrentProject,
         \/ ReloadDotfile
         \/ \E path \in Resources :
              ExcludeResource(path) \/ IncludeResource(path) \/ RejectResource(path)
         \/ \E macros \in MacroSets : SetMacros(macros)
  PROVE  Held(units')
<1>1. Held(LoadedUnits(units))
  BY LoadedHeld DEF CurrentProject
<1>2. CASE ReloadDotfile
  <2>1. GoodUnits(LoadedUnits(units))
    BY <1>2, LoadedUnitsGood DEF ReloadDotfile, UnitsInv, DotfileOK, CurrentProject
  <2> QED BY <1>1, <1>2, <2>1, ScanHeld DEF ReloadDotfile
<1>3. ASSUME NEW macros \in MacroSets, SetMacros(macros)
      PROVE  Held(units')
  BY <1>1, <1>3 DEF SetMacros
<1>4. ASSUME NEW path \in Resources, RejectResource(path)
      PROVE  Held(units')
  BY <1>4, UncachedHeld DEF RejectResource
<1>5. ASSUME NEW path \in Resources, ExcludeResource(path) \/ IncludeResource(path)
      PROVE  Held(units')
  <2> DEFINE loaded == LoadedUnits(Uncached(path))
             marked == MarkStale(loaded, UnitVia(path))
  <2>1. Held(loaded)
    BY UncachedHeld, UncachedBuffers, LoadedHeld
  <2>2. GoodUnits(loaded)
    BY <1>5, LoadForResourceOK DEF ExcludeResource, IncludeResource
  <2>3. units' \in {loaded, Scan(marked, excludedPaths')}
    BY <1>5 DEF ExcludeResource, IncludeResource
  <2> HIDE DEF loaded
  <2>4. GoodUnits(marked) /\ Held(marked)
    BY <2>1, <2>2, MarkStaleGood, MarkHeld
  <2> HIDE DEF marked
  <2> QED BY <2>1, <2>3, <2>4, ScanHeld
<1> QED BY <1>2, <1>3, <1>4, <1>5

LEMMA OpenedKept ==
  ASSUME UnitsInv, OpenedInv, [Next]_vars
  PROVE  OpenedInv'
<1>1. Held(units) /\ Held(NoUnits)
  BY DEF OpenedInv, Held, NoUnits
<1>2. UNCHANGED editor =>
        \A f \in Files : editor'[f] # NoText => f \in Documents
  BY DEF OpenedInv
<1>3. CASE SetProjectPath
  <2>1. CASE dotfile = NoDotfile
    <3>1. units' = NoUnits /\ UNCHANGED editor
      BY <1>3, <2>1 DEF SetProjectPath
    <3> QED BY <1>1, <1>2, <3>1 DEF OpenedInv, Held
  <2>2. CASE dotfile # NoDotfile
    <3> DEFINE first == [dir \in {Root} |-> NewUnit]
    <3>1. GoodUnits(first) /\ Root \in DOMAIN first /\ Held(first)
      <4>1. NewUnit \in Unit /\ Local(NewUnit, Root)
        BY NewUnitOK
      <4> QED BY <4>1, ProjectAssumption DEF GoodUnits, NonNested, Held, NewUnit
    <3>2. units' = Scan(LoadedUnits(first), excludedPaths') /\ UNCHANGED editor
      BY <1>3, <2>2 DEF SetProjectPath
    <3> HIDE DEF first
    <3>3. GoodUnits(LoadedUnits(first))
      BY <2>2, <3>1, LoadedUnitsGood DEF UnitsInv, DotfileOK
    <3>4. Held(units')
      BY <3>1, <3>2, <3>3, LoadedHeld, ScanHeld
    <3>5. Root \in DOMAIN units'
      BY <3>1, <3>2, LoadedUnitsBuffers, ScanFolders
    <3> QED BY <1>2, <3>2, <3>4, <3>5 DEF OpenedInv, Held, CurrentProject
  <2> QED BY <2>1, <2>2
<1>4. ASSUME NEW f \in Documents, NEW text \in Texts,
             AddFile(f, text) \/ UpdateFileBuffer(f, text) \/ RemoveFileIfNoEnt(f)
      PROVE  OpenedInv'
  <2>1. Held(units')
    BY <1>1, <1>4, DocumentsHeld
  <2>2. \A g \in Files : g # f => editor'[g] = editor[g]
    BY <1>4 DEF AddFile, UpdateFileBuffer, RemoveFileIfNoEnt, UnitsInv, FilesOK, Disk
  <2>3. ~CurrentProject' => units' = NoUnits
    <3>1. CurrentProject' <=> CurrentProject
      BY <1>4, DocumentFolders DEF CurrentProject
    <3>2. ~CurrentProject => ~HasUnit(f)
      BY DEF OpenedInv, NoUnits, HasUnit, Containing
    <3>3. ~HasUnit(f) => units' = units
      BY <1>4 DEF AddFile, UpdateFileBuffer, RemoveFileIfNoEnt
    <3> QED BY <3>1, <3>2, <3>3 DEF OpenedInv
  <2> QED BY <2>1, <2>2, <2>3 DEF OpenedInv, Held
<1>5. CASE \/ ReloadDotfile
           \/ \E path \in Resources :
                ExcludeResource(path) \/ IncludeResource(path) \/ RejectResource(path)
           \/ \E macros \in MacroSets : SetMacros(macros)
  <2>1. CurrentProject /\ UNCHANGED editor
    BY <1>5 DEF ReloadDotfile, ExcludeResource, IncludeResource, RejectResource,
                LoadForResource, SetMacros
  <2>2. Held(units')
    BY <1>1, <1>5, <2>1, LoadsHeld
  <2>3. CurrentProject'
    BY <1>5, <2>1, ProjectStays DEF OtherStep
  <2> QED BY <1>2, <2>1, <2>2, <2>3 DEF OpenedInv, Held
<1>6. ASSUME NEW path \in Imports, AddRootUnit(path)
      PROVE  OpenedInv'
  <2> DEFINE us == [dir \in DOMAIN units \union {path} |->
                      IF dir = path THEN NewUnit ELSE units[dir]]
  <2>1. \A dir \in DOMAIN us : us[dir] \in Unit
    BY NewUnitOK DEF UnitsInv, GoodUnits
  <2>2. units' = Scan(us, excludedPaths) /\ UNCHANGED editor /\ Root \in DOMAIN us
    BY <1>6 DEF AddRootUnit, CurrentProject
  <2>3. \A dir \in DOMAIN us : Scan(us, excludedPaths)[dir].buffers = us[dir].buffers
    <3> SUFFICES ASSUME NEW dir \in DOMAIN us
                 PROVE  Scan(us, excludedPaths)[dir].buffers = us[dir].buffers
      OBVIOUS
    <3>1. "buffers" \in DOMAIN us[dir]
      BY <2>1 DEF Unit
    <3> HIDE DEF us
    <3>2. ScanUnit(us[dir], dir, excludedPaths, disk).buffers = us[dir].buffers
      BY <3>1 DEF ScanUnit, FillCache
    <3> QED BY <3>2 DEF Scan
  <2>4. Held(us)
    BY <1>1 DEF Held, NewUnit
  <2>5. DOMAIN units' = DOMAIN us
    BY <2>2, ScanFolders
  <2> HIDE DEF us
  <2> QED BY <1>2, <2>2, <2>3, <2>4, <2>5 DEF OpenedInv, Held, CurrentProject
<1>7. ASSUME NEW path \in Imports, RemoveRootUnit(path)
      PROVE  OpenedInv'
  <2>1. Held(units') /\ UNCHANGED editor
    BY <1>1, <1>7 DEF RemoveRootUnit, Held
  <2>2. CurrentProject'
    BY <1>7, ProjectStays DEF OtherStep, RemoveRootUnit
  <2> QED BY <1>2, <2>1, <2>2 DEF OpenedInv, Held
<1>8. CASE Crash
  <2>1. units' = NoUnits /\ \A f \in Files : editor'[f] = NoText
    BY <1>8 DEF Crash
  <2> QED BY <1>1, <2>1 DEF OpenedInv, Held
<1>9. CASE UNCHANGED <<units, editor>>
  BY <1>9 DEF OpenedInv, Held, CurrentProject
<1>10. CASE Environment
  BY <1>8, <1>9, <1>10 DEF Environment, SaveDocument, DeleteFile, CreateFile, EditDotfile
<1>11. EmptyText \in Texts
  BY RootUnitAssumption
<1> QED BY <1>3, <1>4, <1>5, <1>6, <1>7, <1>9, <1>10, <1>11 DEF Next, Request, vars
=============================================================================
