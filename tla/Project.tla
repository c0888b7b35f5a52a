------------------------------ MODULE Project ------------------------------
(***************************************************************************)
(* Class Project: the project the server works on, its dotfile, the disk   *)
(* both read, and the editor whose documents it mirrors.  Every method     *)
(* that changes state is an action; the server is single threaded, so a    *)
(* method is one step, and other programs act between two of them.         *)
(*                                                                         *)
(* What a handler of the packet handler does after the method (recompile,  *)
(* answer) is not part of this module.                                     *)
(***************************************************************************)
EXTENDS RootUnit, ExclusionList

CONSTANTS
  Root,           \* the project's folder
  NamePrefixes,   \* pairs of component names, the second one extends the first
  None,           \* a section missing from the dotfile
  NoDotfile,      \* there is no dotfile
  \* What the environment may do
  Disks,          \* the disks the server may start on
  FirstDotfiles,  \* the dotfiles the server may start on, NoDotfile among them
  Dotfiles,       \* those a user may write by hand, NoDotfile if he removes it
  Documents,      \* the files the editor opens
  Volatile,       \* the files other programs create and delete
  Resources,      \* the paths named in excludeResource and includeResource
  Imports,        \* the paths named in addRootUnit and removeRootUnit
  MacroSets,      \* the macros named in setMacros
  WriteOutcomes,  \* whether write_dotfile can open the file: {TRUE} or BOOLEAN
  Crashes,        \* where the server may die, among "idle" and "writing"
  OpensLate       \* whether setProjectPath may come while documents are open

VARIABLES
  units,          \* root_units, empty when there is no current project
  excludedPaths,  \* excluded_paths
  defines,        \* the macros, as pairs <<name, value>>
  suppressed,     \* suppressed_diagnostics, by name
  dotfile,        \* the content of the dotfile
  disk,           \* the content of every file
  editor          \* the text of every document open in the editor

server == <<units, excludedPaths, defines, suppressed>>
vars == <<units, excludedPaths, defines, suppressed, dotfile, disk, editor>>

\* A dotfile that holds no object, as one cut short by a crash: it parses as
\* null and has no section.
NullDotfile == [imports             |-> None,
                excludePaths        |-> None,
                macros              |-> None,
                projectSuppressions |-> None]

NoUnits == [dir \in {} |-> NewUnit]

\* A macro's name and value.  (That "1" is in STRING is nothing the provers know.)
Macro == STRING \X (STRING \union {"1"})

\* An entry of the dotfile's macros, which a user may leave without either.
MacroEntry == (STRING \union {None}) \X (STRING \union {"1", None})

Dotfile == [imports             : {None} \union SUBSET Path,
            excludePaths        : {None} \union SUBSET Path,
            macros              : {None} \union SUBSET MacroEntry,
            projectSuppressions : {None} \union SUBSET STRING]

ASSUME ProjectAssumption ==
  /\ Root \in Path
  /\ Resources \subseteq Path
  /\ Imports \subseteq Path
  /\ FirstDotfiles \union Dotfiles \subseteq Dotfile \union {NoDotfile}
  /\ NoDotfile \notin Dotfile
  /\ None \notin STRING \union {"1"}
  /\ MacroSets \subseteq SUBSET Macro
  /\ Documents \subseteq Files
  /\ Volatile \subseteq Files
  /\ Disks \subseteq [Files -> Texts \union {NoText}]
  /\ WriteOutcomes \subseteq BOOLEAN
  /\ Crashes \subseteq {"idle", "writing"}
  /\ OpensLate \in BOOLEAN
-----------------------------------------------------------------------------
(* Looking things up *)

\* fs::exists: a folder exists as long as something is in it.
Exists(path) ==
  \/ IsPathPartOfPath(Root, path)
  \/ \E f \in Files : disk[f] # NoText /\ IsPathPartOfPath(f, path)

\* Every path fs::exists accepts below an existing folder.
Nodes == UNION {{SubSeq(f, 1, n) : n \in DOMAIN f} : f \in {g \in Files : disk[g] # NoText}}

Containing(path) == {dir \in DOMAIN units : IsPathPartOfPath(path, dir)}

HasUnit(path) == Containing(path) # {}

\* get_unit_via_path: root_units is ordered by path, and of two folders that
\* contain a path the shorter one comes first.
UnitVia(path) ==
  CHOOSE dir \in Containing(path) :
    \A other \in Containing(path) : Len(dir) <= Len(other)

CurrentProject == Root \in DOMAIN units
-----------------------------------------------------------------------------
(* The dotfile *)

\* The value of a macro defaults to 1, when written and when read.
Valued(macros) == {<<m[1], IF m[2] = "" THEN "1" ELSE m[2]>> : m \in macros}

\* What write_dotfile writes.
Dump(us, excluded, macros, suppressions) ==
  [imports             |-> DOMAIN us \ {Root},
   excludePaths        |-> excluded,
   macros              |-> Valued(macros),
   projectSuppressions |-> suppressions]

\* Mutant of WriteDotfile: the dotfile is written before the change.
WriteDotfileFirst == dotfile' = Dump(units, excludedPaths, defines, suppressed)

WriteDotfile ==
  \E written \in WriteOutcomes :
    dotfile' = IF written THEN Dump(units', excludedPaths', defines', suppressed')
                          ELSE dotfile

\* An import is skipped when it is gone or when one of its printed path and
\* the printed path of the project starts with the other.
Importable(dir) ==
  /\ Exists(dir)
  /\ ~IsStringPrefix(Root, dir, NamePrefixes)
  /\ ~IsStringPrefix(dir, Root, NamePrefixes)

\* Mutants of LoadedUnits: the project's own unit is replaced like the others,
\* and the imports are not looked at.
LoadedUnitsAllNew(us) ==
  IF dotfile.imports = None
    THEN us
    ELSE [dir \in {Root} \union {d \in dotfile.imports : Importable(d)} |-> NewUnit]

LoadedUnitsNone(us) == us

\* load_dotfile, up to its scan.  A missing section leaves its variable as
\* it is; every import gets a new unit and the project's own unit is kept.
LoadedUnits(us) ==
  IF dotfile.imports = None
    THEN us
    ELSE [dir \in {Root} \union {d \in dotfile.imports : Importable(d)} |->
            IF dir = Root THEN us[Root] ELSE NewUnit]

\* The paths that the entries of excludePaths stand for.
Listed == {Resolve(Root, e) : e \in dotfile.excludePaths}

\* Mutant of LoadedExclusions: the list in memory stays.
LoadedExclusionsNone(excluded) == excluded

LoadedExclusions(excluded) ==
  IF dotfile.excludePaths = None THEN excluded ELSE {p \in Listed : Exists(p)}

\* Mutant of Complete: an entry without name or value ends the loop.
CompleteOrNone(entries) ==
  IF \E m \in entries : None \in {m[1], m[2]} THEN {} ELSE entries

\* The entries of macros that have a name and a value; the others are skipped.
Complete(entries) == {m \in entries : m[1] # None /\ m[2] # None}

LoadedDefines(macros) ==
  IF dotfile.macros = None THEN macros ELSE Valued(Complete(dotfile.macros))

LoadedSuppressions(suppressions) ==
  IF dotfile.projectSuppressions = None
    THEN suppressions
    ELSE dotfile.projectSuppressions

\* Mutant of Scan: the project's own unit only.
ScanOwn(us, excluded) ==
  [dir \in DOMAIN us |->
     IF dir = Root /\ us[dir].stale THEN ScanUnit(us[dir], dir, excluded, disk) ELSE us[dir]]

\* Project::scan_files scans the stale units.
Scan(us, excluded) ==
  [dir \in DOMAIN us |->
     IF us[dir].stale THEN ScanUnit(us[dir], dir, excluded, disk) ELSE us[dir]]

\* Mutant of MarkStale: the unit is left as it is.
MarkStaleNot(us, dir) == us

\* unit.value()->set_stale(true), by which time a load may have dropped the
\* unit from root_units.
MarkStale(us, dir) ==
  IF dir \in DOMAIN us THEN [us EXCEPT ![dir] = [us[dir] EXCEPT !.stale = TRUE]] ELSE us
-----------------------------------------------------------------------------
(* Opening and closing projects *)

\* handle_set_project_path: Project::create loads the dotfile, and the second
\* load repeats the first.  Without a dotfile there is no current project.
SetProjectPath ==
  /\ OpensLate \/ \A f \in Files : editor[f] = NoText
  /\ IF dotfile = NoDotfile
       THEN /\ units' = NoUnits
            /\ excludedPaths' = {} /\ defines' = {} /\ suppressed' = {}
       ELSE /\ excludedPaths' = LoadedExclusions({})
            /\ units' = Scan(LoadedUnits([dir \in {Root} |-> NewUnit]), excludedPaths')
            /\ defines' = LoadedDefines({})
            /\ suppressed' = LoadedSuppressions({})
  /\ UNCHANGED <<dotfile, disk, editor>>

\* The server dies, and the editor's documents are closed with the session.
\* In the middle of write_dotfile it leaves a dotfile cut short.
Crash ==
  /\ CurrentProject
  /\ units' = NoUnits
  /\ excludedPaths' = {} /\ defines' = {} /\ suppressed' = {}
  /\ editor' = [f \in Files |-> NoText]
  /\ \/ "idle" \in Crashes /\ UNCHANGED dotfile
     \/ "writing" \in Crashes /\ dotfile' = NullDotfile
  /\ UNCHANGED disk

\* handle_reload_dotfile: load_dotfile, with its scan.
ReloadDotfile ==
  /\ CurrentProject
  /\ dotfile # NoDotfile
  /\ excludedPaths' = LoadedExclusions(excludedPaths)
  /\ units' = Scan(LoadedUnits(units), excludedPaths')
  /\ defines' = LoadedDefines(defines)
  /\ suppressed' = LoadedSuppressions(suppressed)
  /\ UNCHANGED <<dotfile, disk, editor>>
-----------------------------------------------------------------------------
(* Documents *)

\* A text that is not empty is stored, and the path is cached.
Opened(unit, f, text) ==
  LET marked == [unit EXCEPT !.stale = TRUE]
      stored == IF text = EmptyText THEN marked ELSE StoreFileContents(marked, f, text)
  IN  AddFileToCache(stored, f)

\* textDocument/didOpen
AddFile(f, text) ==
  /\ editor[f] = NoText
  /\ editor' = [editor EXCEPT ![f] = text]
  /\ units' = IF HasUnit(f)
                THEN [units EXCEPT ![UnitVia(f)] = Opened(units[UnitVia(f)], f, text)]
                ELSE units
  /\ UNCHANGED <<excludedPaths, defines, suppressed, dotfile, disk>>

\* The unit after an edit, before the rescan an edit may call for.
Edited(unit, f, text) ==
  LET added == AddedIncludes(FileContents(unit, f), text)
      moved == AddInlinedFiles([unit EXCEPT !.stale = TRUE], added, excludedPaths)
  IN  AddFileToCache(StoreFileContents(moved, f, text), f)

\* textDocument/didChange: an include that is gone calls for a rescan.
UpdateFileBuffer(f, text) ==
  /\ editor[f] # NoText
  /\ editor' = [editor EXCEPT ![f] = text]
  /\ units' =
       IF ~HasUnit(f) THEN units
       ELSE LET unit   == units[UnitVia(f)]
                edited == [units EXCEPT ![UnitVia(f)] = Edited(unit, f, text)]
            IN  IF DeletedIncludes(FileContents(unit, f), text) = {}
                  THEN edited
                  ELSE Scan(edited, excludedPaths)
  /\ UNCHANGED <<excludedPaths, defines, suppressed, dotfile, disk>>

Closed(unit, f) ==
  RemoveFileFromCache(ClearFileContents([unit EXCEPT !.stale = TRUE], f), f)

\* textDocument/didClose: whether the file still exists is not looked at.
RemoveFileIfNoEnt(f) ==
  /\ editor[f] # NoText
  /\ editor' = [editor EXCEPT ![f] = NoText]
  /\ units' = IF HasUnit(f)
                THEN [units EXCEPT ![UnitVia(f)] = Closed(units[UnitVia(f)], f)]
                ELSE units
  /\ UNCHANGED <<excludedPaths, defines, suppressed, dotfile, disk>>
-----------------------------------------------------------------------------
(* Exclusions *)

\* Mutant of Uncached: the caches are kept.
UncachedNot(path) == units

\* The caches are emptied before anything is checked.
Uncached(path) ==
  IF HasUnit(path)
    THEN [units EXCEPT ![UnitVia(path)] = ClearPathsCache(units[UnitVia(path)])]
    ELSE units

\* The checks that excludeResource and includeResource share.
Accepted(path) == HasUnit(path) /\ Exists(path) /\ dotfile # NoDotfile

RejectResource(path) ==
  /\ CurrentProject
  /\ ~Accepted(path)
  /\ units' = Uncached(path)
  /\ UNCHANGED <<excludedPaths, defines, suppressed, dotfile, disk, editor>>

\* The load that precedes the change of a resource.
LoadForResource ==
  /\ defines' = LoadedDefines(defines)
  /\ suppressed' = LoadedSuppressions(suppressed)
  /\ UNCHANGED <<disk, editor>>

ExcludeResource(path) ==
  /\ CurrentProject
  /\ Accepted(path)
  /\ LoadForResource
  /\ LET loaded   == LoadedUnits(Uncached(path))
         excluded == LoadedExclusions(excludedPaths)
     IN  IF IsPathExcluded(path, excluded)
           THEN /\ excludedPaths' = excluded
                /\ units' = loaded
                /\ UNCHANGED dotfile
           ELSE /\ excludedPaths' = Excluding(excluded, path)
                /\ units' = Scan(MarkStale(loaded, UnitVia(path)), excludedPaths')
                /\ WriteDotfile

IncludeResource(path) ==
  /\ CurrentProject
  /\ Accepted(path)
  /\ LoadForResource
  /\ excludedPaths' \in Including(LoadedExclusions(excludedPaths), path, Nodes)
  /\ units' = Scan(MarkStale(LoadedUnits(Uncached(path)), UnitVia(path)), excludedPaths')
  /\ WriteDotfile
-----------------------------------------------------------------------------
(* Macros *)

\* The units that load_dotfile replaces are not scanned here.
SetMacros(macros) ==
  /\ CurrentProject
  /\ dotfile # NoDotfile
  /\ units' = LoadedUnits(units)
  /\ excludedPaths' = LoadedExclusions(excludedPaths)
  /\ suppressed' = LoadedSuppressions(suppressed)
  /\ defines' = macros
  /\ WriteDotfile
  /\ UNCHANGED <<disk, editor>>
-----------------------------------------------------------------------------
(* Imported folders *)

\* Mutant of Separate: the folder may hold one that is there.
SeparateBelow(path) == ~HasUnit(path)

\* A new folder is neither below nor above one that is there.
Separate(path) ==
  /\ ~HasUnit(path)
  /\ \A dir \in DOMAIN units : ~IsPathPartOfPath(dir, path)

AddRootUnit(path) ==
  /\ CurrentProject
  /\ Exists(path)
  /\ Separate(path)
  /\ units' = Scan([dir \in DOMAIN units \union {path} |->
                      IF dir = path THEN NewUnit ELSE units[dir]],
                   excludedPaths)
  /\ UNCHANGED <<excludedPaths, defines, suppressed, disk, editor>>
  /\ WriteDotfile

\* A path below an imported folder erases nothing, and the dotfile is written.
RemoveRootUnit(path) ==
  /\ CurrentProject
  /\ Exists(path)
  /\ HasUnit(path)
  /\ UnitVia(path) # Root
  /\ units' = [dir \in DOMAIN units \ {path} |-> units[dir]]
  /\ UNCHANGED <<excludedPaths, defines, suppressed, disk, editor>>
  /\ WriteDotfile
-----------------------------------------------------------------------------
(* The other programs *)

SaveDocument(f) ==
  /\ editor[f] # NoText
  /\ disk' = [disk EXCEPT ![f] = editor[f]]
  /\ UNCHANGED <<units, excludedPaths, defines, suppressed, dotfile, editor>>

CreateFile(f, text) ==
  /\ disk[f] = NoText
  /\ disk' = [disk EXCEPT ![f] = text]
  /\ UNCHANGED <<units, excludedPaths, defines, suppressed, dotfile, editor>>

DeleteFile(f) ==
  /\ disk[f] # NoText
  /\ disk' = [disk EXCEPT ![f] = NoText]
  /\ UNCHANGED <<units, excludedPaths, defines, suppressed, dotfile, editor>>

EditDotfile(content) ==
  /\ dotfile' = content
  /\ UNCHANGED <<units, excludedPaths, defines, suppressed, disk, editor>>
-----------------------------------------------------------------------------
Init ==
  /\ units = NoUnits
  /\ excludedPaths = {}
  /\ defines = {}
  /\ suppressed = {}
  /\ dotfile \in FirstDotfiles
  /\ disk \in Disks
  /\ editor = [f \in Files |-> NoText]

Request ==
  \/ SetProjectPath
  \/ ReloadDotfile
  \/ \E f \in Documents :
       \/ \E text \in Texts : AddFile(f, text) \/ UpdateFileBuffer(f, text)
       \/ RemoveFileIfNoEnt(f)
  \/ \E path \in Resources :
       ExcludeResource(path) \/ IncludeResource(path) \/ RejectResource(path)
  \/ \E macros \in MacroSets : SetMacros(macros)
  \/ \E path \in Imports : AddRootUnit(path) \/ RemoveRootUnit(path)

Environment ==
  \/ Crash
  \/ \E f \in Documents : SaveDocument(f)
  \/ \E f \in Volatile : DeleteFile(f) \/ \E text \in Texts : CreateFile(f, text)
  \/ \E content \in Dotfiles : EditDotfile(content)

Next == Request \/ Environment

Spec == Init /\ [][Next]_vars
-----------------------------------------------------------------------------
(* Invariants *)

\* The types of the variables.
TypeOK ==
  /\ DOMAIN units \subseteq Path
  /\ units \in [DOMAIN units -> Unit]
  /\ excludedPaths \subseteq Path
  /\ defines \subseteq Macro
  /\ suppressed \subseteq STRING
  /\ dotfile \in Dotfile \union {NoDotfile}
  /\ disk \in [Files -> Texts \union {NoText}]
  /\ editor \in [Files -> Texts \union {NoText}]

\* No folder of the project lies below another one, so that a path has one
\* unit, whatever mixture of addRootUnit, removeRootUnit and reloads of a
\* hand-written list of imports (itself without nesting) led to the folders.
UnitsApart == NonNested(DOMAIN units)

\* No source is passed to the compiler on behalf of two folders, and none is
\* passed that another source of its folder was found to include: either one
\* would define its modules twice.
EachTargetOnce ==
  /\ \A d1, d2 \in DOMAIN units :
       d1 # d2 => units[d1].nonInlined \intersect units[d2].nonInlined = {}
  /\ \A dir \in DOMAIN units : units[dir].nonInlined \intersect units[dir].inlined = {}

\* Of the sources a scan found, those that are not excluded now are split
\* into compiled and included ones, and those that are excluded are neither.
SplitFollowsExclusions ==
  \A dir \in DOMAIN units :
    (units[dir].nonInlined \union units[dir].inlined) \intersect SourceFiles
      = {f \in units[dir].named : ~IsPathExcluded(f, excludedPaths)}

\* The project's own folder holds the text of every document of it that is
\* open, through every reload of the dotfile: a document that is open has an
\* empty text or a buffer with its text.
OpenTextKept ==
  CurrentProject =>
    \A f \in Documents :
      IsPathPartOfPath(f, Root) /\ editor[f] # NoText =>
        FileContents(units[Root], f) = editor[f]

\* The dotfile holds what the server was told: a reload would change neither
\* the folders nor the exclusions nor the macros.
MemoryIsSaved ==
  CurrentProject /\ dotfile # NoDotfile =>
    /\ dotfile.imports # None =>
         {d \in DOMAIN units : Exists(d)} = {Root} \union {d \in dotfile.imports : Importable(d)}
    /\ {p \in LoadedExclusions(excludedPaths) : Exists(p)} = {p \in excludedPaths : Exists(p)}
    /\ LoadedDefines(defines) = Valued(defines)
-----------------------------------------------------------------------------
(* Action properties *)

\* The sources of a folder that the compiler should get, from the disk alone:
\* those that are not excluded and that no other such source includes.
Roots(dir, excluded, files) ==
  LET live == {f \in SourceFiles : /\ files[f] # NoText
                                   /\ IsPathPartOfPath(f, dir)
                                   /\ ~IsPathExcluded(f, excluded)}
  IN  {f \in live : \A g \in live : f \notin IncludedBy(files[g], live)}

\* The imported folders whose sources no scan has found, so that none is compiled.
Unscanned ==
  {dir \in DOMAIN units \ {Root} : units[dir].named = {} /\ Roots(dir, excludedPaths, disk) # {}}

\* No request leaves an imported folder whose sources are not found, but for
\* four reasons: setMacros, and an exclusion of what is excluded already, load
\* the folder and leave it to a scan that may never come; a load keeps the
\* folder's index and not the exclusions it was made with; and a scan takes a
\* cache that holds headers, which documents put there, for all there is.
ScanFollowsLoad ==
  [][\A dir \in Unscanned' \ Unscanned :
       \/ disk' # disk
       \/ \E macros \in MacroSets : SetMacros(macros)
       \/ \E path \in Resources :
            ExcludeResource(path) /\ IsPathExcluded(path, LoadedExclusions(excludedPaths))
       \/ /\ dotfile # NoDotfile
          /\ dotfile.imports = None /\ LoadedExclusions(excludedPaths) # excludedPaths
       \/ units'[dir].headers # {}]_vars

\* After an exclusion or an inclusion the targets of the folder are those a
\* server started afresh would find, whatever the caches held before.
ScanExact ==
  [][\A dir \in DOMAIN units' :
       units'[dir].nonInlined # Roots(dir, excludedPaths', disk')
       => \A path \in Resources : HasUnit(path) /\ UnitVia(path) = dir =>
            /\ ~IncludeResource(path)
            /\ ExcludeResource(path) =>
                 IsPathExcluded(path, LoadedExclusions(excludedPaths))]_vars

\* No request breaks the agreement of the targets with the exclusions but one
\* that changes the list of exclusions, and then only for one of two reasons:
\* it loads, and the dotfile holds exclusions the server did not know; or it is
\* an inclusion, which looks at the disk for what stays excluded, and files the
\* index still knows are gone.
SplitStays ==
  [][SplitFollowsExclusions /\ ~SplitFollowsExclusions' =>
       /\ excludedPaths' # excludedPaths
       /\ \/ LoadedExclusions(excludedPaths) # excludedPaths
          \/ /\ \E dir \in DOMAIN units : \E f \in units[dir].named : disk[f] = NoText
             /\ \E path \in Resources : IncludeResource(path)]_vars

\* As long as the dotfile can be written and no import's printed path starts
\* with the project's, no request leaves memory and dotfile apart that were not
\* apart before.
SavedStays ==
  [][MemoryIsSaved /\ ~MemoryIsSaved' =>
       disk' # disk \/ \E content \in Dotfiles : EditDotfile(content)]_vars

\* What a step keeps of the dotfile: the exclusions of paths that exist, the
\* macros that have a name and a value, and the suppressions with the imports
\* that can be loaded.
ExclusionsKept ==
  dotfile.excludePaths # None =>
    /\ dotfile'.excludePaths # None
    /\ {p \in Listed : Exists(p)} \subseteq dotfile'.excludePaths

MacrosKept ==
  dotfile.macros # None =>
    dotfile'.macros = Valued({m \in dotfile.macros : None \notin {m[1], m[2]}})

OthersKept ==
  /\ dotfile.projectSuppressions # None =>
       dotfile.projectSuppressions = dotfile'.projectSuppressions
  /\ dotfile.imports # None =>
       /\ dotfile'.imports # None
       /\ {d \in dotfile.imports : Importable(d)} \subseteq dotfile'.imports

\* A method that loads the dotfile before it writes it keeps what a user
\* wrote by hand in the sections it is not about, but for what the load skips:
\* paths that are gone, imports that are refused, and macros without name or
\* value.  The write takes these out of the dotfile.
HandEditsKept ==
  [][CurrentProject /\ dotfile' # dotfile /\ NoDotfile \notin {dotfile, dotfile'} =>
       /\ ~(ExclusionsKept /\ OthersKept) =>
            \A macros \in MacroSets : ~SetMacros(macros)
       /\ ~(MacrosKept /\ OthersKept) =>
            \A path \in Resources : ~ExcludeResource(path) /\ ~IncludeResource(path)]_vars
=============================================================================
