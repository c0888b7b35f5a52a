# HDL Copilot server: a TLA+ model

HDL Copilot is a VS Code plugin with a C++ language server for SystemVerilog.
This directory holds a model of the server (`server/src/`): TLA+ modules, TLC
runs on small instances, and proofs for the TLA+ proof system. Paths below are
relative to the repository, line numbers to the files in `server/src/`.

The server is one thread. It reads a message, handles it to its end, writes
what it has to say, and reads the next. What makes it hard is not threads but
memory: five mutable copies of the same facts (the editor's documents, the
buffers, the file index, the disk, the dotfile) which requests, other programs
and the user's own editing of the dotfile change in any order, and which each
request reads or refreshes only partly.

## 1. Inventory

| Component | Source | State | Operations | Correct when |
|---|---|---|---|---|
| Path predicates | `utils.cpp` | none | `is_path_part_of_path`, `is_path_excluded`, URI conversion | below means component by component |
| Root unit: file index of a folder | `rootunit.cpp` | buffers, cached source and header paths, compiled (`non_inlined`) and inlined files, include names, stale flag | store, clear and read a buffer; add, remove and clear cached paths; walk the folder; scan; move included files | every source the folder shows is either compiled or inlined, never both; a walk finds what is there, within its limits |
| Project | `project.cpp` | root units by path, excluded paths, macros, suppressions, the dotfile | load and write the dotfile, exclude, include, set macros, add and remove a folder, open, change and close a document | folders apart; exclusions do to files what was asked; what the user wrote by hand survives; memory and dotfile agree |
| Compilation and diagnostics | `project.cpp` 80-372 | cached compilation, source manager | `compile`, `find_diagnostics` | what is compiled is what the user sees; filtered by exclusions, imports and suppressions |
| Packet handler | `packethandler.cpp` | current project, the diagnostics published last, license sent | one handler per message | the editor shows the last result and nothing that is gone; every project gets the license |
| Language client | `languageclient.cpp` | input buffer | read a framed message, dispatch, write | every request is answered; the loop ends with the input |
| Lookup and completions | `project.cpp`, `lookupvisitor.hpp`, `completions.hpp` | reads the cached compilation | definition, completion | answers are about the current state |
| License | `license.cpp`, `.hpp` | cached key | validate, store | valid keys only |
| Warnings | `project.cpp` 1101-1111 | unsent warnings | register, send, acknowledge | never registered in this code |
| Start, signals, shared types | `main.cpp`, `shared.*` | none | | |

How they interact: the language client calls the packet handler; the packet
handler holds the one current project and calls its methods; the project calls
its root units and the compiler (slang, external); the root units and the
project read the disk. Nothing calls back. The editor acts through messages
and by saving to the disk; other programs and the user change the disk and the
dotfile at any moment between two messages, without a message.

Hard behaviours: the order of requests, saves, closes, reloads and edits of
the dotfile; a dotfile cut short by a crash or not writable; files that come
and go; diagnostics published by one request and to be cleared by another.
PROJECT.json lists each hazard at its line, with the properties about it.

## 2. Modules

| Module | Models | State |
|---|---|---|
| `Paths` | paths as sequences of components; `utils.cpp` | none |
| `ExclusionList` | the edits of `excluded_paths` | none |
| `RootUnit` | class `RootUnit`; each method an operator on the unit's record | none |
| `DirectoryWalk` | `find_source_and_header_files`, one entry of one directory per step, with its limits and its error | `files`, `excluded`, `found`, `pending`, `total`, `hdl`, `exceeded`, `ended` |
| `ExcludeHelper` | the recursion of `include_resource`, a recursive function, beside its non-recursive definition, on the trees of `DirectoryWalk` | as `DirectoryWalk` |
| `Project` | class `Project`, disk, editor, dotfile | `units`, `excludedPaths`, `defines`, `suppressed`, `dotfile`, `disk`, `editor` |
| `ProjectClaims` | what comments and tests say that the code does not do | as `Project` |
| `ExclusionSet` | abstract specification: a set of excluded files, a saved one, the files there are | `live`, `saved`, `present` |
| `ProjectExclusions` | the mapping of `Project` to `ExclusionSet` | as `Project` |
| `Compilation` | `compile` and what is read from a compilation: diagnostics, definitions, the modules of completions | `Project`'s and `compilation` (`cached_compilation`) |
| `PacketHandler` | every handler: a method of `Project`, a compilation, a publication, an answer | `Compilation`'s and `reported`, `shown`, `licensed`, `shared` |
| `LanguageClient` | the receive loop over the symbols of the input, and the client that writes it | `sent`, `input`, `closed`, `state`, `expected`, `content`, `handled` |
| `MessageQueue` | abstract specification of the loop: a queue of messages, some skipped, some lethal | `sent`, `handled`, `halted` |
| `Session` | the loop composed with the dispatch: which requests are answered | `LanguageClient`'s and `project`, `buffered`, `answered` |
| `MC*` | instances | |
| `PathTheorems` | proofs: paths, and what the edits of a list of exclusions do | |
| `RootUnitTheorems` | proofs: the operators on a unit | |
| `DirectoryWalkTheorems` | proofs: the walk, and the recursion of `ExcludeHelper` | |
| `ProjectTheorems` | proofs: types, folders and targets of `Project` | |
| `ProjectExclusionsTheorems` | proofs: the lists of exclusions implement `ExclusionSet` | |
| `ProjectEditsTheorems` | proofs: buffers, hand edits, scans, memory and dotfile | |
| `PacketHandlerTheorems` | proofs: what the editor shows, what is answered, the license | |
| `SessionTheorems` | proofs: the receive loop implements `MessageQueue`; the answers | |

Actions are named after the methods and handlers in upper case
(`exclude_resource` is `ExcludeResource`, its handler
`HandleExcludeResource`). A method that loads the dotfile, changes something,
scans and writes is one action that does all four, because nothing interleaves
with it; the exception is the end of the process in the middle of
`write_dotfile`, which `Crash` models by the dotfile it leaves behind.
`PacketHandler` conjoins to each action of `Project` what the handler does
afterwards. `HandlerDrivesProject` proves that it adds no behaviour of the
project.

### How the data are abstracted

* A path is a sequence of component names, absolute when the first is `"/"`.
  Text prefixes of printed paths (509-515) are kept by the constant
  `NamePrefixes`.
* A file's text is the sequence of its lines, a line the source name of its
  include or `NoInclude`. That is what the index reads. What the compiler finds
  in a text are constants: `Faults`, diagnostics unless a macro is defined
  (line-wide and file-wide suppressions are part of it), and the modules it
  `Declares` and, by line, `Instantiates`.
* A macro is the pair of its name and its value, where the code keeps the string
  `name=value` and splits it at the first `=` to write it: a name is an
  identifier, which has none. An entry of the dotfile's macros may lack either
  (`MacroEntry`), and a load skips it (`Complete`).
* Lists without meaningful order are sets: `excluded_paths` (which entry is
  opened up when several cover a path depends on the order, so that
  `Including` allows each), the macros, the targets.
* `include_name_to_paths` holds every suffix of every cached source; the unit
  keeps the sources (`named`) and `EndsWith` is the look-up.
* `load_dotfile` is called twice by `setProjectPath`; the second call finds
  fresh units and changes nothing, and the model loads once.
* A directory exists when a file in it does. The dotfile is not an entry of
  the project folder. A relative import is not modelled.
* In `Project` the walk of a folder is the set `Walk`; `DirectoryWalk` shows
  that the loop finds this set, in any order of the entries, and what happens
  beyond the limits (10^6 files and 10^4 HDL files in the code, constants in
  the model) and at a directory that cannot be opened. Errors of the file
  system elsewhere are left out, except a dotfile that cannot be opened.
* A compilation is the text of every file it read and the macros it was given:
  all answers are functions of these. A definition is looked up by line, not by
  column; a result that is repeated for every folder counts once; of
  completions the modules they offer are kept, not the constant ones or their
  layout.
* slang is external: include resolution, what is read, and the diagnostics are
  modelled from how `compile` and `find_diagnostics` set it up and use it.
* In `LanguageClient` a header is one symbol, its end of line two, and a body
  as many as `Content-Length` says: every way in which the loop gets out of
  step with the messages is one of counting these. Headers other than
  Content-Length stand for all others.
* `Session` keeps of the project whether there is one and of its buffers
  whether it has the one document's; `PacketHandler` has the rest. The kinds of
  messages are those that differ in what they change or in when they are
  answered; getDiagnosticStringsForLine is answered as a definition is.
  Requests with missing parameters and `$/setTrace` change and answer nothing.

## 3. The runs

All passing runs search the whole state space of their instance. Constants
named `...s` in `Project` say what the environment may do and are the bounds;
there is no depth bound. The one counter is the number of messages in a
session, bounded by `MaxSent`.

| Run | Instance | Distinct states | Checks |
|---|---|---|---|
| `exclusions` | files at three levels, five resources at all levels, two hand-written dotfiles and none, one of them with a macro that lacks its value, one file that comes and goes, failed writes, crashes idle and while writing | 10 230 | `ListsApart`, `ScanExact`, `HandEditsKept`, `ExclusionsImplemented`, `RequestsAsNamed` |
| `index` | three sources and a header, four texts with includes by name and by path, one document, one volatile source, a resource, hand edits | 40 530 | `TypeOK`, `EachTargetOnce`, `OpenTextKept`, `ScanExact` |
| `imports` | folders beside, inside one another and above the project, a header in one of them as the document, three resources, hand-written dotfiles with imports, exclusions and macros, whole or without a value, or without some of the sections | 52 092 | `UnitsApart`, `EachTargetOnce`, `ScanExact`, `HandEditsKept`, `SplitStays`, `SavedStays`, `ScanFollowsLoad` |
| `reports` | a document with three texts that is also deleted and created, an import it may include, macros, an exclusion, definitions and completions | 27 464 | `ShownIsReported`, `ShownIsCompiled`, `EditsAnswered`, `DeletedFilesClear`, `AnswersStay` |
| `handlers` | no document; hand edits, failed writes, license keys of every outcome, crashes | 26 384 | `HandlerTypeOK`, `LicenseShared`, `ShownIsCompiled` |
| `walk` | all trees over six files, four levels deep, three lists of exclusions, a directory that cannot be read, limits of four files and two HDL files | 3 208 | `WalkComplete`, `LimitsHold`, `ListsSiblings`, `WalkEnds` |
| `session` | three messages of ten kinds, one with another header before or after Content-Length, any of them broken off after any symbol | 58 850 | `AnsweredAsOwed`, `QueueImplemented`, `QueueServed`, `OwedAnswered`, `ComesToRest` |

Why the bounds are enough to mean something: three levels are what it takes
for an entry above, at and below a path to exist at once, and five resources
reach each of them and the project folder itself; three sources let an include
be deleted from one includer while another keeps it, with a line inserted
above; two overlapping imports and one above the project are the three ways
folders can be nested; six files let a walk meet each limit first, with
directories left and entered on both sides of the unreadable one; three
messages are a project, a document and a request, or a misread message between
two good ones. The proofs below lift the bounds for the properties they cover.

What the properties say:

* `ExclusionsImplemented`: with `Live` the files the path list covers and
  `Saved` those the dotfile's list covers, every behaviour of `Project` is one
  of `ExclusionSet`: what is loaded is what was saved, less files that are
  gone, and what is saved is what was there or what the server works with,
  through hand edits, failed writes, crashes and reloads. `ExclusionSet` lets a
  request name any files, so that this alone does not tie the effect of a
  request to its path.
* `RequestsAsNamed` does: every step of `ExcludeResource(path)` and
  `IncludeResource(path)` is the abstract request for the files below `path`.
* `ListsApart`: no entry lies below another one (if hand-written ones do not),
  which the correctness of `include_resource` rests on.
* `ListsSiblings`: the recursion of `include_resource` lists what the
  definition without recursion does.
* `ScanExact`: after an exclusion or an inclusion the targets of the folder
  are those a server started afresh would find, whatever the cache held.
* `HandEditsKept`: what the user wrote into sections a request is not about
  survives it, except what the load skips: paths that are gone, imports that
  are refused, and macros without name or value. One entry that is skipped costs
  no other. `addRootUnit` and `removeRootUnit`, which do not load, are not among
  these requests.
* `SplitStays`: targets and exclusions agree until a request changes the list
  of exclusions and either loads some that the server did not know, or is an
  inclusion that finds indexed files gone (it takes what stays excluded from
  the disk). A request that leaves the list as it was is never excused, also
  while a hand edit waits to be loaded. `imports` deletes no file, so that there
  the exception for inclusions does not arise.
* `SavedStays`: memory and dotfile agree until someone else changes the disk
  or the dotfile. It is about dotfiles that can be written and imports whose
  printed path does not start with the project's; see `sibling_import`.
* `ScanFollowsLoad`: an imported folder is left without its sources for four
  reasons only: setMacros and the exclusion of what is excluded already load
  it and do not scan; a load brings other exclusions and keeps the folder's
  index; or the folder's cache holds a header, which the scan takes for all
  there is.
* `EachTargetOnce`: no source is compiled for two folders, which `imports`
  checks, nor compiled and included, which `index` checks.
* `OpenTextKept`: the project's own folder keeps the open texts. It says nothing
  of imported folders, whose buffers a load drops.
* `UnitsApart`: no folder lies below another one.
* `ShownIsReported`: the editor shows what was published last.
* `ShownIsCompiled`: what it shows was found in the compilation that
  definitions and completions come from.
* `EditsAnswered`: after an edit, a close or a recompilation every target
  shows the faults of the text the user sees, the document's or the disk's.
  Stated for documents that are not empty (711 does not store an empty text)
  and unless a target is gone.
* `AnswersStay`: definitions and completions that are about the texts the user
  sees stay so, unless the disk changes or a document is opened: those two make
  the cached compilation stale without a message that replaces it.
* `DeletedFilesClear`: closing a file that was deleted clears it.
* `LicenseShared`: no project is left without a license the server has.
* `WalkComplete`: in whatever order the entries come, a walk that ends by
  itself found exactly the sources and headers that are not excluded.
* `LimitsHold`: at most one HDL file more than the limit is taken, and no walk
  is cut short in a folder within the limits.
* `WalkEnds`: the walk ends.
* `QueueImplemented`: every step of the loop is one of `MessageQueue` or leaves
  its variables alone. A message with a second header is misread and lost, but
  never one behind it.
* `QueueServed`: the loop implements the fairness of `MessageQueue` too: it does
  not stop with a good message ahead of it.
* `AnsweredAsOwed`: the answers are those owed, in order. `Owed` is defined
  from the messages alone, without the server's state.
* `OwedAnswered`: what is owed is answered at last, unless the process ends.
* `ComesToRest`: at the end of the input nothing half-read is handled, and no
  read waits for bytes that never come.

Each property of a passing run has a mutant, an operator above the definition
it mutates, which makes TLC find the property violated.

### Disagreements

Five runs show that the code does something other than a comment, a message or
a test of the repository says. PROJECT.json quotes each.

| Run | What happens |
|---|---|
| `reload_split` | a reload with new exclusions does not rescan the project's own folder |
| `sibling_import` | `/w/p2` imported into `/w/p` is saved and then refused by every load |
| `close_index` | closing a document drops an existing file from the index |
| `unsaved_include` | a rescan forgets the includes of unsaved documents |
| `reopened_project` | opening a project anew leaves old diagnostics on display |

More things the code does, met while modelling and without a run of their own:

* hand-written `excludePaths` one below the other: `include_resource` opens up
  the first entry above the path only (828-834) and the path stays excluded;
* loading the dotfile drops the open texts of imported folders (518);
* a macro without name or value, which a load skips (481), is taken out of the
  dotfile by the next write, as is a section that the server does not know;
* setMacros, and an exclusion of what is excluded already, leave imported
  folders without a scan, although a comment (123) says that `compile` assumes
  one;
* a load of a dotfile with new exclusions and no imports keeps the imported
  folders with the index they have, and the targets of the old exclusions;
* a scan walks a folder only if it has neither sources nor headers in its cache
  (`rootunit.cpp` 206): a header opened in a folder that was just loaded is
  taken for all there is;
* a document opened before its folder is imported has no buffer: once the
  folder is imported, it is compiled from the disk until it is edited;
* an inclusion opens up an entry by what is on the disk (861-880): a file the
  index knows and that is gone at the moment is no longer excluded afterwards;
* a source that is created and opened is neither compiled nor inlined until a
  rescan (714);
* diagnostics are published without a license (`LICENSE_CHECK` is empty),
  where an integration test expects none;
* the walk takes one HDL file more than its limit, and the result that says a
  limit was exceeded is ignored (389);
* a second header after Content-Length makes the loop read the body too early
  and lose the message; a first line without Content-Length, and a dotfile with
  a section of the wrong type, end the process;
* at the end of the input, and after shutdown and exit, the process polls on
  for ever; shutdown is not answered;
* a completion or definition that cannot be answered gets no error response.

The passing runs hold under the complement of these: `ListsApart` and
`RequestsAsNamed` with hand-written lists that are apart, `OpenTextKept` for
the project's own folder, `SplitStays` and `SavedStays` for the requests that
are not to blame, `ShownIsReported` with one project per session
(`Reopens = FALSE`).

### Deadlock and fairness

Deadlock is checked in every run but `walk` and `session`, which really stop: a
walk when it has ended, a session when the client has written all its messages
and the server has read them, or when the process has died.

Two specifications assume fairness. `WalkSpec` has `WF(WalkNext)`: the loop is
sequential code in the server's thread and waits for nothing. `SessionSpec` has
`WF(Server)`: the same thread reads, dispatches and reads again, and what it
waits for is input, for which `Server` is not enabled. Nothing is assumed of
the client: it may stop after any symbol. The fairness of `MessageQueue`,
`WF(Take)`, is not assumed: it is the property `QueueServed`. The handlers are
total functions of one thread, so that the other specifications state no
fairness.

## 4. The proofs

All theorems hold for every value of the constants under the `ASSUME`s of the
modules, which TLC evaluates on every run. Two of these carry weight: files
are leaves of the tree (`FilesAreLeaves`), and a message has Content-Length,
another header, or both in either order (`LanguageClientAssumption`). Besides,
theorems state these hypotheses where they use them:

| Hypothesis | Says | Why |
|---|---|---|
| `HandImportsApart` | the imports a user writes by hand are not nested in one another | the code does not check it (it checks them against the project folder only), and nested ones break the conclusions |
| `HandListsApart` | nor are the entries of a hand-written `excludePaths` | the same |
| `PathsAbsolute` | the project, the files and the paths in requests are absolute | those in URIs are |
| `RootIsFolder` | no file lies at or above the project's folder | it is a folder |
| `NoneIsNoList` | the value `None`, a missing section of a dotfile, is no set of paths or macros | one is told from the other |
| `~OpensLate` | projects are opened before documents are | a document opened earlier has no buffer, which the code does not mend |
| `~Reopens` | a session opens one project | see `reopened_project` |
| `DotfileWritable` | `write_dotfile` can open the file | else memory is changed and the dotfile is not |
| `ImportsPrintedApart` | no import's printed path starts with the project's, or the project's with its, unless one folder lies in the other | see `sibling_import` |
| `FaultsApart` | no other diagnostic is called what a missing include is called | slang's names are distinct |
| `DocumentsOwn` | documents lie in the project's own folder | a load replaces the units of imported folders with the buffers they hold, and a document opened before its folder is imported has no buffer: with one, TLC finds `AnswersStay` violated |

Every safety property of the passing runs is a theorem:

| Theorem | States | Hypotheses |
|---|---|---|
| `TypeCorrect` | `Spec => []TypeOK` | `HandImportsApart` |
| `FoldersApart` | `Spec => []UnitsApart` | `HandImportsApart` |
| `TargetsOnce` | `Spec => []EachTargetOnce` | `HandImportsApart` |
| `ListsStayApart` | `Spec => []ListsApart` | `PathsAbsolute`, `HandImportsApart`, `HandListsApart` |
| `RequestsTouchWhatTheyName` | `Spec => RequestsAsNamed` | those and `RootIsFolder`, `NoneIsNoList` |
| `ExclusionsAreImplemented` | `Spec => ExclusionsImplemented` | the same |
| `OpenTextStays` | `Spec => []OpenTextKept` | `HandImportsApart`, `~OpensLate` |
| `HandEditsStay` | `Spec => HandEditsKept` | `HandImportsApart`, `NoneIsNoList` |
| `ScanStaysExact` | `Spec => ScanExact` | `HandImportsApart` |
| `SplitKept` | `Spec => SplitStays` | `PathsAbsolute`, `RootIsFolder`, `HandImportsApart`, `HandListsApart` |
| `SavedKept` | `Spec => SavedStays` | `PathsAbsolute`, `HandImportsApart`, `NoneIsNoList`, `DotfileWritable`, `ImportsPrintedApart` |
| `LoadsAreScanned` | `Spec => ScanFollowsLoad` | `PathsAbsolute`, `RootIsFolder`, `HandImportsApart`, `HandListsApart` |
| `HandlerDrivesProject` | `HandlerSpec => Spec` | none |
| `ShownReported` | `HandlerSpec => []ShownIsReported` | `HandImportsApart`, `~Reopens` |
| `ShownCompiled` | `HandlerSpec => []ShownIsCompiled` | `HandImportsApart`, `~Reopens` |
| `DeletedFilesCleared` | `HandlerSpec => DeletedFilesClear` | `HandImportsApart`, `~Reopens` |
| `EditsAreAnswered` | `HandlerSpec => EditsAnswered` | those and `~OpensLate`, `FaultsApart` |
| `AnswersAreKept` | `HandlerSpec => AnswersStay` | `HandImportsApart`, `~OpensLate`, `DocumentsOwn` |
| `LicenseAlwaysShared` | `HandlerSpec => []LicenseShared` | none |
| `HandlerTypesCorrect` | `HandlerSpec => []HandlerTypeOK` | `HandImportsApart` |
| `WalkFindsAll` | `WalkSpec => []WalkComplete` | none |
| `WalkWithinLimits` | `WalkSpec => []LimitsHold` | none |
| `HelperListsSiblings` | `WalkSpec => []ListsSiblings` | none |
| `Answers` | `SessionSpec => []AnsweredAsOwed` | none |
| `LoopIsQueue` | `SessionSpec => QueueImplemented` | none |
| `IncludingSound`, `IncludingComplete`, `IncludingApart` | an inclusion excludes nothing new and nothing of the path, leaves every other existing path as it was, and leaves no nested entries | a list that is apart |
| `DiffMissesNothing` | the line diff finds every include gained or lost | none |

The instance of each passing run satisfies the hypotheses of the theorems about
its properties.

### Folders and targets

The inductive invariant is `UnitsInv`. That
folders are apart is not inductive, since the next load takes them from the
dotfile, so `UnitsInv` says it of the dotfile's imports too (`DotfileOK`), and
`Importable` keeps them apart from the project's folder because a path below
another one has a printed path that starts with the other's. That the targets
of two folders are disjoint follows from folders being apart once every unit's
lists lie in its folder, which holds because the cache they come from does
(`Local`), and documents are cached by the unit `UnitVia` finds. Each action
has a lemma (`...Keeps`); each operator it is built from has one too
(`LoadedUnitsGood`, `ScanGood`, `UpdateGood`).

### Exclusion lists

`IncludingComplete` is the heart of them: for a file below the
opened entry and off the way to the included path, the sibling that covers it
is the prefix of the file at the first component where the two ways part,
which exists by well-foundedness. `CoveringUnique` shows why lists must be
apart: only then does opening up one entry suffice. So the inductive invariant
of the lists, `ListsInv`, says it of the list in memory and of the dotfile's,
which the next load takes over. With it each action has a lemma
(`...Implements`) that names the step of `ExclusionSet` it is; the one step
that needs the tree is the inclusion (`IncludingEffect`), where the prefixes of
a file that exists are all nodes of the tree, and nothing that exists lies
below a file. Steps about documents, scans and folders leave the lists alone.

These proofs use `Siblings`, which has no recursion. `HelperListsSiblings` ties
it to the code, whose `exclude_helper` calls itself. The recursive function
is a `CHOOSE` of some function that satisfies the recursive equation: one exists
(`Siblings` itself does, on the way to the path), so that the chosen one
satisfies it. Where a chosen function lists anything but the siblings of the
way, take such an entry of the greatest length: below it the function is right,
and one unfolding (`SiblingsUnfold`) makes it right there too.

### What people did

`OpenTextStays` adds `BuffersInv`: the project's own unit mirrors the editor,
and has no buffer for what is closed. The second half is needed because an
empty text is not stored when it is opened: a buffer left over from before
would then be read. Loads keep the project's unit, scans and caches leave its
buffers, a document of its folder is no other unit's (`OwnUnit`), and
removeRootUnit cannot name it. `HandEditsStay` needs no further invariant: what
a request writes after a load is what it loaded in all sections but its own
(`WritingKeeps`), and what it loaded is what was there less the entries that a
load skips.

### Scans, memory and dotfile

`ScanStaysExact` rests on `FreshScan`: from an empty cache a scan computes what
`Roots` defines from the disk alone, also when a folder is a regular file, which
is taken into the cache even if it is excluded. `SplitKept` shows that a scanned
unit and a new one are split as the exclusions have it, and that a unit which a
request does not scan holds no file whose status it changes: its files do not
lie below the path (`ElsewhereNotBelow`), and the exclusion lists change for
files below the path only, those that exist. A request that ends with the list
it began with needs none of this (`SameListSplits`).

`SavedKept` splits the requests by what they do last. One that writes leaves in
the dotfile what memory holds, and loading that is loading memory
(`WrittenSaved`): here the folders must be told apart from the project's by
their printed paths (`SavableInv`), or the load would refuse what
add_root_unit accepted. One that only loads leaves in memory what the dotfile
holds (`LoadedSaved`). The others touch neither.

`LoadsAreScanned` follows the folders through a request. After the load every
imported folder is stale, or has its sources, or has none to find, or was
without them before (`LoadedPending`); marking and caching keep that; and a
scan turns "stale" into "has its sources, or headers, or none to find"
(`ScanFinds`). A load that keeps the units keeps the lists under which
they were scanned, unless the dotfile names exclusions and no imports.

### What the editor shows

`ShownReported` adds `ShownInv`: while a project is open what is shown is what
was reported, and before one is opened nothing is shown. A handler other than
setProjectPath keeps the project open (`ProjectStays`, which needs folders to
be apart so that removeRootUnit cannot name the project's own) and publishes
against what was shown, or publishes nothing. `ShownCompiled` drops "while a
project is open" (`CompiledInv`): a publication compiles afresh, and a handler
that only uses the cache either finds it filled, or fills it while nothing is
on display that a compilation could contradict.

`DeletedFilesCleared`, `EditsAreAnswered` and `AnswersAreKept` need to know
whose buffer is read. The compiler takes a text from whichever unit has
one, so that a buffer left in an imported folder could hide the project's own.
`OpenedInv` says that a unit holds buffers of documents below its folder only;
folders are apart, so a document of the project has its buffer in the project's
unit or nowhere, and there it mirrors the editor (`CompiledSeen`). A fresh
compilation then reads what the user sees of every target, and what is published
is what it finds. For answers the invariant adds that there is no compilation
without a project; a step that does not recompile either leaves the
compilation and the texts alone, or changes a text and the compilation with it.

### The walk

`WalkFindsAll` and `WalkWithinLimits` share the invariant `WalkInv`: every file
to be found has been found or lies below an entry that waits (`Covered`), no
two waiting entries lie below one another and none above a file met before
(`Apart`), so that no file is met twice and the counters are bounded by
cardinalities (`Counted`). When nothing waits, everything is found.

### The session

The loop's state alone does not say what it will handle: `SessionInv` relates
it to the stream of all that was written. There are positions where the
messages begin (`Begins`), the input is what is left of the stream from some
position on (`Unread`), and the loop has dealt with the first n messages
(`Reading`): between messages it stands at the end of the n-th or short of it
by at most two bytes of a body, because a second header makes it read the body
two bytes early: without its last two bytes it does not parse, and these stray
bytes are swallowed with the next header line, which is why the message behind
is not lost. From that each step of the loop is one of
`MessageQueue` or none (`LoopIsQueue`). For `Answers`, what the handlers remember
(`project`, `buffered`) is what the last message of each sort amounts to
(`Remembers`, in terms of `LastOf`, as `Owed` is), and answers are appended in
the order of the messages.

### Only model-checked

`WalkEnds`, `QueueServed`, `OwedAnswered` and `ComesToRest`: they are liveness,
which with fairness and `ENABLED` is out of the prover's reach.
`SplitFollowsExclusions`, `MemoryIsSaved`, `ClosedFilesStayIndexed` and
`UnsavedIncludesKept` are no theorems because the code breaks them, and
`ShownIsReported` is one without a second project only.

The model has one recursive definition, `exclude_helper`. The library's
induction theorems cannot be used for it; the argument by the longest entry
above does without them.

## 5. Not modelled

* The order of the targets. Folders are put in order (137-149) and the targets
  are then sorted by a rank that nothing sets, with a sort that is not stable;
  what depends on the order is the external compiler, and no state of the
  server does.
* Suppressions by line and by file: what they filter is a question of text
  positions, and they are part of the constant `Faults`.
* Sections of the dotfile that the server does not know, which a write takes out,
  and, outside `Session`, sections of the wrong type, which end the process.
* Hazards that a property excepts and does not catch: the folders that are left
  empty when `setMacros` loads without a scan (887) and the headers that stand
  for a whole folder (rootunit.cpp:206), both listed in `ScanFollowsLoad`; the
  walk behind a directory that cannot be opened (rootunit.cpp:179), in
  `WalkComplete`; entries that are missing or incomplete while the dotfile is
  loaded (481, 504), in `HandEditsKept`. The properties say that nothing else
  goes wrong there.
* Requests with missing parameters, and the layout of answers: JSON, snippets
  of completions, logging.
* The arithmetic of the license key and the reading of the license file at
  initialize; URI decoding and trimming (unit tested).
* Warnings: `register_warning` has no caller.
* `main.cpp`: signals end the process, which is `Crash`. Shared types: records.
* slang, which is external, and the plugin, which acts as the editor does.
