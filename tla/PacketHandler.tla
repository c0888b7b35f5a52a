--------------------------- MODULE PacketHandler ---------------------------
(***************************************************************************)
(* Class PacketHandler: every message of the editor is handled to its end, *)
(* by a method of the project and, for most messages, a compilation whose  *)
(* diagnostics are published.  The project of module Project is extended   *)
(* with the diagnostics last published, with those the editor shows, and   *)
(* with the license.                                                       *)
(***************************************************************************)
EXTENDS Compilation

CONSTANTS
  Reopens,   \* whether setProjectPath may come again while a project is open
  KeyChecks  \* what may become of a license key: see HandleSetLicenseKey

VARIABLES
  reported,  \* prev_files_with_diagnostics of the current project, by name
  shown,     \* the diagnostics the editor shows
  licensed,  \* is_valid() of the cached license
  shared     \* license_shared_with_client of the current project

client == <<compilation, reported, shown, licensed, shared>>
allVars == <<units, excludedPaths, defines, suppressed, dotfile, disk, editor,
             compilation, reported, shown, licensed, shared>>

ASSUME PacketHandlerAssumption ==
  /\ Reopens \in BOOLEAN
  /\ KeyChecks \subseteq {"valid", "invalid", "not written"}

NoDiagnostics == [f \in Files |-> {}]

-----------------------------------------------------------------------------
(* Publishing *)

\* Mutant of Publish: only files that have diagnostics are published.
PublishFound(previous) ==
  /\ reported' = Diagnostics'
  /\ shown' = [f \in Files |-> IF reported'[f] = {} THEN shown[f] ELSE reported'[f]]

\* send_diagnostics, to a project that published `previous' before: a file
\* with diagnostics now or then is published, the others are not mentioned.
Publish(previous) ==
  /\ reported' = Diagnostics'
  /\ shown' = [f \in Files |->
                 IF reported'[f] = {} /\ previous[f] = {} THEN shown[f]
                                                         ELSE reported'[f]]

\* find_and_report_diagnostics.  LICENSE_CHECK expands to nothing.
FindAndReport ==
  IF CurrentProject'
    THEN Recompiled /\ Publish(reported)
    ELSE UNCHANGED <<compilation, reported, shown>>

\* What is published and the compilation stay, whatever the handler changes.
Silent == UNCHANGED <<compilation, reported, shown>>

\* Mutant of ShareLicense: no message but setLicenseKey sends it.
ShareLicenseOnce(sent) ==
  /\ UNCHANGED licensed
  /\ shared' = sent

\* handle_json_message: a valid license is sent once to every project.
ShareLicense(sent) ==
  /\ UNCHANGED licensed
  /\ shared' = (sent \/ (CurrentProject' /\ licensed))
-----------------------------------------------------------------------------
(* The handlers *)

\* The former project is gone with its compilation, and nobody tells the editor.
NoProject ==
  /\ compilation' = NoCompilation
  /\ reported' = NoDiagnostics
  /\ UNCHANGED shown

HandleSetProjectPath ==
  /\ Reopens \/ ~CurrentProject
  /\ SetProjectPath
  /\ IF CurrentProject'
       THEN Recompiled /\ Publish(NoDiagnostics)
       ELSE NoProject
  /\ ShareLicense(FALSE)

HandleReloadDotfile == ReloadDotfile /\ FindAndReport /\ ShareLicense(shared)

\* add_file returns whether the path is new to the cache.
NewToCache(f) ==
  /\ HasUnit(f)
  /\ ~InCache(units[UnitVia(f)], f)
  /\ f \in SourceFiles \union HeaderFiles

HandleDidOpen(f, text) ==
  /\ AddFile(f, text)
  /\ IF NewToCache(f) THEN FindAndReport ELSE Silent
  /\ ShareLicense(shared)

HandleDidChange(f, text) ==
  UpdateFileBuffer(f, text) /\ FindAndReport /\ ShareLicense(shared)

HandleDidClose(f) ==
  RemoveFileIfNoEnt(f) /\ FindAndReport /\ ShareLicense(shared)

\* The handlers that leave it to the client to ask for a compilation.
HandleIncludeResource(path) == IncludeResource(path) /\ Silent /\ ShareLicense(shared)

HandleExcludeResource(path) == ExcludeResource(path) /\ Silent /\ ShareLicense(shared)

HandleRejectedResource(path) == RejectResource(path) /\ Silent /\ ShareLicense(shared)

HandleSetMacros(macros) == SetMacros(macros) /\ Silent /\ ShareLicense(shared)

\* A dotfile that cannot be written turns the request into an error.
ReportIfWritten ==
  \/ dotfile' = Dump(units', excludedPaths', defines', suppressed') /\ FindAndReport
  \/ FALSE \in WriteOutcomes /\ dotfile' = dotfile /\ Silent

HandleAddRootUnit(path) == AddRootUnit(path) /\ ReportIfWritten /\ ShareLicense(shared)

HandleRemoveRootUnit(path) == RemoveRootUnit(path) /\ ReportIfWritten /\ ShareLicense(shared)

\* recompile and initialized
Recompile == UNCHANGED vars /\ FindAndReport /\ ShareLicense(shared)

\* textDocument/definition
HandleDefinition ==
  /\ CurrentProject
  /\ UNCHANGED vars
  /\ UseCompilation /\ UNCHANGED <<reported, shown>>
  /\ ShareLicense(shared)

\* textDocument/completion, answered for a document that has a buffer.
HandleCompletion(f) ==
  /\ HasUnit(f)
  /\ units[UnitVia(f)].buffers[f] # NoText
  /\ UNCHANGED vars
  /\ UseCompilation /\ UNCHANGED <<reported, shown>>
  /\ ShareLicense(shared)

\* license::set_license_key: a key that is invalid or cannot be written to the
\* license file leaves the cached one, and the handler returns.
HandleSetLicenseKey ==
  /\ UNCHANGED vars
  /\ \/ /\ "valid" \in KeyChecks
        /\ FindAndReport
        /\ licensed' = TRUE
        /\ shared' = (shared \/ CurrentProject)
     \/ /\ KeyChecks \intersect {"invalid", "not written"} # {}
        /\ Silent
        /\ ShareLicense(shared)

\* Neither the server nor the editor's session survives.
SessionEnds ==
  /\ Crash
  /\ compilation' = NoCompilation
  /\ reported' = NoDiagnostics /\ shown' = NoDiagnostics
  /\ licensed' = FALSE /\ shared' = FALSE
-----------------------------------------------------------------------------
HandlerInit ==
  /\ Init
  /\ compilation = NoCompilation
  /\ reported = NoDiagnostics
  /\ shown = NoDiagnostics
  /\ licensed = FALSE
  /\ shared = FALSE

Handle ==
  \/ HandleSetProjectPath
  \/ HandleReloadDotfile
  \/ \E f \in Documents :
       \/ \E text \in Texts : HandleDidOpen(f, text) \/ HandleDidChange(f, text)
       \/ HandleDidClose(f)
       \/ HandleCompletion(f)
  \/ \E path \in Resources :
       \/ HandleIncludeResource(path)
       \/ HandleExcludeResource(path)
       \/ HandleRejectedResource(path)
  \/ \E macros \in MacroSets : HandleSetMacros(macros)
  \/ \E path \in Imports : HandleAddRootUnit(path) \/ HandleRemoveRootUnit(path)
  \/ Recompile
  \/ HandleDefinition
  \/ HandleSetLicenseKey

Elsewhere ==
  /\ \/ \E f \in Documents : SaveDocument(f)
     \/ \E f \in Volatile : DeleteFile(f) \/ \E text \in Texts : CreateFile(f, text)
     \/ \E content \in Dotfiles : EditDotfile(content)
  /\ UNCHANGED client

HandlerNext == Handle \/ Elsewhere \/ SessionEnds

HandlerSpec == HandlerInit /\ [][HandlerNext]_allVars
-----------------------------------------------------------------------------
(* Properties *)

\* The types of the variables.
HandlerTypeOK ==
  /\ TypeOK
  /\ compilation \in [texts : [Files -> Texts \union {NoText}], macros : SUBSET Macro]
  /\ reported \in [Files -> SUBSET STRING]
  /\ shown \in [Files -> SUBSET STRING]
  /\ licensed \in BOOLEAN
  /\ shared \in BOOLEAN

\* What the editor shows is what the project published last, so that what is
\* gone can be cleared and getDiagnosticStringsForLine answers about what the
\* user sees.
ShownIsReported == CurrentProject => shown = reported

\* A project is never left without the license that the server was given.
LicenseShared == CurrentProject /\ licensed => shared

\* Everything the editor shows was found in the text and under the macros of
\* the compilation that definitions and completions are answered from, however
\* handlers that publish and handlers that do not follow one another.
ShownIsCompiled ==
  CurrentProject =>
    \A f \in Files :
      shown[f] \ {MissingInclude} \subseteq FaultsIn(compilation.texts[f], compilation.macros)

\* Every source of the project that the compiler gets shows the faults of the
\* text the user has before him: the editor's, or the disk's if it is closed.
\* (The empty text of a document is not stored when it is opened.)
Seen(f) == IF editor[f] = NoText THEN disk[f] ELSE editor[f]

ShowsSeen ==
  \A f \in units[Root].nonInlined :
    ~IsPathExcluded(f, excludedPaths) /\ editor[f] # EmptyText =>
      shown[f] \ {MissingInclude} = FaultsIn(Seen(f), defines) \ suppressed

\* That is so after every edit, close and recompilation, unless a source that
\* was passed to the compiler is gone: then no diagnostic is found at all.
EditsAnswered ==
  [][CurrentProject' /\ (\A f \in Targets : disk[f] # NoText)' /\ ~ShowsSeen' =>
       /\ ~Recompile
       /\ \A f \in Documents :
            ~HandleDidClose(f) /\ \A text \in Texts : ~HandleDidChange(f, text)]_allVars

\* The compilation as it would be of the texts the user has before him.
SeenTexts ==
  [f \in Files |->
     IF compilation.texts[f] = NoText \/ editor[f] = EmptyText
       THEN compilation.texts[f]
       ELSE Seen(f)]

\* Completions and definitions are about those texts, with every
\* source in the index.
AnswersHold ==
  /\ Modules(compilation.texts) = Modules(SeenTexts)
  /\ \A f \in Files :
       \A row \in Lines(compilation.texts[f]) \union Lines(SeenTexts[f]) :
         Definitions(compilation.texts, SourceFiles, f, row)
           = Definitions(SeenTexts, SourceFiles, f, row)

\* A cached compilation only comes to answer about another text than the one
\* the user sees when the disk changes or a document is opened: no edit, no
\* close and no request that recompiles, or that fails to, leaves a definition
\* at a line where it no longer is.
AnswersStay ==
  [][AnswersHold /\ ~AnswersHold' =>
       disk' # disk \/ \E f \in Documents : editor[f] = NoText /\ editor'[f] # NoText]_allVars

\* A file that was deleted and is then closed shows nothing any more.
DeletedFilesClear ==
  [][CurrentProject =>
       \A f \in Documents :
         disk[f] = NoText /\ shown'[f] # {} => ~HandleDidClose(f)]_allVars
=============================================================================
