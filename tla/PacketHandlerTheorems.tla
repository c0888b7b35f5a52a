----------------------- MODULE PacketHandlerTheorems -----------------------
(***************************************************************************)
(* Every step of the packet handler is a step of the project, so what is   *)
(* proved of the project holds under the packet handler.  On top of that:  *)
(* the editor shows what the project published; it was found in the        *)
(* compilation that definitions and completions come from; and that is     *)
(* about the texts the user sees, since the project's buffers mirror the   *)
(* open documents through every load, scan and change of folders.          *)
(***************************************************************************)
EXTENDS PacketHandler, ProjectEditsTheorems

\* A step of the packet handler is one of the project or none.
LEMMA HandlerStep ==
  ASSUME [HandlerNext]_allVars
  PROVE  [Next]_vars
<1>1. CASE Handle
  BY <1>1 DEF Handle, Next, Request, HandleSetProjectPath, HandleReloadDotfile,
              HandleDidOpen, HandleDidChange, HandleDidClose, HandleIncludeResource,
              HandleExcludeResource, HandleRejectedResource, HandleSetMacros,
              HandleAddRootUnit, HandleRemoveRootUnit, Recompile, HandleDefinition,
              HandleCompletion, HandleSetLicenseKey, vars
<1>2. CASE Elsewhere
  BY <1>2 DEF Elsewhere, Next, Environment
<1>3. CASE SessionEnds
  BY <1>3 DEF SessionEnds, Next, Environment
<1>4. CASE UNCHANGED allVars
  BY <1>4 DEF allVars, vars
<1> QED BY <1>1, <1>2, <1>3, <1>4 DEF HandlerNext

\* The packet handler drives the project through its methods only: its
\* specification implements the project's.
THEOREM HandlerDrivesProject == HandlerSpec => Spec
<1>1. HandlerInit => Init
  BY DEF HandlerInit
<1>2. [HandlerNext]_allVars => [Next]_vars
  BY HandlerStep
<1> QED BY <1>1, <1>2, PTL DEF HandlerSpec, Spec
-----------------------------------------------------------------------------
\* The editor shows nothing that the project did not publish last, and nothing
\* when no project was opened yet.
ShownInv == (CurrentProject => shown = reported) /\ (~CurrentProject => shown = NoDiagnostics)

\* Publishing to a project that published last what the editor shows leaves the
\* editor with the new diagnostics.
LEMMA PublishShows ==
  ASSUME NEW previous, Publish(previous), \A f \in Files : shown[f] = previous[f]
  PROVE  shown' = reported'
<1> DEFINE found == Diagnostics'
<1>1. found = [f \in Files |-> found[f]]
  BY DEF Diagnostics
<1>2. reported' = found
  BY DEF Publish
<1> HIDE DEF found
<1>3. shown' = [f \in Files |->
                  IF reported'[f] = {} /\ previous[f] = {} THEN shown[f] ELSE reported'[f]]
  BY DEF Publish
<1>4. shown' = [f \in Files |-> found[f]]
  BY <1>2, <1>3
<1> QED BY <1>1, <1>2, <1>4

\* What the handlers do to what is published and to the compilation.
LEMMA OtherHandlers ==
  ASSUME Handle, ~HandleSetProjectPath
  PROVE  FindAndReport \/ Silent \/ (UseCompilation /\ UNCHANGED <<reported, shown>>)
BY DEF Handle, HandleReloadDotfile, HandleDidOpen, HandleDidChange, HandleDidClose,
       HandleIncludeResource, HandleExcludeResource, HandleRejectedResource,
       HandleSetMacros, HandleAddRootUnit, HandleRemoveRootUnit, ReportIfWritten,
       Recompile, HandleDefinition, HandleCompletion, HandleSetLicenseKey

\* None of them opens or closes a project.
LEMMA OtherHandlersStep ==
  ASSUME Handle, ~HandleSetProjectPath
  PROVE  OtherStep
<1>1. EmptyText \in Texts
  BY RootUnitAssumption
<1> QED
  BY <1>1
     DEF Handle, HandleReloadDotfile, HandleDidOpen, HandleDidChange, HandleDidClose,
         HandleIncludeResource, HandleExcludeResource, HandleRejectedResource,
         HandleSetMacros, HandleAddRootUnit, HandleRemoveRootUnit, Recompile,
         HandleDefinition, HandleCompletion, HandleSetLicenseKey, OtherStep, vars

HandlerInv == UnitsInv /\ ShownInv

LEMMA ShownInvKept ==
  ASSUME ~Reopens, UnitsInv, ShownInv, [HandlerNext]_allVars
  PROVE  ShownInv'
<1>1. CASE SessionEnds
  BY <1>1 DEF SessionEnds, Crash, ShownInv, CurrentProject, NoUnits
<1>2. CASE HandleSetProjectPath
  <2>1. shown = NoDiagnostics
    BY <1>2 DEF HandleSetProjectPath, ShownInv
  <2>2. CASE CurrentProject'
    BY <1>2, <2>1, <2>2, PublishShows DEF HandleSetProjectPath, ShownInv, NoDiagnostics
  <2>3. CASE ~CurrentProject'
    BY <1>2, <2>1, <2>3 DEF HandleSetProjectPath, NoProject, ShownInv, NoDiagnostics
  <2> QED BY <2>2, <2>3
<1>3. CASE UNCHANGED <<reported, shown>> /\ CurrentProject' = CurrentProject
  BY <1>3 DEF ShownInv
<1>4. CASE FindAndReport /\ CurrentProject' = CurrentProject
  <2>1. CASE CurrentProject'
    BY <1>4, <2>1, PublishShows DEF FindAndReport, ShownInv
  <2>2. CASE ~CurrentProject'
    BY <1>4, <2>2 DEF FindAndReport, ShownInv
  <2> QED BY <2>1, <2>2
<1>5. CASE Handle /\ ~HandleSetProjectPath
  <2>1. FindAndReport \/ UNCHANGED <<reported, shown>>
    BY <1>5, OtherHandlers DEF Silent
  <2>2. OtherStep
    BY <1>5, OtherHandlersStep
  <2> QED BY <1>3, <1>4, <2>1, <2>2, ProjectStays
<1>6. CASE Elsewhere \/ UNCHANGED allVars
  <2>1. UNCHANGED <<units, reported, shown>>
    BY <1>6 DEF Elsewhere, SaveDocument, DeleteFile, CreateFile, EditDotfile, client, allVars
  <2> QED BY <2>1 DEF ShownInv, CurrentProject
<1> QED BY <1>1, <1>2, <1>5, <1>6 DEF HandlerNext

\* As long as no second project is opened in a session, the editor shows what
\* the project published last (PacketHandler::send_diagnostics).
THEOREM ShownReported ==
  ASSUME HandImportsApart, ~Reopens
  PROVE  HandlerSpec => []ShownIsReported
<1>1. HandlerInit => HandlerInv
  <2>1. HandlerInit => UnitsInv
    BY InitKeeps DEF HandlerInit
  <2>2. HandlerInit => ShownInv
    BY DEF HandlerInit, ShownInv
  <2> QED BY <2>1, <2>2 DEF HandlerInv
<1>2. HandlerInv /\ [HandlerNext]_allVars => HandlerInv'
  <2>1. ASSUME HandlerInv, [HandlerNext]_allVars PROVE HandlerInv'
    BY <2>1, HandlerStep, NextKeeps, ShownInvKept DEF HandlerInv
  <2> QED BY <2>1
<1>3. HandlerInv => ShownIsReported
  BY DEF HandlerInv, ShownInv, ShownIsReported
<1> QED BY <1>1, <1>2, <1>3, PTL DEF HandlerSpec
-----------------------------------------------------------------------------
\* ShownIsCompiled, with a project or without one.
CompiledInv ==
  \A f \in Files :
    shown[f] \ {MissingInclude} \subseteq FaultsIn(compilation.texts[f], compilation.macros)

\* Where nothing is compiled there is no fault.
LEMMA NoFaults == \A macros : FaultsIn(NoText, macros) = {}
<1>1. \A y \in Faults : y[1] \in Texts
  BY CompilationAssumption
<1>2. NoText \notin Texts
  BY RootUnitAssumption
<1> QED BY <1>1, <1>2 DEF FaultsIn

\* What is published after a compilation was found in it.
LEMMA PublishCompiled ==
  ASSUME NEW previous, Publish(previous), shown' = reported'
  PROVE  CompiledInv'
<1> SUFFICES ASSUME NEW f \in Files
             PROVE  shown'[f] \ {MissingInclude}
                      \subseteq FaultsIn(compilation'.texts[f], compilation'.macros)
  BY DEF CompiledInv, FaultsIn
<1>1. shown' = Diagnostics'
  BY DEF Publish
<1>2. Unresolved(f)' \subseteq {MissingInclude}
  BY DEF Unresolved
<1>3. shown'[f] \subseteq
        FaultsIn(compilation'.texts[f], compilation'.macros) \union Unresolved(f)'
  BY <1>1 DEF Diagnostics, FaultsIn
<1> QED BY <1>2, <1>3

LEMMA CompiledInvKept ==
  ASSUME ~Reopens, UnitsInv, ShownInv, CompiledInv, [HandlerNext]_allVars
  PROVE  CompiledInv'
<1>1. ShownInv'
  BY ShownInvKept
<1>2. ASSUME UNCHANGED <<compilation, shown>> PROVE CompiledInv'
  BY <1>2 DEF CompiledInv, FaultsIn
<1>3. ASSUME shown' = NoDiagnostics PROVE CompiledInv'
  BY <1>3 DEF CompiledInv, NoDiagnostics
<1>4. CASE SessionEnds
  BY <1>3, <1>4 DEF SessionEnds
<1>5. CASE HandleSetProjectPath
  <2>1. CASE CurrentProject'
    BY <1>1, <1>5, <2>1, PublishCompiled DEF HandleSetProjectPath, ShownInv
  <2>2. CASE ~CurrentProject'
    BY <1>1, <1>3, <2>2 DEF ShownInv
  <2> QED BY <2>1, <2>2
<1>6. CASE Handle /\ ~HandleSetProjectPath
  <2>1. CASE Silent
    BY <1>2, <2>1 DEF Silent
  <2>2. CASE FindAndReport
    BY <1>1, <1>2, <2>2, PublishCompiled DEF FindAndReport, ShownInv
  <2>3. CASE UseCompilation /\ UNCHANGED <<reported, shown>>
    <3>1. CASE compilation = NoCompilation
      <4>1. \A f \in Files : shown[f] \ {MissingInclude} = {}
        BY <3>1, NoFaults DEF CompiledInv, NoCompilation
      <4> QED BY <2>3, <4>1 DEF CompiledInv
    <3>2. CASE compilation # NoCompilation
      BY <1>2, <2>3, <3>2 DEF UseCompilation
    <3> QED BY <3>1, <3>2
  <2> QED BY <1>6, <2>1, <2>2, <2>3, OtherHandlers
<1>7. CASE Elsewhere \/ UNCHANGED allVars
  BY <1>2, <1>7 DEF Elsewhere, client, allVars
<1> QED BY <1>4, <1>5, <1>6, <1>7 DEF HandlerNext

\* The editor and the answers to definitions and completions are about the same
\* compilation, as long as no second project is opened in a session
\* (Project::compile, with the cache that find_diagnostics clears).
THEOREM ShownCompiled ==
  ASSUME HandImportsApart, ~Reopens
  PROVE  HandlerSpec => []ShownIsCompiled
<1> DEFINE AllInv == HandlerInv /\ CompiledInv
<1>1. HandlerInit => AllInv
  <2>1. HandlerInit => UnitsInv
    BY InitKeeps DEF HandlerInit
  <2>2. HandlerInit => ShownInv /\ CompiledInv
    BY DEF HandlerInit, ShownInv, CompiledInv, NoDiagnostics
  <2> QED BY <2>1, <2>2 DEF HandlerInv
<1>2. AllInv /\ [HandlerNext]_allVars => AllInv'
  <2>1. ASSUME AllInv, [HandlerNext]_allVars PROVE AllInv'
    BY <2>1, HandlerStep, NextKeeps, ShownInvKept, CompiledInvKept DEF HandlerInv
  <2> QED BY <2>1
<1>3. AllInv => ShownIsCompiled
  BY DEF CompiledInv, ShownIsCompiled
<1> QED BY <1>1, <1>2, <1>3, PTL DEF HandlerSpec
-----------------------------------------------------------------------------
\* Whoever holds a license and opens a project is told so once per project: no
\* message ends with a valid license that its project has not sent.
THEOREM LicenseAlwaysShared == HandlerSpec => []LicenseShared
<1>1. HandlerInit => LicenseShared
  BY DEF HandlerInit, LicenseShared
<1>2. LicenseShared /\ [HandlerNext]_allVars => LicenseShared'
  <2>1. ASSUME NEW sent, ShareLicense(sent) PROVE LicenseShared'
    BY <2>1 DEF ShareLicense, LicenseShared
  <2>2. CASE HandleSetLicenseKey
    BY <2>1, <2>2 DEF HandleSetLicenseKey, vars, LicenseShared, CurrentProject
  <2>3. CASE SessionEnds
    BY <2>3 DEF SessionEnds, LicenseShared
  <2>4. ASSUME LicenseShared, Elsewhere \/ UNCHANGED allVars PROVE LicenseShared'
    <3>1. UNCHANGED <<units, licensed, shared>>
      BY <2>4 DEF Elsewhere, SaveDocument, DeleteFile, CreateFile, EditDotfile, client, allVars
    <3> QED BY <2>4, <3>1 DEF LicenseShared, CurrentProject
  <2>5. CASE Handle /\ ~HandleSetLicenseKey
    <3>1. \E sent \in BOOLEAN \union {shared} : ShareLicense(sent)
      BY <2>5
         DEF Handle, HandleSetProjectPath, HandleReloadDotfile, HandleDidOpen,
             HandleDidChange, HandleDidClose, HandleIncludeResource,
             HandleExcludeResource, HandleRejectedResource, HandleSetMacros,
             HandleAddRootUnit, HandleRemoveRootUnit, Recompile, HandleDefinition,
             HandleCompletion
    <3> QED BY <2>1, <3>1
  <2> QED BY <2>2, <2>3, <2>4, <2>5 DEF HandlerNext
<1> QED BY <1>1, <1>2, PTL DEF HandlerSpec

-----------------------------------------------------------------------------
(* Types *)

Compilations == [texts : [Files -> Texts \union {NoText}], macros : SUBSET Macro]

ClientOK ==
  /\ compilation \in Compilations
  /\ reported \in [Files -> SUBSET STRING]
  /\ shown \in [Files -> SUBSET STRING]
  /\ licensed \in BOOLEAN
  /\ shared \in BOOLEAN

LEMMA NoCompilationOK == NoCompilation \in Compilations
BY DEF NoCompilation, Compilations

\* The compiler gets a text of every file it reads.
LEMMA FreshOK == TypeOK => FreshCompilation \in Compilations
<1> SUFFICES ASSUME TypeOK PROVE FreshCompilation \in Compilations
  OBVIOUS
<1>1. \A f \in Files : CompiledText(f) \in Texts \union {NoText}
  <2> SUFFICES ASSUME NEW f \in Files PROVE CompiledText(f) \in Texts \union {NoText}
    OBVIOUS
  <2> DEFINE buffered == {units[dir].buffers[f] : dir \in DOMAIN units} \ {NoText}
  <2>1. disk[f] \in Texts \union {NoText}
    BY DEF TypeOK
  <2>2. buffered \subseteq Texts
    BY DEF TypeOK, Unit
  <2>3. CompiledText(f) = IF buffered = {} THEN disk[f] ELSE CHOOSE text \in buffered : TRUE
    BY DEF CompiledText
  <2> HIDE DEF buffered
  <2> QED BY <2>1, <2>2, <2>3
<1>2. CASE Compiles
  <2> DEFINE texts == [f \in Files |-> IF f \in Read THEN CompiledText(f) ELSE NoText]
  <2>1. texts \in [Files -> Texts \union {NoText}]
    BY <1>1
  <2>2. FreshCompilation = [texts |-> texts, macros |-> defines]
    BY <1>2 DEF FreshCompilation
  <2> HIDE DEF texts
  <2> QED BY <2>1, <2>2 DEF TypeOK, Compilations
<1>3. CASE ~Compiles
  BY <1>3, NoCompilationOK DEF FreshCompilation
<1> QED BY <1>2, <1>3

LEMMA FreshOKAfter == TypeOK' => FreshCompilation' \in Compilations
<1>1. (TypeOK => FreshCompilation \in Compilations)'
  BY FreshOK, PTL
<1> QED BY <1>1 DEF Compilations

LEMMA PublishOK ==
  ASSUME ClientOK, NEW previous, Publish(previous)
  PROVE  reported' \in [Files -> SUBSET STRING] /\ shown' \in [Files -> SUBSET STRING]
<1>1. \A text, macros : FaultsIn(text, macros) \subseteq STRING
  BY CompilationAssumption DEF FaultsIn
<1>2. \A f : Unresolved(f)' \subseteq STRING
  BY CompilationAssumption DEF Unresolved
<1>3. Diagnostics' \in [Files -> SUBSET STRING]
  BY <1>1, <1>2 DEF Diagnostics
<1> QED BY <1>3 DEF Publish, ClientOK

\* What a handler leaves of the compilation and of what is published.
LEMMA HandlersOK ==
  ASSUME TypeOK, TypeOK', ClientOK, Handle
  PROVE  /\ compilation' \in Compilations
         /\ reported' \in [Files -> SUBSET STRING]
         /\ shown' \in [Files -> SUBSET STRING]
<1>1. CASE HandleSetProjectPath
  <2>1. CASE CurrentProject'
    BY <1>1, <2>1, PublishOK, FreshOKAfter DEF HandleSetProjectPath, Recompiled
  <2>2. CASE ~CurrentProject'
    BY <1>1, <2>2, NoCompilationOK
       DEF HandleSetProjectPath, NoProject, NoDiagnostics, ClientOK
  <2> QED BY <2>1, <2>2
<1>2. CASE ~HandleSetProjectPath
  <2>1. CASE FindAndReport
    BY <2>1, PublishOK, FreshOKAfter DEF FindAndReport, Recompiled, ClientOK
  <2>2. CASE Silent
    BY <2>2 DEF Silent, ClientOK
  <2>3. CASE UseCompilation /\ UNCHANGED <<reported, shown>>
    BY <2>3, FreshOK DEF UseCompilation, ClientOK
  <2> QED BY <1>2, <2>1, <2>2, <2>3, OtherHandlers
<1> QED BY <1>1, <1>2

\* A compilation holds the texts of files under macros, what is published and
\* shown are sets of diagnostics, and the license is a Boolean, next to the
\* types of the project (PacketHandler's members).
THEOREM HandlerTypesCorrect ==
  ASSUME HandImportsApart
  PROVE  HandlerSpec => []HandlerTypeOK
<1>1. HandlerInit => ClientOK
  BY NoCompilationOK DEF HandlerInit, ClientOK, NoDiagnostics
<1>2. TypeOK /\ TypeOK' /\ ClientOK /\ [HandlerNext]_allVars => ClientOK'
  <2> SUFFICES ASSUME TypeOK, TypeOK', ClientOK, [HandlerNext]_allVars PROVE ClientOK'
    OBVIOUS
  <2>1. CASE SessionEnds
    BY <2>1, NoCompilationOK DEF SessionEnds, NoDiagnostics, ClientOK, Compilations
  <2>2. CASE Elsewhere \/ UNCHANGED allVars
    BY <2>2 DEF Elsewhere, client, allVars, ClientOK, Compilations
  <2>3. CASE Handle
    <3>1. \/ \E sent \in BOOLEAN : ShareLicense(sent)
          \/ licensed' = TRUE /\ shared' = (shared \/ CurrentProject)
      BY <2>3
         DEF Handle, HandleSetProjectPath, HandleReloadDotfile, HandleDidOpen,
             HandleDidChange, HandleDidClose, HandleIncludeResource,
             HandleExcludeResource, HandleRejectedResource, HandleSetMacros,
             HandleAddRootUnit, HandleRemoveRootUnit, Recompile, HandleDefinition,
             HandleCompletion, HandleSetLicenseKey, ClientOK
    <3>2. licensed' \in BOOLEAN
      BY <3>1 DEF ShareLicense, ClientOK
    <3>3. shared' \in BOOLEAN
      BY <3>1 DEF ShareLicense, ClientOK, CurrentProject
    <3> QED BY <2>3, <3>2, <3>3, HandlersOK DEF ClientOK, Compilations
  <2> QED BY <2>1, <2>2, <2>3 DEF HandlerNext
<1>3. HandlerSpec => []TypeOK
  <2>1. Spec => []TypeOK
    BY TypeCorrect
  <2> QED BY <2>1, HandlerDrivesProject
<1>4. TypeOK /\ ClientOK => HandlerTypeOK
  BY DEF HandlerTypeOK, ClientOK, Compilations
<1> QED BY <1>1, <1>2, <1>3, <1>4, PTL DEF HandlerSpec

-----------------------------------------------------------------------------
(* What the compiler reads *)

\* The buffers of the project and the editor's documents are as they should be.
EditorInv == EditsInv /\ OpenedInv

\* The compiler gets what the user has before him, of every file of the
\* project's folder and of every file that is never open.
LEMMA CompiledSeen ==
  EditorInv /\ CurrentProject =>
    \A f \in Files :
      editor[f] # EmptyText /\ (IsPathPartOfPath(f, Root) \/ f \notin Documents) =>
        CompiledText(f) = Seen(f)
<1> SUFFICES ASSUME EditorInv, CurrentProject, NEW f \in Files, editor[f] # EmptyText,
                    IsPathPartOfPath(f, Root) \/ f \notin Documents
             PROVE  CompiledText(f) = Seen(f)
  OBVIOUS
<1> DEFINE buffered == {units[dir].buffers[f] : dir \in DOMAIN units} \ {NoText}
<1>1. CompiledText(f) = IF buffered = {} THEN disk[f] ELSE CHOOSE text \in buffered : TRUE
  BY DEF CompiledText
<1>2. Held(units) /\ UnitsInv
  BY DEF EditorInv, OpenedInv, EditsInv
<1>3. CASE f \notin Documents
  <2>1. buffered = {}
    BY <1>2, <1>3 DEF Held
  <2>2. editor[f] = NoText
    BY <1>3 DEF EditorInv, OpenedInv
  <2> QED BY <1>1, <2>1, <2>2 DEF Seen
<1>4. CASE f \in Documents
  <2>1. Mirrors(units[Root], f)
    BY <1>4 DEF EditorInv, EditsInv, BuffersInv
  <2>2. \A dir \in DOMAIN units : units[dir].buffers[f] # NoText => dir = Root
    <3> SUFFICES ASSUME NEW dir \in DOMAIN units, units[dir].buffers[f] # NoText
                 PROVE  dir = Root
      OBVIOUS
    <3>1. IsPathPartOfPath(f, dir) /\ f \in Path
      BY <1>2, FilesAreLeaves DEF Held
    <3>2. DOMAIN units \in SUBSET Path /\ NonNested(DOMAIN units) /\ Root \in DOMAIN units
      BY <1>2 DEF UnitsInv, GoodUnits, CurrentProject
    <3> QED BY <1>4, <3>1, <3>2, NonNestedUnique
  <2>3. buffered = {units[Root].buffers[f]} \ {NoText}
    BY <2>2 DEF CurrentProject
  <2> HIDE DEF buffered
  <2>4. CASE editor[f] = NoText
    <3>1. buffered = {}
      BY <2>1, <2>3, <2>4 DEF Mirrors
    <3> QED BY <1>1, <2>4, <3>1 DEF Seen
  <2>5. CASE editor[f] # NoText
    <3>1. units[Root].buffers[f] = editor[f]
      BY <2>1, <2>5 DEF Mirrors, FileContents
    <3>2. buffered = {editor[f]}
      BY <2>3, <2>5, <3>1
    <3> QED BY <1>1, <2>5, <3>2 DEF Seen
  <2> QED BY <2>4, <2>5
<1> QED BY <1>3, <1>4

\* A compilation holds texts of files as the compiler gets them.
TextsRead ==
  /\ FreshCompilation.texts = [f \in Files |-> FreshCompilation.texts[f]]
  /\ \A f \in Files : FreshCompilation.texts[f] \in {NoText, CompiledText(f)}

\* So does one that succeeds, of every target.
LEMMA FreshTexts ==
  /\ TextsRead
  /\ Compiles => /\ FreshCompilation.macros = defines
                 /\ \A f \in Files \intersect Targets :
                      FreshCompilation.texts[f] = CompiledText(f)
<1>1. CASE Compiles
  <2> DEFINE texts == [f \in Files |-> IF f \in Read THEN CompiledText(f) ELSE NoText]
  <2>1. FreshCompilation = [texts |-> texts, macros |-> defines]
    BY <1>1 DEF FreshCompilation
  <2>2. Targets \subseteq Read
    BY DEF Read
  <2>3. /\ texts = [f \in Files |-> texts[f]]
        /\ \A f \in Files : texts[f] \in {NoText, CompiledText(f)}
        /\ \A f \in Files \intersect Targets : texts[f] = CompiledText(f)
    BY <2>2
  <2> HIDE DEF texts
  <2> QED BY <2>1, <2>3 DEF TextsRead
<1>2. CASE ~Compiles
  BY <1>2 DEF FreshCompilation, NoCompilation, TextsRead
<1> QED BY <1>1, <1>2
-----------------------------------------------------------------------------
(* A deleted file that is closed *)

\* After a close no unit has a buffer of the file.
LEMMA CloseForgets ==
  ASSUME UnitsInv, Held(units), NEW f \in Documents, RemoveFileIfNoEnt(f)
  PROVE  CompiledText(f)' = disk[f]
<1> DEFINE via == UnitVia(f)
<1>1. f \in Files /\ f \in Path
  BY ProjectAssumption, FilesAreLeaves
<1>2. DOMAIN units \in SUBSET Path /\ NonNested(DOMAIN units)
  BY DEF UnitsInv, GoodUnits
<1>3. \A dir \in DOMAIN units' : units'[dir].buffers[f] = NoText
  <2>1. CASE ~HasUnit(f)
    <3>1. units' = units
      BY <2>1 DEF RemoveFileIfNoEnt
    <3> QED BY <1>1, <2>1, <3>1 DEF Held, HasUnit, Containing
  <2>2. CASE HasUnit(f)
    <3>1. via \in DOMAIN units /\ units[via] \in Unit /\ IsPathPartOfPath(f, via)
      BY <2>2, DocumentUnit
    <3>2. units' = [units EXCEPT ![via] = Closed(units[via], f)]
      BY <2>2 DEF RemoveFileIfNoEnt
    <3>3. EmptyText \in Texts
      BY RootUnitAssumption
    <3>4. Closed(units[via], f).buffers = [units[via].buffers EXCEPT ![f] = NoText]
      BY <1>1, <3>1, <3>3, DocumentBuffers
    <3>5. Closed(units[via], f).buffers[f] = NoText
      BY <1>1, <3>1, <3>4 DEF Unit
    <3>6. \A dir \in DOMAIN units : dir # via => units[dir].buffers[f] = NoText
      BY <1>1, <1>2, <3>1, NonNestedUnique DEF Held
    <3> HIDE DEF via
    <3> QED BY <3>1, <3>2, <3>5, <3>6
  <2> QED BY <2>1, <2>2
<1>4. disk' = disk
  BY DEF RemoveFileIfNoEnt
<1> QED BY <1>3, <1>4 DEF CompiledText

\* A file that was deleted and is then closed shows nothing any more, whatever
\* it showed (remove_file_if_no_ent does not look at the file, and the
\* compilation that follows does).
THEOREM DeletedFilesCleared ==
  ASSUME HandImportsApart, ~Reopens
  PROVE  HandlerSpec => DeletedFilesClear
<1> DEFINE AllInv ==  UnitsInv /\ ShownInv /\ OpenedInv
           Clear  == CurrentProject =>
                      \A f \in Documents :
                        disk[f] = NoText /\ shown'[f] # {} => ~HandleDidClose(f)
<1>1. HandlerInit => AllInv
  <2>1. HandlerInit => UnitsInv
    BY InitKeeps DEF HandlerInit
  <2>2. HandlerInit => ShownInv /\ OpenedInv
    BY DEF HandlerInit, Init, ShownInv, OpenedInv, Held, NoUnits
  <2> QED BY <2>1, <2>2
<1>2. AllInv /\ [HandlerNext]_allVars => AllInv'
  <2> SUFFICES ASSUME AllInv, [HandlerNext]_allVars PROVE AllInv'
    OBVIOUS
  <2> QED BY HandlerStep, NextKeeps, ShownInvKept, OpenedKept
<1>3. AllInv /\ [HandlerNext]_allVars => [Clear]_allVars
  <2> SUFFICES ASSUME UnitsInv, ShownInv, Held(units), CurrentProject,
                      NEW f \in Documents, disk[f] = NoText, HandleDidClose(f)
               PROVE  shown'[f] = {}
    BY DEF OpenedInv
  <2>1. RemoveFileIfNoEnt(f) /\ FindAndReport
    BY DEF HandleDidClose
  <2>2. EmptyText \in Texts /\ f \in Files
    BY RootUnitAssumption, ProjectAssumption
  <2>3. CurrentProject'
    BY <2>1, <2>2, ProjectStays DEF OtherStep
  <2>4. shown' = reported' /\ reported' = Diagnostics' /\ compilation' = FreshCompilation'
    BY <2>1, <2>3, PublishShows DEF FindAndReport, Recompiled, Publish, ShownInv
  <2>5. FreshCompilation'.texts[f] \in {NoText, CompiledText(f)'}
    <3>1. TextsRead'
      BY FreshTexts, PTL
    <3> QED BY <2>2, <3>1 DEF TextsRead
  <2>6. compilation'.texts[f] = NoText
    BY <2>1, <2>4, <2>5, CloseForgets
  <2>7. Diagnostics'[f] = {}
    BY <2>2, <2>6 DEF Diagnostics
  <2> QED BY <2>4, <2>7
<1>4. HandlerSpec => [][Clear]_allVars
  <2> HIDE DEF AllInv, Clear
  <2> QED BY <1>1, <1>2, <1>3, PTL DEF HandlerSpec
<1> QED BY <1>4 DEF DeletedFilesClear
-----------------------------------------------------------------------------
(* Edits and closes *)

\* The diagnostic for an include that cannot be resolved is not a fault that a
\* text has wherever it is.
FaultsApart == \A fault \in Faults : fault[2] # MissingInclude

\* What a compilation finds is what the user sees, if every target is there.
FreshlyShown ==
  /\ EditorInv /\ CurrentProject
  /\ \A f \in Targets : disk[f] # NoText
  /\ compilation = FreshCompilation
  /\ shown = Diagnostics

LEMMA FreshShowsSeen ==
  ASSUME FaultsApart
  PROVE  FreshlyShown => ShowsSeen
<1> SUFFICES ASSUME FreshlyShown, NEW f \in units[Root].nonInlined,
                    ~IsPathExcluded(f, excludedPaths), editor[f] # EmptyText
             PROVE  shown[f] \ {MissingInclude} = FaultsIn(Seen(f), defines) \ suppressed
  BY DEF ShowsSeen
<1>1. /\ UnitsInv /\ Root \in DOMAIN units /\ units[Root] \in Unit
      /\ Local(units[Root], Root) /\ NonNested(DOMAIN units) /\ DOMAIN units \in SUBSET Path
  BY DEF FreshlyShown, EditorInv, EditsInv, UnitsInv, GoodUnits, CurrentProject
<1>2. f \in Files /\ f \in Path /\ IsPathPartOfPath(f, Root)
  BY <1>1, RootUnitAssumption, FilesAreLeaves DEF Unit, Local
<1>3. f \in Targets
  BY <1>1 DEF Targets
<1>4. Compiles
  <2>1. \A g : disk[g] # NoText => CompiledText(g) # NoText
    <3> SUFFICES ASSUME NEW g, disk[g] # NoText PROVE CompiledText(g) # NoText
      OBVIOUS
    <3> DEFINE buffered == {units[dir].buffers[g] : dir \in DOMAIN units} \ {NoText}
    <3>1. CompiledText(g) = IF buffered = {} THEN disk[g] ELSE CHOOSE text \in buffered : TRUE
      BY DEF CompiledText
    <3>2. NoText \notin buffered
      OBVIOUS
    <3> HIDE DEF buffered
    <3> QED BY <3>1, <3>2
  <2> QED BY <1>3, <2>1 DEF Compiles, FreshlyShown
<1>5. CompiledText(f) = Seen(f) /\ CompiledText(f) # NoText
  <2>1. CompiledText(f) # NoText
    BY <1>3, <1>4 DEF Compiles
  <2> QED BY <1>2, <2>1, CompiledSeen DEF FreshlyShown
<1>6. compilation.texts[f] = Seen(f) /\ compilation.macros = defines
  BY <1>2, <1>3, <1>4, <1>5, FreshTexts DEF FreshlyShown
<1>7. Reports(f)
  <2>1. HasUnit(f) => UnitVia(f) = Root
    <3> SUFFICES ASSUME HasUnit(f) PROVE UnitVia(f) = Root
      OBVIOUS
    <3>1. UnitVia(f) \in DOMAIN units /\ IsPathPartOfPath(f, UnitVia(f))
      BY <1>1, <1>2, UnitViaContains DEF UnitsInv
    <3> QED BY <1>1, <1>2, <3>1, NonNestedUnique
  <2> QED BY <2>1 DEF Reports
<1>8. shown[f] = (FaultsIn(Seen(f), defines) \union Unresolved(f)) \ suppressed
  BY <1>2, <1>5, <1>6, <1>7 DEF FreshlyShown, Diagnostics
<1>9. Unresolved(f) \subseteq {MissingInclude}
  BY DEF Unresolved
<1>10. MissingInclude \notin FaultsIn(Seen(f), defines)
  BY DEF FaultsApart, FaultsIn
<1> QED BY <1>8, <1>9, <1>10

\* A handler that reports to a project leaves what a compilation finds.
LEMMA ReportingShows ==
  ASSUME ShownInv, CurrentProject, EditorInv', CurrentProject', FindAndReport,
         (\A f \in Targets : disk[f] # NoText)'
  PROVE  FreshlyShown'
<1>1. compilation' = FreshCompilation' /\ Publish(reported)
  BY DEF FindAndReport, Recompiled
<1>2. shown' = reported' /\ reported' = Diagnostics'
  BY <1>1, PublishShows DEF ShownInv, Publish
<1> QED BY <1>1, <1>2 DEF FreshlyShown

LEMMA EditorInvKept ==
  ASSUME HandImportsApart, ~OpensLate
  PROVE  /\ HandlerInit => EditorInv
         /\ EditorInv /\ [HandlerNext]_allVars => EditorInv'
<1>1. ASSUME HandlerInit PROVE EditorInv
  <2>1. UnitsInv
    BY <1>1, InitKeeps DEF HandlerInit
  <2>2. BuffersInv /\ OpenedInv
    BY <1>1 DEF HandlerInit, Init, NoUnits, CurrentProject, BuffersInv, OpenedInv, Held
  <2> QED BY <2>1, <2>2 DEF EditorInv, EditsInv
<1>2. ASSUME EditorInv, [HandlerNext]_allVars PROVE EditorInv'
  <2>1. [Next]_vars
    BY <1>2, HandlerStep
  <2> QED BY <1>2, <2>1, EditsInvKept, OpenedKept DEF EditorInv, EditsInv
<1> QED BY <1>1, <1>2

\* After every edit, every close and every recompilation the editor shows, of
\* every source of the project, the faults of the text the user has before him
\* (update_file_buffer, remove_file_if_no_ent and find_diagnostics, which clears
\* the cached compilation): no scan, load or change of folders in between makes
\* the compiler read another text.
THEOREM EditsAreAnswered ==
  ASSUME HandImportsApart, ~OpensLate, ~Reopens, FaultsApart
  PROVE  HandlerSpec => EditsAnswered
<1> DEFINE AllInv   == EditorInv /\ ShownInv
           Answered ==
             CurrentProject' /\ (\A f \in Targets : disk[f] # NoText)' /\ ~ShowsSeen' =>
               /\ ~Recompile
               /\ \A f \in Documents :
                    ~HandleDidClose(f) /\ \A text \in Texts : ~HandleDidChange(f, text)
<1>1. HandlerInit => AllInv
  <2>1. HandlerInit => ShownInv
    BY DEF HandlerInit, ShownInv
  <2> QED BY <2>1, EditorInvKept
<1>2. AllInv /\ [HandlerNext]_allVars => AllInv'
  <2> SUFFICES ASSUME AllInv, [HandlerNext]_allVars PROVE AllInv'
    OBVIOUS
  <2>1. UnitsInv
    BY DEF EditorInv, EditsInv
  <2> QED BY <2>1, EditorInvKept, ShownInvKept
<1>3. AllInv /\ AllInv' /\ [HandlerNext]_allVars => [Answered]_allVars
  <2> SUFFICES ASSUME AllInv, AllInv', CurrentProject', (\A f \in Targets : disk[f] # NoText)',
                      \/ Recompile
                      \/ \E f \in Documents :
                           HandleDidClose(f) \/ \E text \in Texts : HandleDidChange(f, text)
               PROVE  ShowsSeen'
    OBVIOUS
  <2>1. FindAndReport
    BY DEF Recompile, HandleDidClose, HandleDidChange
  <2>2. OtherStep
    <3>1. EmptyText \in Texts
      BY RootUnitAssumption
    <3> QED BY <3>1 DEF Recompile, HandleDidClose, HandleDidChange, OtherStep, vars
  <2>3. CurrentProject
    BY <2>2, ProjectStays DEF EditorInv, EditsInv
  <2>4. FreshlyShown'
    BY <2>1, <2>3, ReportingShows
  <2> QED BY <2>4, FreshShowsSeen, PTL
<1>4. HandlerSpec => [][Answered]_allVars
  <2> HIDE DEF AllInv, Answered
  <2> QED BY <1>1, <1>2, <1>3, PTL DEF HandlerSpec
<1> QED BY <1>4 DEF EditsAnswered
-----------------------------------------------------------------------------
(* Answers *)

\* The documents lie in the project's own folder: a load replaces the units of
\* imported folders, with the buffers they hold.
DocumentsOwn == \A f \in Documents : IsPathPartOfPath(f, Root)

\* Without a project there is no compilation.
NoneWithout == ~CurrentProject => compilation = NoCompilation

\* A compilation of this moment answers about the texts the user sees.
FreshSeen ==
  \A f \in Files :
    \/ FreshCompilation.texts[f] \in {NoText, Seen(f)}
    \/ editor[f] = EmptyText

LEMMA FreshAnswers ==
  ASSUME DocumentsOwn
  PROVE  EditorInv /\ CurrentProject => FreshSeen
<1> SUFFICES ASSUME EditorInv, CurrentProject, NEW f \in Files, editor[f] # EmptyText
             PROVE  FreshCompilation.texts[f] \in {NoText, Seen(f)}
  BY DEF FreshSeen
<1>1. CompiledText(f) = Seen(f)
  BY CompiledSeen DEF DocumentsOwn
<1> QED BY <1>1, FreshTexts DEF TextsRead

\* A compilation whose texts are those the user sees answers about them.
TextsSeen ==
  /\ compilation.texts = [f \in Files |-> compilation.texts[f]]
  /\ \A f \in Files : compilation.texts[f] \in {NoText, Seen(f)} \/ editor[f] = EmptyText

LEMMA SeenHolds == TextsSeen => AnswersHold
<1> SUFFICES ASSUME TextsSeen PROVE AnswersHold
  OBVIOUS
<1>1. \A f \in Files : SeenTexts[f] = compilation.texts[f]
  BY DEF SeenTexts, TextsSeen
<1>2. SeenTexts = compilation.texts
  BY <1>1 DEF SeenTexts, TextsSeen
<1> QED BY <1>1, <1>2 DEF AnswersHold

LEMMA NoneHolds == compilation = NoCompilation => AnswersHold
<1>1. /\ NoCompilation.texts = [f \in Files |-> NoCompilation.texts[f]]
      /\ \A f \in Files : NoCompilation.texts[f] = NoText
  BY DEF NoCompilation
<1> QED BY <1>1, SeenHolds DEF TextsSeen

\* What the handlers other than setProjectPath leave of the compilation, and of
\* the editor where they do not compile.
LEMMA AnsweringHandlers ==
  ASSUME Handle, ~HandleSetProjectPath
  PROVE  \/ FindAndReport
         \/ Silent /\ (UNCHANGED editor \/ \E f \in Documents, text \in Texts : AddFile(f, text))
         \/ UseCompilation /\ UNCHANGED vars /\ (CurrentProject \/ \E f : HasUnit(f))
BY DEF Handle, HandleReloadDotfile, HandleDidOpen, HandleDidChange, HandleDidClose,
       HandleIncludeResource, HandleExcludeResource, HandleRejectedResource,
       HandleSetMacros, HandleAddRootUnit, HandleRemoveRootUnit, ReportIfWritten,
       Recompile, HandleDefinition, HandleCompletion, HandleSetLicenseKey,
       IncludeResource, ExcludeResource, LoadForResource, RejectResource, SetMacros,
       AddRootUnit, RemoveRootUnit, vars

\* Only a project has units.
LEMMA UnitsOfProject ==
  ASSUME OpenedInv, NEW f, HasUnit(f)
  PROVE  CurrentProject
BY DEF OpenedInv, NoUnits, HasUnit, Containing

LEMMA NoneWithoutKept ==
  ASSUME EditorInv, NoneWithout, [HandlerNext]_allVars
  PROVE  NoneWithout'
<1> SUFFICES ASSUME ~CurrentProject'
             PROVE  compilation' = NoCompilation
  BY DEF NoneWithout
<1>1. CASE SessionEnds
  BY <1>1 DEF SessionEnds
<1>2. CASE HandleSetProjectPath
  BY <1>2 DEF HandleSetProjectPath, NoProject
<1>3. CASE Handle /\ ~HandleSetProjectPath
  <2>1. OtherStep
    BY <1>3, OtherHandlersStep
  <2>2. ~CurrentProject
    BY <2>1, ProjectStays DEF EditorInv, EditsInv
  <2>3. FindAndReport \/ Silent
    BY <1>3, <2>2, AnsweringHandlers, UnitsOfProject DEF EditorInv
  <2> QED BY <2>2, <2>3 DEF FindAndReport, Silent, NoneWithout
<1>4. CASE Elsewhere \/ UNCHANGED allVars
  <2>1. UNCHANGED <<units, compilation>>
    BY <1>4 DEF Elsewhere, SaveDocument, DeleteFile, CreateFile, EditDotfile, client, allVars
  <2> QED BY <2>1 DEF NoneWithout, CurrentProject
<1> QED BY <1>1, <1>2, <1>3, <1>4 DEF HandlerNext

\* A step that neither changes the disk nor opens a document keeps the answers.
LEMMA AnswersKept ==
  ASSUME DocumentsOwn, EditorInv, EditorInv', NoneWithout, NoneWithout',
         HandlerNext, AnswersHold, disk' = disk,
         ~ \E f \in Documents : editor[f] = NoText /\ editor'[f] # NoText
  PROVE  AnswersHold'
<1>1. ASSUME ~CurrentProject' PROVE AnswersHold'
  <2>1. (compilation = NoCompilation)'
    BY <1>1 DEF NoneWithout, NoCompilation
  <2> QED BY <2>1, NoneHolds, PTL
<1>2. ASSUME CurrentProject', compilation' = FreshCompilation' PROVE AnswersHold'
  <2>1. FreshSeen'
    <3>1. (EditorInv /\ CurrentProject)'
      BY <1>2
    <3> QED BY <3>1, FreshAnswers, PTL
  <2>2. TextsRead'
    BY FreshTexts, PTL
  <2>3. TextsSeen'
    BY <1>2, <2>1, <2>2 DEF FreshSeen, TextsRead, TextsSeen
  <2> QED BY <2>3, SeenHolds, PTL
<1>3. ASSUME UNCHANGED <<compilation, editor>> PROVE AnswersHold'
  BY <1>3 DEF AnswersHold, SeenTexts, Seen
<1>4. CASE SessionEnds
  <2>1. ~CurrentProject'
    BY <1>4 DEF SessionEnds, Crash, NoUnits, CurrentProject
  <2> QED BY <1>1, <2>1
<1>5. CASE HandleSetProjectPath
  BY <1>1, <1>2, <1>5 DEF HandleSetProjectPath, Recompiled
<1>6. CASE Handle /\ ~HandleSetProjectPath
  <2>1. CASE FindAndReport
    BY <1>1, <1>2, <2>1 DEF FindAndReport, Recompiled
  <2>2. CASE Silent /\ UNCHANGED editor
    BY <1>3, <2>2 DEF Silent
  <2>3. ASSUME NEW f \in Documents, NEW text \in Texts, AddFile(f, text)
        PROVE  FALSE
    <3>1. f \in Files /\ text # NoText /\ editor \in [Files -> Texts \union {NoText}]
      BY ProjectAssumption, RootUnitAssumption DEF EditorInv, EditsInv, UnitsInv, FilesOK, Disk
    <3> QED BY <2>3, <3>1 DEF AddFile
  <2>4. CASE UseCompilation /\ UNCHANGED vars /\ (CurrentProject \/ \E f : HasUnit(f))
    <3>1. CurrentProject /\ UNCHANGED <<editor, disk>>
      BY <2>4, UnitsOfProject DEF EditorInv, vars
    <3>2. CASE compilation # NoCompilation
      BY <1>3, <2>4, <3>1, <3>2 DEF UseCompilation
    <3>3. CASE compilation = NoCompilation
      <4>1. compilation' = FreshCompilation
        BY <2>4, <3>3 DEF UseCompilation
      <4>2. FreshSeen /\ TextsRead
        BY <3>1, FreshAnswers, FreshTexts
      <4>3. \A f : Seen(f)' = Seen(f)
        BY <3>1 DEF Seen
      <4>4. TextsSeen'
        BY <3>1, <4>1, <4>2, <4>3 DEF FreshSeen, TextsRead, TextsSeen
      <4> QED BY <4>4, SeenHolds, PTL
    <3> QED BY <3>2, <3>3
  <2> QED BY <1>6, <2>1, <2>2, <2>3, <2>4, AnsweringHandlers
<1>7. CASE Elsewhere
  BY <1>3, <1>7 DEF Elsewhere, SaveDocument, DeleteFile, CreateFile, EditDotfile, client
<1> QED BY <1>4, <1>5, <1>6, <1>7 DEF HandlerNext

\* No edit, no close and no request that recompiles, or that fails to, makes
\* definitions and completions answer about another text than the one the user
\* sees: a cached compilation is cleared whenever a text it holds changes
\* (Project::compile and find_diagnostics), as long as the documents lie in the
\* project's own folder.
THEOREM AnswersAreKept ==
  ASSUME HandImportsApart, ~OpensLate, DocumentsOwn
  PROVE  HandlerSpec => AnswersStay
<1> DEFINE AllInv == EditorInv /\ NoneWithout
           Stay   == AnswersHold /\ ~AnswersHold' =>
                       disk' # disk \/ \E f \in Documents : editor[f] = NoText /\ editor'[f] # NoText
<1>1. HandlerInit => AllInv
  <2>1. HandlerInit => NoneWithout
    BY DEF HandlerInit, NoneWithout
  <2> QED BY <2>1, EditorInvKept
<1>2. AllInv /\ [HandlerNext]_allVars => AllInv'
  BY EditorInvKept, NoneWithoutKept
<1>3. AllInv /\ AllInv' /\ [HandlerNext]_allVars => [Stay]_allVars
  BY AnswersKept
<1>4. HandlerSpec => [][Stay]_allVars
  <2> HIDE DEF AllInv, Stay
  <2> QED BY <1>1, <1>2, <1>3, PTL DEF HandlerSpec
<1> QED BY <1>4 DEF AnswersStay
=============================================================================
