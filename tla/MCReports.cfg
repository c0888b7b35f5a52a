CONSTANTS
  Root <- P
  Files <- MCFiles
  SourceFiles <- MCSources
  HeaderFiles <- MCHeaders
  Texts <- MCTexts
  NoText = NoText
  None = None
  NoDotfile = NoDotfile
  NamePrefixes <- Nothing
  Disks <- MCDisks
  FirstDotfiles <- MCFirstDotfiles
  Dotfiles <- Nothing
  Documents <- MCDocuments
  Volatile <- MCVolatile
  Resources <- MCResources
  Imports <- MCImports
  MacroSets <- MDefined
  WriteOutcomes = {TRUE}
  Crashes = {"idle"}
  OpensLate = FALSE
  Faults <- MCFaults
  MissingInclude = "CouldNotOpenIncludeFile"
  Declares <- MCDeclares
  Instantiates <- MCInstantiates
  KeyChecks <- Nothing
  Reopens = FALSE

SPECIFICATION HandlerSpec
INVARIANTS ShownIsReported ShownIsCompiled
PROPERTIES EditsAnswered DeletedFilesClear AnswersStay
