CONSTANTS
  Root <- P
  Files <- MCFiles
  SourceFiles <- MCSources
  HeaderFiles <- MCHeaders
  Texts <- MCTexts
  NoText = NoText
  None = None
  NoDotfile = NoDotfile
  NamePrefixes <- Nothing
  Disks <- MCDisks
  FirstDotfiles <- MCFirstDotfiles
  Dotfiles <- Nothing
  Documents <- Nothing
  Volatile <- Nothing
  Resources <- MCResources
  Imports <- Nothing
  MacroSets <- MCMacroSets
  WriteOutcomes = {TRUE}
  Crashes = {}
  OpensLate = FALSE
  Faults <- MCFaults
  MissingInclude = "CouldNotOpenIncludeFile"
  Declares <- MCDeclares
  Instantiates <- MCInstantiates
  KeyChecks <- Nothing
  Reopens = TRUE

SPECIFICATION HandlerSpec
INVARIANTS ShownIsReported
