CONSTANTS
  Root <- P
  Files <- MCFiles
  SourceFiles <- MCSources
  HeaderFiles <- MCHeaders
  Texts <- MCTexts
  NoText = NoText
  None = None
  NoDotfile = NoDotfile
  NamePrefixes <- Nothing
  Disks <- MCDisks
  FirstDotfiles <- MCFirstDotfiles
  Dotfiles <- MCDotfiles
  Documents <- Nothing
  Volatile <- Nothing
  Resources <- MCResources
  Imports <- MCImports
  MacroSets <- MCMacroSets
  WriteOutcomes = {TRUE, FALSE}
  Crashes = {"idle", "writing"}
  OpensLate = FALSE
  Faults <- MCFaults
  MissingInclude = "CouldNotOpenIncludeFile"
  Declares <- MCDeclares
  Instantiates <- MCInstantiates
  KeyChecks <- MCKeyChecks
  Reopens = FALSE

SPECIFICATION HandlerSpec
INVARIANTS HandlerTypeOK LicenseShared ShownIsCompiled
