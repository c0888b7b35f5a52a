CONSTANTS
  Root <- P
  Files <- MCFiles
  SourceFiles <- MCSources
  HeaderFiles <- MCHeaders
  Texts <- MCTexts
  NoText = NoText
  None = None
  NoDotfile = NoDotfile
  NamePrefixes <- Nothing
  Disks <- MCDisks
  FirstDotfiles <- MCFirstDotfiles
  Dotfiles <- MCDotfiles
  Documents <- MCDocuments
  Volatile <- Nothing
  Resources <- MCResources
  Imports <- Nothing
  MacroSets <- Nothing
  WriteOutcomes = {TRUE}
  Crashes = {"idle"}
  OpensLate = FALSE

SPECIFICATION Spec

PROPERTIES ClosedFilesStayIndexed
