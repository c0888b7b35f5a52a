CONSTANTS
  Root <- P
  Files <- MCFiles
  SourceFiles <- MCSources
  HeaderFiles <- MCHeaders
  Texts <- MCTexts
  NoText = NoText
  None = None
  NoDotfile = NoDotfile
  NamePrefixes <- Nothing
  Disks <- MCDisks
  FirstDotfiles <- EmptyDotfiles
  Dotfiles <- Nothing
  Documents <- TwoDocuments
  Volatile <- Nothing
  Resources <- Nothing
  Imports <- Nothing
  MacroSets <- Nothing
  WriteOutcomes = {TRUE}
  Crashes = {}
  OpensLate = FALSE

SPECIFICATION Spec

PROPERTIES UnsavedIncludesKept
