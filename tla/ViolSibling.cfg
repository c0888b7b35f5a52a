CONSTANTS
  Root <- P
  Files <- SiblingFiles
  SourceFiles <- SiblingFiles
  HeaderFiles <- Nothing
  Texts <- MCTexts
  NoText = NoText
  None = None
  NoDotfile = NoDotfile
  NamePrefixes <- MCNamePrefixes
  Disks <- SiblingDisks
  FirstDotfiles <- CleanDotfiles
  Dotfiles <- Nothing
  Documents <- Nothing
  Volatile <- Nothing
  Resources <- Nothing
  Imports <- SiblingImports
  MacroSets <- MCMacroSets
  WriteOutcomes = {TRUE}
  Crashes = {}
  OpensLate = FALSE

SPECIFICATION Spec

INVARIANTS MemoryIsSaved
