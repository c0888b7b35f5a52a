CONSTANTS
  Root <- P
  Files <- MCFiles
  SourceFiles <- MCFiles
  HeaderFiles <- Nothing
  Texts <- MCTexts
  NoText = NoText
  None = None
  NoDotfile = NoDotfile
  NamePrefixes <- Nothing
  Disks <- MCDisks
  FirstDotfiles <- EmptyDotfiles
  Dotfiles <- MCDotfiles
  Documents <- Nothing
  Volatile <- Nothing
  Resources <- Nothing
  Imports <- Nothing
  MacroSets <- Nothing
  WriteOutcomes = {TRUE}
  Crashes = {}
  OpensLate = FALSE

SPECIFICATION Spec

INVARIANTS SplitFollowsExclusions
