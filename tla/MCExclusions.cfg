CONSTANTS
  Root <- P
  Files <- MCFiles
  SourceFiles <- MCFiles
  HeaderFiles <- Nothing
  Texts <- MCTexts
  NoText = NoText
  None = None
  NoDotfile = NoDotfile
  NamePrefixes <- Nothing
  Disks <- MCDisks
  FirstDotfiles <- MCFirstDotfiles
  Dotfiles <- MCDotfiles
  Documents <- Nothing
  Volatile <- MCVolatile
  Resources <- MCResources
  Imports <- Nothing
  MacroSets <- MCMacroSets
  WriteOutcomes = {TRUE, FALSE}
  Crashes = {"idle", "writing"}
  OpensLate = TRUE

SPECIFICATION Spec
INVARIANTS ListsApart
PROPERTIES ScanExact HandEditsKept ExclusionsImplemented RequestsAsNamed

